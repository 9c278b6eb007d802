------------------------------- MODULE Session -------------------------------
(***************************************************************************)
(* A session: the clients of GsmClient.tla and the session manager they    *)
(* talk to.  The manager is external; it is what the calls and callbacks   *)
(* of gsmclient.c take for granted: it saves some or all of its clients,   *)
(* lets one of them interact at a time, starts phase 2 when nobody else    *)
(* has anything left to do, may cancel a shutdown, and waits for one       *)
(* SaveYourselfDone for each SaveYourself.                                 *)
(***************************************************************************)
EXTENDS GsmClient

CONSTANTS
    MaxSaves,     \* saves the manager starts, at most
    Kinds,        \* the SaveYourself messages it may send
    Sessions      \* kinds of session: who takes part, whether a client that
                  \* still saves may be asked again, and the properties
                  \* that applications set; with some, they ask for saves too

ASSUME SavesAssumption == MaxSaves \in Nat
ASSUME KindsAssumption ==
    Kinds \subseteq [type : {"SaveYourself"}, local : BOOLEAN,
                    shutdown : BOOLEAN, style : {"None", "Any", "Errors"}]
ASSUME SessionsAssumption ==
    Sessions \subseteq [members : SUBSET Clients, overlap : BOOLEAN,
                        sets : SUBSET Settings]

VARIABLES
    session,        \* the kind of session
    phase,          \* "running", "saving", "phase2", "cancelled" or "dying"
    shutdown,       \* the save is for the end of the session
    saved,          \* saves started so far
    owed,           \* SaveYourselfDones each client owes the manager
    phase2Wanted,   \* clients that asked for phase 2
    interactWanted, \* clients that asked to interact, and wait
    interactor,     \* the client that interacts, in a set of at most one
    smProps         \* what the manager knows of each client's properties

managerVars == <<session, phase, shutdown, saved, owed, phase2Wanted,
                 interactWanted, interactor, smProps>>
vars == <<clientVars, managerVars>>

Busy == {c \in Clients : owed[c] > 0}

\* The names that properties have in this instance.
PropNames == {prop.name : prop \in Settings} \cup NamesIn(InitialProps)

\* What the manager knows of a client that has told nothing.
Nothing == [n \in PropNames |-> NoProp]

Init ==
    /\ ClientInit
    /\ session \in Sessions
    /\ phase = "running" /\ shutdown = FALSE /\ saved = 0
    /\ owed = [c \in Clients |-> 0]
    /\ phase2Wanted = {} /\ interactWanted = {} /\ interactor = {}
    /\ smProps = [c \in Clients |-> Nothing]

ToAll(S, m) ==
    toClient' = [c \in Clients |-> IF c \in S \cap connection
                                   THEN Append(toClient[c], m)
                                   ELSE toClient[c]]

ManagerOnly == UNCHANGED <<priv, connection, link, properties, toSM,
                           application, session>>

\* A client joins while nothing is being saved.
Joins(c, known, initial) ==
    /\ c \in session.members
    /\ phase = "running" /\ Busy = {}
    /\ Connect(c, known, initial)
    /\ owed' = [owed EXCEPT ![c] = IF initial THEN 1 ELSE 0]
    /\ smProps' = [smProps EXCEPT ![c] = Nothing]
    /\ UNCHANGED <<session, phase, shutdown, saved, phase2Wanted,
                   interactWanted, interactor>>

\* A save of one client, or of all of them, which alone may be a shutdown.
SmSave(S, kind) ==
    /\ phase = "running" /\ Busy = {} /\ saved < MaxSaves
    /\ S # {} /\ S \subseteq link
    /\ S = link \/ (Cardinality(S) = 1 /\ ~kind.shutdown)
    /\ ToAll(S, kind)
    /\ owed' = [c \in Clients |-> IF c \in S THEN 1 ELSE 0]
    /\ phase' = "saving" /\ shutdown' = kind.shutdown /\ saved' = saved + 1
    /\ ManagerOnly
    /\ UNCHANGED <<phase2Wanted, interactWanted, interactor, smProps>>

\* Another save, of a client that has not answered the last one.
SmSaveAgain(c, kind) ==
    /\ session.overlap /\ phase = "saving" /\ owed[c] = 1 /\ saved < MaxSaves
    /\ ToAll({c}, kind)
    /\ owed' = [owed EXCEPT ![c] = @ + 1]
    /\ saved' = saved + 1
    /\ ManagerOnly
    /\ UNCHANGED <<phase, shutdown, phase2Wanted, interactWanted, interactor,
                   smProps>>

\* What the manager forgets about a client that is gone.
Forget(c) ==
    /\ owed' = [owed EXCEPT ![c] = 0]
    /\ phase2Wanted' = phase2Wanted \ {c}
    /\ interactWanted' = interactWanted \ {c}
    /\ interactor' = interactor \ {c}

Tracking == <<owed, phase2Wanted, interactWanted, interactor>>

\* The manager handles the next message of a client.
SmReceives(c) ==
    LET m == Head(toSM[c]) IN
    /\ c \in link /\ toSM[c] # <<>>
    /\ toSM' = [toSM EXCEPT ![c] = Tail(@)]
    /\ CASE m.type = "SaveYourselfDone" ->
              /\ owed' = [owed EXCEPT ![c] = @ - 1]
              /\ phase2Wanted' = phase2Wanted \ {c}
              /\ UNCHANGED <<interactWanted, interactor, smProps, link>>
         [] m.type = "Phase2Request" ->
              /\ phase2Wanted' = phase2Wanted \cup {c}
              /\ UNCHANGED <<owed, interactWanted, interactor, smProps, link>>
         [] m.type = "InteractRequest" ->
              /\ interactWanted' = IF phase = "cancelled" THEN interactWanted
                                   ELSE interactWanted \cup {c}
              /\ UNCHANGED <<owed, phase2Wanted, interactor, smProps, link>>
         [] m.type = "InteractDone" ->
              /\ interactor' = interactor \ {c}
              /\ UNCHANGED <<owed, phase2Wanted, interactWanted, smProps, link>>
         [] m.type = "RequestSave" ->
              UNCHANGED <<Tracking, smProps, link>>
         [] m.type = "SetProperties" ->
              /\ smProps' = [smProps EXCEPT ![c] = Learned(@, m.props)]
              /\ UNCHANGED <<Tracking, link>>
         [] m.type = "Close" ->
              /\ link' = link \ {c}
              /\ Forget(c)
              /\ UNCHANGED smProps
    /\ UNCHANGED <<priv, connection, properties, toClient, application,
                   session, phase, shutdown, saved>>

\* One client at a time may interact.
SmGrantInteract ==
    /\ interactor = {}
    /\ \E c \in interactWanted :
          /\ interactor' = {c}
          /\ interactWanted' = interactWanted \ {c}
          /\ ToAll({c}, Message("Interact"))
    /\ ManagerOnly
    /\ UNCHANGED <<phase, shutdown, saved, owed, phase2Wanted, smProps>>

\* Everybody has answered, or waits for phase 2.
SmPhase2 ==
    /\ phase = "saving" /\ Busy # {} /\ Busy \subseteq phase2Wanted
    /\ phase' = "phase2"
    /\ ToAll(Busy, Message("SaveYourselfPhase2"))
    /\ ManagerOnly
    /\ UNCHANGED <<shutdown, saved, Tracking, smProps>>

SmComplete ==
    /\ phase \in {"saving", "phase2", "cancelled"} /\ Busy = {}
    /\ IF shutdown /\ phase # "cancelled"
       THEN phase' = "dying" /\ ToAll(link, Message("Die"))
       ELSE /\ phase' = "running"
            /\ ToAll(link, Message("SaveComplete"))
    /\ shutdown' = FALSE
    /\ ManagerOnly
    /\ UNCHANGED <<saved, Tracking, smProps>>

\* The shutdown is called off, by another client's user.  The answers of those
\* that have not finished are still awaited.
SmCancel ==
    /\ phase \in {"saving", "phase2"} /\ shutdown
    /\ phase' = "cancelled"
    /\ interactWanted' = {} /\ interactor' = {}
    /\ ToAll(link, Message("ShutdownCancelled"))
    /\ ManagerOnly
    /\ UNCHANGED <<shutdown, saved, owed, phase2Wanted, smProps>>

\* The end of the session can come without a save.
SmDie ==
    /\ phase \in {"running", "saving", "phase2"} /\ link # {}
    /\ phase' = "dying"
    /\ ToAll(link, Message("Die"))
    /\ interactWanted' = {} /\ interactor' = {}
    /\ ManagerOnly
    /\ UNCHANGED <<shutdown, saved, owed, phase2Wanted, smProps>>

\* The properties set in a kind of session.
MaySet == \/ UNCHANGED properties
          \/ \E c \in Clients, prop \in session.sets :
                properties' = [properties EXCEPT ![c] = Replaced(c, <<prop>>)]

ClientStep(c) == Handles(c) /\ MaySet /\ UNCHANGED managerVars

\* What the application does, with the manager noticing a lost connection.
AppStep(c) ==
    /\ Calls(c) \/ (session.sets # {} /\ MoreCalls(c) /\ MaySet)
    /\ IF c \in link \ link' THEN Forget(c) ELSE UNCHANGED Tracking
    /\ UNCHANGED <<session, phase, shutdown, saved, smProps>>

ManagerStep == SmGrantInteract \/ SmPhase2 \/ SmComplete

Next ==
    \/ \E c \in Clients :
          \/ ClientStep(c)
          \/ AppStep(c)
          \/ SmReceives(c)
          \/ \E known, initial \in BOOLEAN : Joins(c, known, initial)
          \/ \E kind \in Kinds : SmSaveAgain(c, kind)
    \/ \E S \in {link} \cup {{c} : c \in link}, kind \in Kinds :
          SmSave(S, kind)
    \/ ManagerStep
    \/ SmCancel
    \/ SmDie

Spec == Init /\ [][Next]_vars

\* Every main loop dispatches what has arrived, and every dialog is closed some
\* day.  Nobody has to save, to cancel, or to leave.
Fairness ==
    /\ \A c \in Clients :
          /\ WF_vars(ClientStep(c))
          /\ WF_vars(SmReceives(c))
          /\ WF_vars(InteractionDone(c, "current") /\ UNCHANGED managerVars)
    /\ WF_vars(ManagerStep)

FairSpec == Spec /\ Fairness

-----------------------------------------------------------------------------
(* Safety.                                                                 *)

Pending(queue, type) ==
    Cardinality({i \in DOMAIN queue : queue[i].type = type})

\* A client answers each SaveYourself once, however its save ends: by itself,
\* with an interaction, in phase 2, cancelled, or with a dialog of an earlier
\* save still up.  "If we get SaveYourself while already saving, we have to
\* send SaveYourselfDone for the current save, then handle the new"
\* (client_save_yourself_callback()).
AnswersAgree ==
    phase # "dying" =>
    \A c \in connection \cap link :
        owed[c] = Pending(toClient[c], "SaveYourself")
                  + Pending(toSM[c], "SaveYourselfDone")
                  + (IF priv[c].state = "IDLE" THEN 0 ELSE 1)

OneAnswerEach == ~session.overlap => AnswersAgree

\* An InteractDone on its way comes from the client the manager has let
\* interact, unless it has called the shutdown off meanwhile
\* (gsm_client_interaction_done()).
InteractDoneExpected ==
    phase \notin {"cancelled", "dying"} =>
    \A c \in link : Pending(toSM[c], "InteractDone") > 0 => c \in interactor

\* When a client is in phase 2, every other one is done with phase 1
\* (client_save_phase_2_callback(), gsm_client_request_phase2_save()).
Phase2Alone ==
    \A c, d \in connection \cap link :
        priv[c].state \in {"SAVING_PHASE2", "INTERACT_REQUESTED_PHASE2"} =>
        priv[d].state # "INTERACT_REQUESTED"

\* Where the queue q tells something about the property n.
News(q, n) == {i \in DOMAIN q : /\ q[i].type = "SetProperties"
                                /\ n \in NamesIn(q[i].props)}

\* The last that q tells about n is what the list has, and when it tells
\* nothing, what is known already is.
InStep(q, known, list, n) ==
    /\ News(q, n) = {} => known[n] = FindByName(list, n)
    /\ \A i \in News(q, n) : (\A j \in News(q, n) : j <= i) =>
          FindByName(q[i].props, n) = FindByName(list, n)

\* What the manager knows of a client's properties, with what is on its way,
\* is what the client has: replace_one_prop() sends each change, and
\* gsm_client_connect() all there is.
PropertiesInStep ==
    \A c \in connection \cap link, n \in PropNames :
        InStep(toSM[c], smProps[c], properties[c], n)

\* errors_only tells the handler of a granted interaction how the save was
\* asked for: "errors_only" is save_interaction_errors_only
\* (client_interact_callback()).
ToldTheStyle ==
    \A c \in Clients :
        priv[c].interaction_granted => told[c] = priv[c].errors_only

\* The application interacts only while its save lasts: interaction_done() is
\* called "after all interaction" (gsmclient.h), and refuses calls unless "the
\* save is still in progress".
InteractsWhileGranted ==
    \A c \in connection \cap link :
        "current" \in dialogs[c] => priv[c].interaction_granted

\* gsm_client_get_connected() is true of a client with a connection, not of one
\* that was cut off ("We were disconnected", process_ice_messages()).
ConnectedMeansConnected == connection \subseteq link

\* What set_priority() takes is what get_priority() gives back.
PriorityKept ==
    \A c \in Clients, priority \in 0..100 :
        GetPriority(SetPriority(properties[c], priority)) = priority

-----------------------------------------------------------------------------
(* Liveness.                                                               *)

\* Every save ends: no client and no manager wait for each other, through
\* interactions one after another, phase 2, cancelled shutdowns and clients
\* that leave or are cut off in the middle.
SavesEnd ==
    ~session.overlap /\ phase \in {"saving", "phase2", "cancelled"} ~>
    phase \in {"running", "dying"}

\* When the session ends every client disconnects, even from within a save.
AllLeave == phase = "dying" ~> connection \cap link = {}
=============================================================================
