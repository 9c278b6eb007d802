---------------------------- MODULE SessionProofs ----------------------------
(***************************************************************************)
(* Theorems about Session, for any number of clients, whatever they do,    *)
(* and any number of saves.                                                *)
(***************************************************************************)
EXTENDS Session, FiniteSetTheorems, TLAPS

-----------------------------------------------------------------------------
(* Queues, as far as the types of their messages go.                       *)

\* There is a message of type t.
Has(q, t) == \E i \in DOMAIN q : q[i].type = t

\* There is at most one.
Once(q, t) == \A i, j \in DOMAIN q : q[i].type = t /\ q[j].type = t => i = j

\* One of type t comes after one of type s.
After(q, s, t) ==
    \E i, j \in DOMAIN q : i < j /\ q[i].type = s /\ q[j].type = t

\* After each of type s comes one of type t.
Followed(q, s, t) ==
    \A i \in DOMAIN q : q[i].type = s =>
        \E j \in DOMAIN q : i < j /\ q[j].type = t

-----------------------------------------------------------------------------
(* The inductive invariant.                                                *)

\* The states a GsmClientPrivate has between two callbacks.
States == {"DISCONNECTED", "IDLE", "PHASE2_REQUESTED"} \cup Interacting

\* A GsmClientPrivate in one of the states S.
PrivateIn(S) == [state : S, in_shutdown : BOOLEAN,
                 interaction_granted : BOOLEAN, errors_only : BOOLEAN,
                 ignore_next_save : BOOLEAN]

Private == PrivateIn(States)

\* The messages of the manager, and those of its clients.
FromManager ==
    [type : {"SaveYourself"}, local : BOOLEAN, shutdown : BOOLEAN,
     style : {"None", "Any", "Errors"}]
    \cup [type : {"Interact", "SaveYourselfPhase2", "SaveComplete",
                  "ShutdownCancelled", "Die"}]

FromClient ==
    [type : {"SaveYourselfDone", "Phase2Request", "InteractRequest",
             "InteractDone", "RequestSave", "Close"}]
    \cup [type : {"SetProperties"}, props : Seq(Property)]

\* The types of the variables.
SessionType ==
    /\ priv \in [Clients -> Private]
    /\ connection \subseteq Clients /\ link \subseteq Clients
    /\ properties \in [Clients -> Seq(Property)]
    /\ toClient \in [Clients -> Seq(FromManager)]
    /\ toSM \in [Clients -> Seq(FromClient)]
    /\ dialogs \in [Clients -> SUBSET {"current", "stale"}]
    /\ told \in [Clients -> BOOLEAN]
    /\ session \in Sessions
    /\ phase \in {"running", "saving", "phase2", "cancelled", "dying"}
    /\ shutdown \in BOOLEAN /\ saved \in Nat
    /\ owed \in [Clients -> Nat]
    /\ phase2Wanted \subseteq Clients /\ interactWanted \subseteq Clients
    /\ interactor \subseteq Clients

\* Two members of priv.
State(c) == priv[c].state
Granted(c) == priv[c].interaction_granted

\* A client that the manager and its GsmClient both take for connected.
Members == connection \cap link

\* What a client knows of itself agrees with its connection.
Sane(c) ==
    /\ c \in connection <=> State(c) # "DISCONNECTED"
    /\ Granted(c) => State(c) \in Interacting
    /\ c \notin link =>
          /\ c \notin phase2Wanted \cup interactWanted \cup interactor
          /\ owed[c] = 0

\* The answers a client will still give, or has.
Answers(c) ==
    Pending(toSM[c], "SaveYourselfDone")
    + (IF c \in connection
       THEN Pending(toClient[c], "SaveYourself")
            + (IF State(c) = "IDLE" THEN 0 ELSE 1)
       ELSE 0)

\* Each of them is owed.
Owing(c) ==
    /\ c \in link => Answers(c) <= owed[c]
    /\ ~session.overlap =>
          /\ owed[c] <= 1
          /\ c \in Members /\ phase # "dying" => Answers(c) = owed[c]

\* What a client has asked for is behind it once it is idle again.
Settled(c) ==
    c \in link /\ phase # "dying" =>
       /\ \/ State(c) \in {"PHASE2_REQUESTED", "INTERACT_REQUESTED_PHASE2"}
          \/ /\ Followed(toSM[c], "Phase2Request", "SaveYourselfDone")
             /\ c \in phase2Wanted => Has(toSM[c], "SaveYourselfDone")
       /\ \/ State(c) \in Interacting
          \/ Followed(toSM[c], "InteractRequest", "SaveYourselfDone")
       /\ Followed(toSM[c], "InteractDone", "SaveYourselfDone")

\* Nobody has been asked for phase 2 yet; no shutdown is called off, and
\* nobody dies.
Calm == {"running", "saving"}
Live == {"running", "saving", "phase2"}

\* What was sent in an earlier save finds the client idle, before the next
\* SaveYourself.
LeftOver(c, t) ==
    /\ Has(toClient[c], t) => State(c) = "IDLE"
    /\ ~After(toClient[c], "SaveYourself", t)

\* No SaveYourself comes behind what could make the client idle.
Orderly(q) ==
    /\ ~After(q, "SaveYourselfPhase2", "SaveYourself")
    /\ ~After(q, "ShutdownCancelled", "SaveYourself")
    /\ ~After(q, "Die", "SaveYourself")

\* What the manager has sent reaches the client in a state it was meant for,
\* or is left over.
Delivered(c) ==
    c \in Members =>
       /\ phase \in Live => LeftOver(c, "ShutdownCancelled")
       /\ phase \in Calm => LeftOver(c, "SaveYourselfPhase2")
       /\ phase \in Live /\ c \notin interactor => LeftOver(c, "Interact")
       /\ After(toClient[c], "SaveYourself", "SaveYourselfPhase2") =>
             State(c) = "PHASE2_REQUESTED" /\ Orderly(toClient[c])
       /\ Has(toClient[c], "Die") => phase = "dying"
       /\ phase \in Calm => State(c) # "INTERACT_REQUESTED_PHASE2"

\* Phase 2 is wanted by clients that wait for it.
Wanting(c) ==
    c \in link /\ phase \in Calm =>
       (c \in phase2Wanted \/ Has(toSM[c], "Phase2Request") =>
           State(c) = "PHASE2_REQUESTED")

\* A client with a grant on its way.
AwaitsGrant(c) ==
    /\ State(c) \in Interacting /\ ~Granted(c)
    /\ ~Has(toSM[c], "InteractRequest") /\ ~Has(toSM[c], "InteractDone")

\* An interaction is asked for, granted, and done, in this order.
Granting(c) ==
    c \in link /\ phase \in Live =>
       /\ Has(toSM[c], "InteractRequest") =>
             /\ State(c) \in Interacting /\ ~Granted(c)
             /\ Once(toSM[c], "InteractRequest")
             /\ c \notin interactWanted
             /\ ~Has(toClient[c], "Interact")
             /\ c \in interactor => Has(toSM[c], "InteractDone")
       /\ c \in interactWanted =>
             AwaitsGrant(c) /\ c \notin interactor
             /\ ~Has(toClient[c], "Interact")
       /\ c \in interactor =>
             \/ /\ AwaitsGrant(c)
                /\ Has(toClient[c], "Interact")
                /\ Once(toClient[c], "Interact")
             \/ /\ Granted(c)
                /\ ~Has(toSM[c], "InteractRequest")
                /\ ~Has(toSM[c], "InteractDone")
                /\ ~Has(toClient[c], "Interact")
             \/ /\ Has(toSM[c], "InteractDone")
                /\ Once(toSM[c], "InteractDone")
                /\ ~After(toSM[c], "InteractRequest", "InteractDone")
                /\ ~Granted(c) /\ ~Has(toClient[c], "Interact")
       /\ Granted(c) \/ Has(toSM[c], "InteractDone") => c \in interactor

\* All of this.
ClientInv(c) ==
    /\ Sane(c) /\ Owing(c) /\ Settled(c)
    /\ Delivered(c) /\ Wanting(c) /\ Granting(c)

\* A client has begun phase 2, or will.
InPhase2(c) ==
    \/ State(c) = "INTERACT_REQUESTED_PHASE2"
    \/ State(c) = "PHASE2_REQUESTED" /\ Has(toClient[c], "SaveYourselfPhase2")

\* Then nobody is in phase 1, nor will be.
BeyondPhase1(d) ==
    /\ State(d) # "INTERACT_REQUESTED"
    /\ Has(toClient[d], "SaveYourself") =>
          State(d) = "PHASE2_REQUESTED" /\ Orderly(toClient[d])

\* No client is in phase 2 while another one is in phase 1.
Apart == \A c, d \in Members : InPhase2(c) => BeyondPhase1(d)

\* The inductive invariant.  Nothing is granted once a shutdown is called off.
SessionInv ==
    /\ SessionType
    /\ \A c \in Clients : ClientInv(c)
    /\ Apart
    /\ phase = "cancelled" => interactWanted = {} /\ interactor = {}

-----------------------------------------------------------------------------
(* Queues that grow at their end and shrink at their head.                 *)

\* The positions of a queue with one more message.
LEMMA Longer ==
    ASSUME NEW S, NEW q \in Seq(S), NEW m \in S
    PROVE  /\ Append(q, m) \in Seq(S)
           /\ Len(q) \in Nat
           /\ DOMAIN q = 1..Len(q)
           /\ DOMAIN Append(q, m) = 1..(Len(q) + 1)
           /\ Append(q, m)[Len(q) + 1] = m
           /\ \A i \in DOMAIN q : Append(q, m)[i] = q[i]
OBVIOUS

\* The positions of a queue without its head.
LEMMA Shorter ==
    ASSUME NEW S, NEW q \in Seq(S), q # <<>>
    PROVE  /\ Tail(q) \in Seq(S) /\ Head(q) \in S
           /\ Len(q) \in Nat /\ Len(q) >= 1
           /\ DOMAIN q = 1..Len(q)
           /\ DOMAIN Tail(q) = 1..(Len(q) - 1)
           /\ q[1] = Head(q)
           /\ \A i \in DOMAIN Tail(q) : Tail(q)[i] = q[i + 1]
OBVIOUS

\* What a sent message adds.
LEMMA HasAppend ==
    ASSUME NEW S, NEW q \in Seq(S), NEW m \in S, NEW t
    PROVE  Has(Append(q, m), t) <=> Has(q, t) \/ m.type = t
BY Longer DEF Has

\* At most one stays at most one unless another one is sent.
LEMMA OnceAppend ==
    ASSUME NEW S, NEW q \in Seq(S), NEW m \in S, NEW t
    PROVE  Once(q, t) /\ ~(m.type = t /\ Has(q, t)) => Once(Append(q, m), t)
BY Longer DEF Has, Once

\* What is sent comes after all there is.
LEMMA AfterAppend ==
    ASSUME NEW S, NEW q \in Seq(S), NEW m \in S, NEW s, NEW t
    PROVE  After(Append(q, m), s, t) <=>
              After(q, s, t) \/ (Has(q, s) /\ m.type = t)
<1>1. ASSUME After(Append(q, m), s, t)
      PROVE  After(q, s, t) \/ (Has(q, s) /\ m.type = t)
  BY <1>1, Longer DEF Has, After
<1>2. ASSUME After(q, s, t) PROVE After(Append(q, m), s, t)
  BY <1>2, Longer DEF After
<1>3. ASSUME Has(q, s), m.type = t PROVE After(Append(q, m), s, t)
  BY <1>3, Longer DEF Has, After
<1>4. QED BY <1>1, <1>2, <1>3

\* What is sent follows all there is.
LEMMA FollowedAppend ==
    ASSUME NEW S, NEW q \in Seq(S), NEW m \in S, NEW s, NEW t,
           m.type # s, Followed(q, s, t) \/ m.type = t
    PROVE  Followed(Append(q, m), s, t)
<1>1. CASE m.type = t
  BY <1>1, Longer DEF Followed
<1>2. CASE Followed(q, s, t)
  BY <1>2, Longer DEF Followed
<1>3. QED BY <1>1, <1>2

\* What the receipt of the head takes away.
LEMMA HasTail ==
    ASSUME NEW S, NEW q \in Seq(S), q # <<>>, NEW t
    PROVE  Has(q, t) <=> Head(q).type = t \/ Has(Tail(q), t)
<1>1. ASSUME Has(q, t) PROVE Head(q).type = t \/ Has(Tail(q), t)
  <2>1. PICK i \in DOMAIN q : q[i].type = t
    BY <1>1 DEF Has
  <2>2. CASE i = 1
    BY <2>1, <2>2, Shorter
  <2>3. CASE i # 1
    <3>1. i - 1 \in DOMAIN Tail(q) /\ Tail(q)[i - 1] = q[i]
      BY <2>3, Shorter
    <3>2. QED BY <3>1, <2>1 DEF Has
  <2>4. QED BY <2>2, <2>3
<1>2. ASSUME Head(q).type = t PROVE Has(q, t)
  BY <1>2, Shorter DEF Has
<1>3. ASSUME Has(Tail(q), t) PROVE Has(q, t)
  <2>1. PICK i \in DOMAIN Tail(q) : Tail(q)[i].type = t
    BY <1>3 DEF Has
  <2>2. i + 1 \in DOMAIN q /\ q[i + 1].type = t
    BY <2>1, Shorter
  <2>3. QED BY <2>2 DEF Has
<1>4. QED BY <1>1, <1>2, <1>3

\* The one that is received was the only one.
LEMMA OnceTail ==
    ASSUME NEW S, NEW q \in Seq(S), q # <<>>, NEW t, Once(q, t)
    PROVE  Once(Tail(q), t) /\ ~(Head(q).type = t /\ Has(Tail(q), t))
<1>1. Once(Tail(q), t)
  <2>1. SUFFICES ASSUME NEW i \in DOMAIN Tail(q), NEW j \in DOMAIN Tail(q),
                        Tail(q)[i].type = t, Tail(q)[j].type = t
                 PROVE  i = j
    BY DEF Once
  <2>2. /\ i + 1 \in DOMAIN q /\ q[i + 1].type = t
        /\ j + 1 \in DOMAIN q /\ q[j + 1].type = t
    BY <2>1, Shorter
  <2>3. i + 1 = j + 1
    BY <2>2 DEF Once
  <2>4. QED BY <2>3, Shorter
<1>2. ASSUME Head(q).type = t, Has(Tail(q), t) PROVE FALSE
  <2>1. PICK i \in DOMAIN Tail(q) : Tail(q)[i].type = t
    BY <1>2 DEF Has
  <2>2. /\ i + 1 \in DOMAIN q /\ q[i + 1].type = t /\ i + 1 # 1
        /\ 1 \in DOMAIN q /\ q[1].type = t
    BY <2>1, <1>2, Shorter
  <2>3. QED BY <2>2 DEF Once
<1>3. QED BY <1>1, <1>2

\* What is received comes before all that is left.
LEMMA AfterTail ==
    ASSUME NEW S, NEW q \in Seq(S), q # <<>>, NEW s, NEW t
    PROVE  After(q, s, t) <=>
              After(Tail(q), s, t) \/ (Head(q).type = s /\ Has(Tail(q), t))
<1>1. ASSUME After(q, s, t)
      PROVE  After(Tail(q), s, t) \/ (Head(q).type = s /\ Has(Tail(q), t))
  <2>1. PICK i \in DOMAIN q, j \in DOMAIN q :
               i < j /\ q[i].type = s /\ q[j].type = t
    BY <1>1 DEF After
  <2>2. j - 1 \in DOMAIN Tail(q) /\ Tail(q)[j - 1].type = t
    BY <2>1, Shorter
  <2>3. CASE i = 1
    BY <2>1, <2>2, <2>3, Shorter DEF Has
  <2>4. CASE i # 1
    <3>1. i - 1 \in DOMAIN Tail(q) /\ Tail(q)[i - 1].type = s /\ i - 1 < j - 1
      BY <2>1, <2>4, Shorter
    <3>2. QED BY <3>1, <2>2 DEF After
  <2>5. QED BY <2>3, <2>4
<1>2. ASSUME After(Tail(q), s, t) PROVE After(q, s, t)
  <2>1. PICK i \in DOMAIN Tail(q), j \in DOMAIN Tail(q) :
               i < j /\ Tail(q)[i].type = s /\ Tail(q)[j].type = t
    BY <1>2 DEF After
  <2>2. /\ i + 1 \in DOMAIN q /\ q[i + 1].type = s
        /\ j + 1 \in DOMAIN q /\ q[j + 1].type = t
        /\ i + 1 < j + 1
    BY <2>1, Shorter
  <2>3. QED BY <2>2 DEF After
<1>3. ASSUME Head(q).type = s, Has(Tail(q), t) PROVE After(q, s, t)
  <2>1. PICK j \in DOMAIN Tail(q) : Tail(q)[j].type = t
    BY <1>3 DEF Has
  <2>2. /\ 1 \in DOMAIN q /\ q[1].type = s
        /\ j + 1 \in DOMAIN q /\ q[j + 1].type = t
        /\ 1 < j + 1
    BY <2>1, <1>3, Shorter
  <2>3. QED BY <2>2 DEF After
<1>4. QED BY <1>1, <1>2, <1>3

\* What follows the received one is still there.
LEMMA FollowedTail ==
    ASSUME NEW S, NEW q \in Seq(S), q # <<>>, NEW s, NEW t, Followed(q, s, t)
    PROVE  /\ Followed(Tail(q), s, t)
           /\ Head(q).type = s => Has(Tail(q), t)
<1>1. Followed(Tail(q), s, t)
  <2>1. SUFFICES ASSUME NEW i \in DOMAIN Tail(q), Tail(q)[i].type = s
                 PROVE  \E j \in DOMAIN Tail(q) : i < j /\ Tail(q)[j].type = t
    BY DEF Followed
  <2>2. i + 1 \in DOMAIN q /\ q[i + 1].type = s
    BY <2>1, Shorter
  <2>3. PICK j \in DOMAIN q : i + 1 < j /\ q[j].type = t
    BY <2>2 DEF Followed
  <2>4. j - 1 \in DOMAIN Tail(q) /\ i < j - 1 /\ Tail(q)[j - 1] = q[j]
    BY <2>3, <2>2, Shorter
  <2>5. QED BY <2>3, <2>4
<1>2. ASSUME Head(q).type = s PROVE Has(Tail(q), t)
  <2>1. 1 \in DOMAIN q /\ q[1].type = s
    BY <1>2, Shorter
  <2>2. PICK j \in DOMAIN q : 1 < j /\ q[j].type = t
    BY <2>1 DEF Followed
  <2>3. j - 1 \in DOMAIN Tail(q) /\ Tail(q)[j - 1] = q[j]
    BY <2>2, Shorter
  <2>4. QED BY <2>2, <2>3 DEF Has
<1>3. QED BY <1>1, <1>2

\* A queue is followed through as soon as its first type has gone.
LEMMA FollowedHas ==
    ASSUME NEW q, NEW s, NEW t, Followed(q, s, t), ~Has(q, t)
    PROVE  ~Has(q, s)
BY DEF Followed, Has

\* An order needs both.
LEMMA AfterHas ==
    ASSUME NEW q, NEW s, NEW t, After(q, s, t)
    PROVE  Has(q, s) /\ Has(q, t)
BY DEF After, Has

\* None is at most one.
LEMMA NoneOnce ==
    ASSUME NEW q, NEW t, ~Has(q, t)
    PROVE  Once(q, t)
BY DEF Has, Once

-----------------------------------------------------------------------------
(* Counting what is in a queue.                                            *)

\* There is a number of messages of a type.
LEMMA PendingType ==
    ASSUME NEW S, NEW q \in Seq(S), NEW t
    PROVE  /\ IsFiniteSet({i \in DOMAIN q : q[i].type = t})
           /\ Pending(q, t) \in Nat
           /\ Pending(q, t) > 0 <=> Has(q, t)
<1> DEFINE I == {i \in DOMAIN q : q[i].type = t}
<1>1. DOMAIN q = 1..Len(q) /\ Len(q) \in Nat
  OBVIOUS
<1>2. IsFiniteSet(I)
  <2>1. IsFiniteSet(1..Len(q))
    BY <1>1, FS_Interval
  <2>2. I \subseteq 1..Len(q)
    BY <1>1
  <2>3. QED BY <2>1, <2>2, FS_Subset
<1>3. Cardinality(I) \in Nat
  BY <1>2, FS_CardinalityType
<1>4. Cardinality(I) = 0 <=> I = {}
  BY <1>2, FS_EmptySet
<1>5. I # {} <=> Has(q, t)
  BY DEF Has
<1>6. Pending(q, t) = Cardinality(I)
  BY DEF Pending
<1>7. QED BY <1>2, <1>3, <1>4, <1>5, <1>6

\* It grows with what is sent.
LEMMA PendingAppend ==
    ASSUME NEW S, NEW q \in Seq(S), NEW m \in S, NEW t
    PROVE  Pending(Append(q, m), t)
              = Pending(q, t) + (IF m.type = t THEN 1 ELSE 0)
<1> DEFINE I == {i \in DOMAIN q : q[i].type = t}
           J == {i \in DOMAIN Append(q, m) : Append(q, m)[i].type = t}
<1>1. /\ Pending(q, t) = Cardinality(I)
      /\ Pending(Append(q, m), t) = Cardinality(J)
  BY DEF Pending
<1>2. IsFiniteSet(I) /\ Cardinality(I) \in Nat
  BY <1>1, PendingType
<1>3. ASSUME m.type = t PROVE Pending(Append(q, m), t) = Pending(q, t) + 1
  <2>1. J = I \cup {Len(q) + 1} /\ Len(q) + 1 \notin I
    BY <1>3, Longer
  <2>2. Cardinality(J) = Cardinality(I) + 1
    BY <2>1, <1>2, FS_AddElement
  <2>3. QED BY <2>2, <1>1
<1>4. ASSUME m.type # t PROVE Pending(Append(q, m), t) = Pending(q, t)
  <2>1. J = I
    BY <1>4, Longer
  <2>2. QED BY <2>1, <1>1
<1>5. Pending(q, t) \in Nat
  BY PendingType
<1>6. QED BY <1>3, <1>4, <1>5

\* It shrinks with what is received.
LEMMA PendingTail ==
    ASSUME NEW S, NEW q \in Seq(S), q # <<>>, NEW t
    PROVE  Pending(q, t)
              = Pending(Tail(q), t) + (IF Head(q).type = t THEN 1 ELSE 0)
<1> DEFINE I == {i \in DOMAIN q : q[i].type = t}
           J == {i \in DOMAIN Tail(q) : Tail(q)[i].type = t}
           K == I \ {1}
           f == [j \in J |-> j + 1]
<1>1. Pending(q, t) = Cardinality(I) /\ Pending(Tail(q), t) = Cardinality(J)
  BY DEF Pending
<1>2. Tail(q) \in Seq(S)
  BY Shorter
<1>3. /\ IsFiniteSet(I) /\ Cardinality(I) \in Nat
      /\ IsFiniteSet(J) /\ Cardinality(J) \in Nat
  BY <1>1, <1>2, PendingType
<1>4. f \in Bijection(J, K)
  <2>1. \A j \in J : j + 1 \in K
    BY Shorter
  <2>2. \A k \in K : k - 1 \in J /\ k = (k - 1) + 1
    BY Shorter
  <2>3. f \in [J -> K]
    BY <2>1
  <2>4. \A a, b \in J : f[a] = f[b] => a = b
    BY Shorter
  <2>5. \A k \in K : \E j \in J : f[j] = k
    BY <2>2
  <2>6. QED BY <2>3, <2>4, <2>5
            DEF Bijection, Injection, Surjection, IsInjective
<1>5. Cardinality(K) = Cardinality(J)
  <2>1. ExistsBijection(J, K)
    BY <1>4 DEF ExistsBijection
  <2>2. QED BY <1>3, <2>1, FS_Bijection
<1>6. CASE Head(q).type = t
  <2>1. 1 \in I
    BY <1>6, Shorter
  <2>2. Cardinality(K) = Cardinality(I) - 1
    BY <2>1, <1>3, FS_RemoveElement
  <2>3. HIDE DEF I, J, K
  <2>4. QED BY <2>2, <1>1, <1>3, <1>5, <1>6
<1>7. CASE Head(q).type # t
  <2>1. K = I
    BY <1>7, Shorter
  <2>2. Cardinality(K) = Cardinality(I)
    BY <2>1
  <2>3. HIDE DEF I, J, K
  <2>4. QED BY <2>2, <1>1, <1>3, <1>5, <1>7
<1>8. QED BY <1>6, <1>7

-----------------------------------------------------------------------------
(* Types.                                                                  *)

\* replace_one_prop() keeps a list of properties one.
LEMMA ReplaceType ==
    ASSUME NEW list \in Seq(Property), NEW prop \in Property
    PROVE  Replace(list, prop) \in Seq(Property)
<1> DEFINE place == FindLink(list, prop.name)
<1>1. <<prop>> \o list \in Seq(Property)
  OBVIOUS
<1>2. [list EXCEPT ![place] = prop] \in Seq(Property)
  <2>1. list \in [1..Len(list) -> Property] /\ Len(list) \in Nat
    OBVIOUS
  <2> HIDE DEF place
  <2>2. [list EXCEPT ![place] = prop] \in [1..Len(list) -> Property]
    BY <2>1
  <2>3. QED BY <2>1, <2>2
<1>3. QED BY <1>1, <1>2 DEF Replace

\* So does a handler that sets some, and sends what it has set.
LEMMA ReplacedType ==
    ASSUME SessionType, NEW c \in Clients, NEW set \in Handlings
    PROVE  /\ Replaced(c, set) \in Seq(Property)
           /\ set = <<>> \/ SetProperties(set) \in FromClient
           /\ set = <<>> \/ SetMessages(set) = <<SetProperties(set)>>
           /\ set = <<>> => SetMessages(set) = <<>>
<1>1. CASE set = <<>>
  BY <1>1 DEF Replaced, SetMessages, SessionType
<1>2. CASE set # <<>>
  <2>1. PICK prop \in Settings : set = <<prop>>
    BY <1>2 DEF Handlings
  <2>2. prop \in Property /\ set[1] = prop /\ set \in Seq(Property)
    BY <2>1, PropertiesAssumption
  <2>3. properties[c] \in Seq(Property)
    BY DEF SessionType
  <2>4. Replaced(c, set) \in Seq(Property)
    BY <1>2, <2>2, <2>3, ReplaceType DEF Replaced
  <2>5. SetProperties(set) \in FromClient
    BY <2>2 DEF SetProperties, FromClient
  <2>6. QED BY <1>2, <2>4, <2>5 DEF SetMessages
<1>3. QED BY <1>1, <1>2

\* Concatenations of short sequences.
LEMMA PairFacts ==
    ASSUME NEW S, NEW a \in S, NEW b \in S
    PROVE  <<>> \o <<b>> = <<b>> /\ <<a>> \o <<b>> = <<a, b>>
<1>1. \A q \in Seq(S) : q \o <<b>> = Append(q, b)
  OBVIOUS
<1>2. <<>> \in Seq(S) /\ <<a>> \in Seq(S)
  OBVIOUS
<1>3. Append(<<>>, b) = <<b>>
  OBVIOUS
<1>4. Append(<<a>>, b) = <<a, b>>
  <2>1. <<>> \o <<a, b>> = Append(Append(<<>>, a), b)
    OBVIOUS
  <2>2. <<>> \o <<a, b>> = <<a, b>>
    OBVIOUS
  <2>3. Append(<<>>, a) = <<a>>
    OBVIOUS
  <2>4. QED BY <2>1, <2>2, <2>3
<1>5. QED BY <1>1, <1>2, <1>3, <1>4

\* One message sent.
LEMMA SendOne ==
    ASSUME SessionType, NEW c \in Clients, NEW m \in FromClient,
           Send(c, <<m>>)
    PROVE  /\ toSM' = [toSM EXCEPT ![c] = Append(toSM[c], m)]
           /\ toSM' \in [Clients -> Seq(FromClient)]
<1>1. toSM[c] \in Seq(FromClient)
  BY DEF SessionType
<1>2. toSM[c] \o <<m>> = Append(toSM[c], m)
  BY <1>1
<1>3. Append(toSM[c], m) \in Seq(FromClient)
  BY <1>1
<1>4. QED BY <1>2, <1>3 DEF Send, SessionType

\* Sending two messages.
LEMMA SendTwo ==
    ASSUME SessionType, NEW c \in Clients,
           NEW m \in FromClient, NEW n \in FromClient, Send(c, <<m, n>>)
    PROVE  /\ toSM' = [toSM EXCEPT ![c] = Append(Append(toSM[c], m), n)]
           /\ toSM' \in [Clients -> Seq(FromClient)]
<1>1. toSM[c] \in Seq(FromClient)
  BY DEF SessionType
<1>2. toSM[c] \o <<m, n>> = Append(Append(toSM[c], m), n)
  BY <1>1
<1>3. Append(Append(toSM[c], m), n) \in Seq(FromClient)
  BY <1>1
<1>4. QED BY <1>2, <1>3 DEF Send, SessionType

\* m was sent, perhaps behind a property.
Adds(q, r, m) ==
    \/ r = Append(q, m)
    \/ \E p \in FromClient : p.type = "SetProperties"
                            /\ r = Append(Append(q, p), m)

\* The messages of a save.
LEMMA SaveMessageType ==
    ASSUME NEW p, NEW choice
    PROVE  /\ SaveMessage(p, choice) \in FromClient
           /\ SaveMessage(p, choice).type # "SetProperties"
<1>1. \A t \in {"InteractRequest", "Phase2Request", "SaveYourselfDone"} :
         /\ Message(t) \in FromClient
         /\ Message(t).type # "SetProperties"
  BY DEF Message, FromClient
<1>2. SaveMessage(p, choice) \in
         {Message("InteractRequest"), Message("Phase2Request"),
          Message("SaveYourselfDone")}
  BY DEF SaveMessage
<1>3. QED BY <1>1, <1>2

\* A save handler sends the properties it sets, then how the save goes on.
LEMMA HandlerSends ==
    ASSUME SessionType, NEW c \in Clients, NEW p,
           NEW choice \in HandlerChoices, NEW set \in Handlings,
           SaveHandler(c, p, choice, set)
    PROVE  /\ toSM' = [toSM EXCEPT ![c] = toSM'[c]]
           /\ toSM' \in [Clients -> Seq(FromClient)]
           /\ Adds(toSM[c], toSM'[c], SaveMessage(p, choice))
           /\ properties' \in [Clients -> Seq(Property)]
           /\ priv' = [priv EXCEPT ![c] = AfterSave(p, choice)]
<1> DEFINE m == SaveMessage(p, choice)
<1>1. m \in FromClient
  BY SaveMessageType
<1>2. priv' = [priv EXCEPT ![c] = AfterSave(p, choice)]
  BY DEF SaveHandler
<1>3. properties' \in [Clients -> Seq(Property)]
  BY ReplacedType DEF SaveHandler, SessionType
<1>4. CASE set = <<>>
  <2>1. SetMessages(set) \o <<m>> = <<m>>
    BY <1>1, <1>4, ReplacedType, PairFacts
  <2>2. Send(c, <<m>>)
    BY <2>1 DEF SaveHandler
  <2>3. /\ toSM' = [toSM EXCEPT ![c] = Append(toSM[c], m)]
        /\ toSM' \in [Clients -> Seq(FromClient)]
    BY <1>1, <2>2, SendOne
  <2>4. toSM'[c] = Append(toSM[c], m)
    BY <2>3 DEF SessionType
  <2>5. toSM' = [toSM EXCEPT ![c] = toSM'[c]]
    BY <2>3, <2>4
  <2>6. QED BY <1>2, <1>3, <2>3, <2>4, <2>5 DEF Adds
<1>5. CASE set # <<>>
  <2>1. SetProperties(set) \in FromClient
    BY <1>5, ReplacedType
  <2>2. SetMessages(set) \o <<m>> = <<SetProperties(set), m>>
    <3>1. SetMessages(set) = <<SetProperties(set)>>
      BY <1>5, ReplacedType
    <3>2. <<SetProperties(set)>> \o <<m>> = <<SetProperties(set), m>>
      BY <1>1, <2>1, PairFacts
    <3>3. QED BY <3>1, <3>2
  <2>3. Send(c, <<SetProperties(set), m>>)
    BY <2>2 DEF SaveHandler
  <2>4. SetProperties(set).type = "SetProperties"
    BY DEF SetProperties
  <2>5. toSM' = [toSM EXCEPT
                   ![c] = Append(Append(toSM[c], SetProperties(set)), m)]
    BY <1>1, <2>1, <2>3, SendTwo
  <2>6. toSM' \in [Clients -> Seq(FromClient)]
    BY <1>1, <2>1, <2>3, SendTwo
  <2>7. toSM'[c] = Append(Append(toSM[c], SetProperties(set)), m)
    BY <2>5 DEF SessionType
  <2>8. Adds(toSM[c], toSM'[c], m)
    BY <2>1, <2>4, <2>7 DEF Adds
  <2>9. toSM' = [toSM EXCEPT ![c] = toSM'[c]]
    BY <2>5, <2>7
  <2>10. QED BY <2>6, <2>8, <2>9, <1>2, <1>3
<1>6. QED BY <1>4, <1>5

\* What a message of type h does to the order of the others.
Sent(q, r, h) ==
    /\ \A t : t # "SetProperties" =>
          /\ Has(r, t) <=> Has(q, t) \/ h = t
          /\ Once(q, t) /\ ~(h = t /\ Has(q, t)) => Once(r, t)
          /\ Pending(r, t) = Pending(q, t) + (IF h = t THEN 1 ELSE 0)
    /\ \A s, t : s # "SetProperties" /\ t # "SetProperties" =>
          /\ After(r, s, t) <=> After(q, s, t) \/ (Has(q, s) /\ h = t)
          /\ h # s /\ (Followed(q, s, t) \/ h = t) => Followed(r, s, t)

\* Properties in front of a message do not count.
LEMMA AddsFacts ==
    ASSUME NEW q \in Seq(FromClient), NEW r, NEW m \in FromClient,
           Adds(q, r, m)
    PROVE  Sent(q, r, m.type)
<1>1. CASE r = Append(q, m)
  BY <1>1, HasAppend, OnceAppend, PendingAppend, AfterAppend, FollowedAppend
  DEF Sent
<1>2. CASE r # Append(q, m)
  <2>1. PICK p \in FromClient : /\ p.type = "SetProperties"
                                /\ r = Append(Append(q, p), m)
    BY <1>2 DEF Adds
  <2> DEFINE u == Append(q, p)
  <2>2. u \in Seq(FromClient)
    OBVIOUS
  <2>3. r = Append(u, m)
    BY <2>1
  <2>4. ASSUME NEW t, t # "SetProperties"
        PROVE  /\ Has(u, t) <=> Has(q, t)
               /\ Once(q, t) => Once(u, t)
               /\ Pending(u, t) = Pending(q, t)
    <3>1. Pending(u, t) = Pending(q, t) + (IF p.type = t THEN 1 ELSE 0)
      BY PendingAppend
    <3>2. Pending(q, t) \in Nat /\ p.type # t
      BY <2>1, <2>4, PendingType
    <3>3. QED BY <3>1, <3>2, HasAppend, OnceAppend
  <2>5. ASSUME NEW s, NEW t, s # "SetProperties", t # "SetProperties"
        PROVE  /\ After(u, s, t) <=> After(q, s, t)
               /\ Followed(q, s, t) => Followed(u, s, t)
    BY <2>1, <2>5, AfterAppend, FollowedAppend
  <2> HIDE DEF u
  <2>6. ASSUME NEW t, t # "SetProperties"
        PROVE  /\ Has(r, t) <=> Has(q, t) \/ m.type = t
               /\ Once(q, t) /\ ~(m.type = t /\ Has(q, t)) => Once(r, t)
               /\ Pending(r, t)
                     = Pending(q, t) + (IF m.type = t THEN 1 ELSE 0)
    <3>1. Pending(r, t) = Pending(u, t) + (IF m.type = t THEN 1 ELSE 0)
      BY <2>2, <2>3, PendingAppend
    <3>2. Has(r, t) <=> Has(u, t) \/ m.type = t
      BY <2>2, <2>3, HasAppend
    <3>3. Once(u, t) /\ ~(m.type = t /\ Has(u, t)) => Once(r, t)
      BY <2>2, <2>3, OnceAppend
    <3>4. QED BY <3>1, <3>2, <3>3, <2>4, <2>6
  <2>7. ASSUME NEW s, NEW t, s # "SetProperties", t # "SetProperties"
        PROVE  /\ After(r, s, t) <=>
                     After(q, s, t) \/ (Has(q, s) /\ m.type = t)
               /\ m.type # s /\ (Followed(q, s, t) \/ m.type = t) =>
                     Followed(r, s, t)
    <3>1. After(r, s, t) <=> After(u, s, t) \/ (Has(u, s) /\ m.type = t)
      BY <2>2, <2>3, AfterAppend
    <3>2. m.type # s /\ (Followed(u, s, t) \/ m.type = t) => Followed(r, s, t)
      BY <2>2, <2>3, FollowedAppend
    <3>3. QED BY <3>1, <3>2, <2>4, <2>5, <2>7
  <2>8. QED BY <2>6, <2>7 DEF Sent
<1>3. QED BY <1>1, <1>2

\* What is left of a save when its handler returns, and what it sends.
LEMMA AfterSaveIs ==
    ASSUME NEW p \in PrivateIn({"SAVING", "SAVING_PHASE2"}),
           NEW choice \in HandlerChoices, p.interaction_granted = FALSE
    PROVE  /\ AfterSave(p, choice) \in Private
           /\ AfterSave(p, choice).interaction_granted = FALSE
           /\ \/ /\ AfterSave(p, choice).state =
                       IF p.state = "SAVING" THEN "INTERACT_REQUESTED"
                       ELSE "INTERACT_REQUESTED_PHASE2"
                 /\ SaveMessage(p, choice).type = "InteractRequest"
              \/ /\ AfterSave(p, choice).state = "PHASE2_REQUESTED"
                 /\ p.state = "SAVING"
                 /\ SaveMessage(p, choice).type = "Phase2Request"
              \/ /\ AfterSave(p, choice).state = "IDLE"
                 /\ SaveMessage(p, choice).type = "SaveYourselfDone"
<1>1. CASE choice = "interacts"
  BY <1>1 DEF AfterSave, SaveMessage, Message, PrivateIn, Private, States,
              Interacting
<1>2. CASE choice = "phase2" /\ p.state = "SAVING"
  BY <1>2 DEF AfterSave, SaveMessage, Message, PrivateIn, Private, States
<1>3. CASE choice # "interacts" /\ ~(choice = "phase2" /\ p.state = "SAVING")
  <2>1. /\ AfterSave(p, choice) = EndSave(p)
        /\ SaveMessage(p, choice) = Message("SaveYourselfDone")
    BY <1>3 DEF AfterSave, SaveMessage
  <2>2. /\ EndSave(p) \in Private /\ EndSave(p).state = "IDLE"
        /\ EndSave(p).interaction_granted = FALSE
    BY DEF EndSave, PrivateIn, Private, States
  <2>3. QED BY <2>1, <2>2 DEF Message
<1>4. QED BY <1>1, <1>2, <1>3

\* The end of a save.
LEMMA EndSaveIs ==
    ASSUME NEW p \in Private, p.state # "DISCONNECTED"
    PROVE  /\ EndSave(p) \in Private
           /\ EndSave(p).state = "IDLE"
           /\ p.state \notin Interacting /\ ~p.interaction_granted =>
                 ~EndSave(p).interaction_granted
           /\ p.state # "IDLE" => ~EndSave(p).interaction_granted
           /\ p.state = "IDLE" => EndSave(p) = p
BY DEF EndSave, PrivateIn, Private, States, Interacting

\* The receipt of a message.
LEMMA GetsIs ==
    ASSUME SessionType, NEW c \in Clients, NEW t, Gets(c, t)
    PROVE  /\ c \in Members
           /\ toClient[c] \in Seq(FromManager) /\ toClient[c] # <<>>
           /\ NextMessage(c) \in FromManager /\ NextMessage(c).type = t
           /\ Head(toClient[c]).type = t
           /\ toClient'[c] = Tail(toClient[c])
           /\ toClient' \in [Clients -> Seq(FromManager)]
           /\ \A d \in Clients \ {c} : toClient'[d] = toClient[d]
<1>1. /\ toClient[c] \in Seq(FromManager) /\ toClient[c] # <<>>
      /\ toClient' = [toClient EXCEPT ![c] = Tail(toClient[c])]
  BY DEF Gets, SessionType
<1>2. /\ Tail(toClient[c]) \in Seq(FromManager)
      /\ Head(toClient[c]) \in FromManager
  BY <1>1, Shorter
<1>3. QED BY <1>1, <1>2 DEF Gets, NextMessage, SessionType, Members

\* No message sent.
LEMMA SendNone ==
    ASSUME SessionType, NEW c \in Clients, Send(c, <<>>)
    PROVE  toSM' = toSM
<1>1. toSM[c] \in Seq(FromClient)
  BY DEF SessionType
<1>2. toSM[c] \o <<>> = toSM[c]
  BY <1>1
<1>3. QED BY <1>2 DEF Send, SessionType

-----------------------------------------------------------------------------
(* What a step does to one client, and to no other.                        *)

\* Only c may differ.
Only(c) ==
    \A d \in Clients \ {c} :
       /\ priv'[d] = priv[d] /\ toClient'[d] = toClient[d]
       /\ toSM'[d] = toSM[d] /\ owed'[d] = owed[d]
       /\ d \in connection' <=> d \in connection
       /\ d \in link' <=> d \in link
       /\ d \in phase2Wanted' <=> d \in phase2Wanted
       /\ d \in interactWanted' <=> d \in interactWanted
       /\ d \in interactor' <=> d \in interactor

\* A client that nothing happens to.
LEMMA Untouched ==
    ASSUME NEW d \in Clients, ClientInv(d), UNCHANGED <<session, phase>>,
           priv'[d] = priv[d], toClient'[d] = toClient[d],
           toSM'[d] = toSM[d], owed'[d] = owed[d],
           d \in connection' <=> d \in connection,
           d \in link' <=> d \in link,
           d \in phase2Wanted' <=> d \in phase2Wanted,
           d \in interactWanted' <=> d \in interactWanted,
           d \in interactor' <=> d \in interactor
    PROVE  /\ ClientInv(d)'
           /\ d \in Members' <=> d \in Members
           /\ InPhase2(d)' <=> InPhase2(d)
           /\ BeyondPhase1(d)' <=> BeyondPhase1(d)
<1>1. d \in Members' <=> d \in Members
  BY DEF Members
<1>2. State(d)' = State(d) /\ Granted(d)' = Granted(d)
  BY DEF State, Granted
<1>3. Sane(d)'
  BY <1>2 DEF ClientInv, Sane
<1>4. Owing(d)'
  <2>1. Answers(d)' = Answers(d)
    BY <1>2 DEF Answers
  <2>2. QED BY <1>1, <2>1 DEF ClientInv, Owing
<1>5. Settled(d)'
  BY <1>2 DEF ClientInv, Settled
<1>6. Delivered(d)'
  BY <1>1, <1>2 DEF ClientInv, Delivered, LeftOver, Live, Calm
<1>7. Wanting(d)'
  BY <1>2 DEF ClientInv, Wanting, Calm
<1>8. Granting(d)'
  BY <1>2 DEF ClientInv, Granting, Live, AwaitsGrant
<1>9. QED
  BY <1>1, <1>2, <1>3, <1>4, <1>5, <1>6, <1>7, <1>8
  DEF ClientInv, InPhase2, BeyondPhase1

\* A step of one client, as far as the invariant asks.
LEMMA OneSteps ==
    ASSUME SessionInv, SessionType', UNCHANGED <<session, phase>>,
           NEW c \in Clients, Only(c), ClientInv(c)',
           c \in Members' =>
              /\ c \in Members
              /\ InPhase2(c)' => InPhase2(c)
              /\ BeyondPhase1(c) => BeyondPhase1(c)',
           phase = "cancelled" => interactWanted' = {} /\ interactor' = {}
    PROVE  SessionInv'
<1>1. \A d \in Clients \ {c} :
         /\ ClientInv(d)'
         /\ d \in Members' <=> d \in Members
         /\ InPhase2(d)' <=> InPhase2(d)
         /\ BeyondPhase1(d)' <=> BeyondPhase1(d)
  BY Untouched DEF Only, SessionInv
<1>2. Members' \subseteq Clients /\ Members \subseteq Clients
  BY DEF SessionInv, SessionType, Members
<1>3. Apart'
  BY <1>1, <1>2 DEF Apart, SessionInv
<1>4. QED BY <1>1, <1>3 DEF SessionInv

-----------------------------------------------------------------------------
(* The callbacks of a client.                                              *)

\* What the receipt of a message of type h leaves of q.
Received(q, r, h) ==
    /\ \A t : /\ Has(q, t) <=> h = t \/ Has(r, t)
              /\ Once(q, t) => Once(r, t) /\ ~(h = t /\ Has(r, t))
              /\ Pending(q, t) = Pending(r, t) + (IF h = t THEN 1 ELSE 0)
              /\ Pending(r, t) \in Nat
    /\ \A s, t :
          /\ After(q, s, t) <=> After(r, s, t) \/ (h = s /\ Has(r, t))
          /\ Followed(q, s, t) => Followed(r, s, t) /\ (h = s => Has(r, t))

\* What all these lemmas say of a received message.
LEMMA TailFacts ==
    ASSUME NEW S, NEW q \in Seq(S), q # <<>>, NEW r, r = Tail(q),
           NEW h, Head(q).type = h
    PROVE  Received(q, r, h)
<1>1. r \in Seq(S)
  BY Shorter
<1>2. QED
  BY <1>1, HasTail, OnceTail, PendingTail, PendingType, AfterTail, FollowedTail
  DEF Received

\* A step of a client that the manager does not see.
Quiet(c) ==
    /\ SessionType' /\ Only(c)
    /\ phase = "cancelled" => interactWanted' = {} /\ interactor' = {}
    /\ UNCHANGED <<session, phase, link, owed, phase2Wanted,
                   interactWanted, interactor>>

\* The variables keep their types if those of the clients do.
LEMMA ClientTypes ==
    ASSUME SessionInv, UNCHANGED managerVars, NEW c \in Clients,
           priv' \in [Clients -> Private], connection' \subseteq Clients,
           UNCHANGED link, properties' \in [Clients -> Seq(Property)],
           toClient' \in [Clients -> Seq(FromManager)],
           toSM' \in [Clients -> Seq(FromClient)],
           dialogs' \in [Clients -> SUBSET {"current", "stale"}],
           told' \in [Clients -> BOOLEAN],
           \A d \in Clients \ {c} :
              /\ priv'[d] = priv[d] /\ toClient'[d] = toClient[d]
              /\ toSM'[d] = toSM[d]
              /\ d \in connection' <=> d \in connection
    PROVE  Quiet(c)
BY DEF managerVars, SessionInv, SessionType, Only, Quiet

\* What the invariant knows of one client.
LEMMA OneClient ==
    ASSUME SessionInv, NEW c \in Clients
    PROVE  /\ SessionType
           /\ Sane(c) /\ Owing(c) /\ Settled(c)
           /\ Delivered(c) /\ Wanting(c) /\ Granting(c)
           /\ toClient[c] \in Seq(FromManager) /\ toSM[c] \in Seq(FromClient)
           /\ priv[c] \in Private /\ owed[c] \in Nat
BY DEF SessionInv, ClientInv, SessionType

\* A message of type h starts a save, or phase 2 of it, and at its end one of
\* type t is sent, for what is asked for or done.
SaveStep(c, h, t) ==
    /\ Gets(c, h)
    /\ State(c) = IF h = "SaveYourself" THEN "IDLE" ELSE "PHASE2_REQUESTED"
    /\ Sent(toSM[c], toSM'[c], t)
    /\ ~Granted(c)'
    /\ \/ /\ State(c)' = IF h = "SaveYourself" THEN "INTERACT_REQUESTED"
                         ELSE "INTERACT_REQUESTED_PHASE2"
          /\ t = "InteractRequest"
       \/ /\ State(c)' = "PHASE2_REQUESTED" /\ h = "SaveYourself"
          /\ t = "Phase2Request"
       \/ State(c)' = "IDLE" /\ t = "SaveYourselfDone"
    /\ Quiet(c) /\ UNCHANGED connection

\* A save that begins, or goes on in phase 2, with what its handler makes of it.
LEMMA HandlerIs ==
    ASSUME SessionInv, NEW c \in Clients, NEW choice \in HandlerChoices,
           NEW set \in Handlings, UNCHANGED managerVars,
           \/ SaveYourself(c, choice, set)
           \/ SavePhase2(c, choice, set)
    PROVE  \E h \in {"SaveYourself", "SaveYourselfPhase2"},
              t \in {"InteractRequest", "Phase2Request", "SaveYourselfDone"} :
              SaveStep(c, h, t)
<1>1. SessionType /\ Sane(c) /\ priv[c] \in Private
  BY OneClient
<1>2. PICK h \in {"SaveYourself", "SaveYourselfPhase2"},
           p \in PrivateIn({"SAVING", "SAVING_PHASE2"}) :
         /\ Gets(c, h)
         /\ State(c) = IF h = "SaveYourself" THEN "IDLE"
                       ELSE "PHASE2_REQUESTED"
         /\ p.state = "SAVING" <=> h = "SaveYourself"
         /\ p.interaction_granted = FALSE
         /\ SaveHandler(c, p, choice, set)
  <2>1. CASE SaveYourself(c, choice, set)
    <3> DEFINE n == NextMessage(c)
               p == [priv[c] EXCEPT !.state = "SAVING",
                                    !.in_shutdown = n.shutdown,
                                    !.errors_only = n.style # "Any"]
    <3>1. Gets(c, "SaveYourself") /\ State(c) = "IDLE"
      BY <2>1 DEF SaveYourself, State
    <3>2. n \in FromManager /\ n.type = "SaveYourself"
      BY <1>1, <3>1, GetsIs
    <3>3. n.shutdown \in BOOLEAN
      BY <3>2 DEF FromManager
    <3>4. priv[c].interaction_granted = FALSE
      BY <1>1, <3>1 DEF Sane, Granted, Interacting, Private, PrivateIn
    <3>5. p \in PrivateIn({"SAVING", "SAVING_PHASE2"})
      BY <1>1, <3>3 DEF Private, PrivateIn
    <3>6. p.state = "SAVING" /\ p.interaction_granted = FALSE
      BY <1>1, <3>4 DEF Private, PrivateIn
    <3>7. SaveHandler(c, p, choice, set)
      BY <2>1 DEF SaveYourself
    <3>8. QED BY <3>1, <3>5, <3>6, <3>7
  <2>2. CASE SavePhase2(c, choice, set)
    <3> DEFINE p == [priv[c] EXCEPT !.state = "SAVING_PHASE2"]
    <3>1. Gets(c, "SaveYourselfPhase2") /\ State(c) = "PHASE2_REQUESTED"
      BY <2>2 DEF SavePhase2, State
    <3>4. priv[c].interaction_granted = FALSE
      BY <1>1, <3>1 DEF Sane, Granted, Interacting, Private, PrivateIn
    <3>5. p \in PrivateIn({"SAVING", "SAVING_PHASE2"})
      BY <1>1 DEF Private, PrivateIn
    <3>6. p.state = "SAVING_PHASE2" /\ p.interaction_granted = FALSE
      BY <1>1, <3>4 DEF Private, PrivateIn
    <3>7. SaveHandler(c, p, choice, set)
      BY <2>2 DEF SavePhase2
    <3>8. QED BY <3>1, <3>5, <3>6, <3>7
  <2>3. QED BY <2>1, <2>2
<1> DEFINE m == SaveMessage(p, choice)
<1>3. /\ toSM' = [toSM EXCEPT ![c] = toSM'[c]]
      /\ toSM' \in [Clients -> Seq(FromClient)]
      /\ Adds(toSM[c], toSM'[c], m)
      /\ properties' \in [Clients -> Seq(Property)]
      /\ priv' = [priv EXCEPT ![c] = AfterSave(p, choice)]
  BY <1>1, <1>2, HandlerSends
<1>4. m \in FromClient /\ m.type # "SetProperties"
  BY SaveMessageType
<1>5. /\ AfterSave(p, choice) \in Private
      /\ AfterSave(p, choice).interaction_granted = FALSE
      /\ \/ /\ AfterSave(p, choice).state =
                  IF p.state = "SAVING" THEN "INTERACT_REQUESTED"
                  ELSE "INTERACT_REQUESTED_PHASE2"
            /\ m.type = "InteractRequest"
         \/ /\ AfterSave(p, choice).state = "PHASE2_REQUESTED"
            /\ p.state = "SAVING"
            /\ m.type = "Phase2Request"
         \/ /\ AfterSave(p, choice).state = "IDLE"
            /\ m.type = "SaveYourselfDone"
  BY <1>2, AfterSaveIs
<1> HIDE DEF m
<1>6. /\ priv' \in [Clients -> Private] /\ priv'[c] = AfterSave(p, choice)
      /\ \A d \in Clients \ {c} : priv'[d] = priv[d] /\ toSM'[d] = toSM[d]
  BY <1>1, <1>3, <1>5 DEF SessionType
<1>7. /\ toClient' \in [Clients -> Seq(FromManager)]
      /\ \A d \in Clients \ {c} : toClient'[d] = toClient[d]
  BY <1>1, <1>2, GetsIs
<1>8. UNCHANGED <<connection, link, dialogs, told>>
  BY DEF SaveYourself, SavePhase2, application
<1>9. Quiet(c)
  <2>1. /\ connection' \subseteq Clients
        /\ dialogs' \in [Clients -> SUBSET {"current", "stale"}]
        /\ told' \in [Clients -> BOOLEAN]
        /\ \A d \in Clients \ {c} : d \in connection' <=> d \in connection
    BY <1>1, <1>8 DEF SessionType
  <2>2. UNCHANGED link
    BY <1>8
  <2>3. \A d \in Clients \ {c} :
           /\ priv'[d] = priv[d] /\ toClient'[d] = toClient[d]
           /\ toSM'[d] = toSM[d]
           /\ d \in connection' <=> d \in connection
    BY <1>6, <1>7, <2>1
  <2>4. QED
    BY <1>3, <1>6, <1>7, <2>1, <2>2, <2>3, ClientTypes
<1>10. Sent(toSM[c], toSM'[c], m.type)
  BY <1>1, <1>3, <1>4, AddsFacts DEF SessionType
<1>11. m.type \in {"InteractRequest", "Phase2Request", "SaveYourselfDone"}
  BY <1>5
<1>12. SaveStep(c, h, m.type)
  BY <1>2, <1>5, <1>6, <1>8, <1>9, <1>10 DEF State, Granted, SaveStep
<1>13. QED BY <1>11, <1>12

\* The SaveYourself that only confirms a connection.
LEMMA InitialIs ==
    ASSUME SessionInv, NEW c \in Clients, UNCHANGED managerVars,
           SaveYourselfInitial(c)
    PROVE  SaveStep(c, "SaveYourself", "SaveYourselfDone")
<1> DEFINE m == Message("SaveYourselfDone")
<1>1. SessionType /\ Sane(c) /\ priv[c] \in Private /\ State(c) = "IDLE"
  BY OneClient DEF SaveYourselfInitial, State
<1>2. Gets(c, "SaveYourself") /\ Send(c, <<m>>)
  BY DEF SaveYourselfInitial
<1>3. m \in FromClient /\ m.type = "SaveYourselfDone"
  BY DEF Message, FromClient
<1> HIDE DEF m
<1>4. /\ toSM' = [toSM EXCEPT ![c] = Append(toSM[c], m)]
      /\ toSM' \in [Clients -> Seq(FromClient)]
  BY <1>1, <1>2, <1>3, SendOne
<1>5. priv' = [priv EXCEPT ![c].ignore_next_save = FALSE]
  BY DEF SaveYourselfInitial
<1>6. /\ priv' \in [Clients -> Private]
      /\ State(c)' = "IDLE" /\ Granted(c)' = Granted(c)
      /\ \A d \in Clients \ {c} : priv'[d] = priv[d]
  BY <1>1, <1>5 DEF SessionType, State, Granted, Private, PrivateIn
<1>7. /\ toClient' \in [Clients -> Seq(FromManager)]
      /\ \A d \in Clients \ {c} : toClient'[d] = toClient[d]
  BY <1>1, <1>2, GetsIs
<1>8. UNCHANGED <<connection, link, properties, dialogs, told>>
  BY DEF SaveYourselfInitial, application
<1>9. Quiet(c)
  <2>1. /\ connection' \subseteq Clients
        /\ properties' \in [Clients -> Seq(Property)]
        /\ dialogs' \in [Clients -> SUBSET {"current", "stale"}]
        /\ told' \in [Clients -> BOOLEAN]
        /\ \A d \in Clients \ {c} : d \in connection' <=> d \in connection
    BY <1>1, <1>8 DEF SessionType
  <2>2. UNCHANGED link
    BY <1>8
  <2>3. \A d \in Clients \ {c} :
           /\ priv'[d] = priv[d] /\ toClient'[d] = toClient[d]
           /\ toSM'[d] = toSM[d]
           /\ d \in connection' <=> d \in connection
    BY <1>1, <1>4, <1>6, <1>7, <2>1 DEF SessionType
  <2>4. QED
    BY <1>4, <1>6, <1>7, <2>1, <2>2, <2>3, ClientTypes
<1>10. Sent(toSM[c], toSM'[c], "SaveYourselfDone")
  <2>1. toSM'[c] = Append(toSM[c], m)
    BY <1>1, <1>4 DEF SessionType
  <2>2. Adds(toSM[c], toSM'[c], m)
    BY <2>1 DEF Adds
  <2>3. QED BY <1>1, <1>3, <2>2, AddsFacts DEF SessionType
<1>11. ~Granted(c)'
  BY <1>1, <1>6 DEF Sane, Interacting
<1>12. QED
  BY <1>1, <1>2, <1>6, <1>8, <1>9, <1>10, <1>11 DEF SaveStep

\* A save that starts, or goes on to phase 2, keeps the invariant: the
\* SaveYourself of the queue is now a state of the client, or an answer.
LEMMA SaveStepKeeps ==
    ASSUME SessionInv, NEW c \in Clients,
           NEW h \in {"SaveYourself", "SaveYourselfPhase2"}, NEW t,
           SaveStep(c, h, t)
    PROVE  SessionInv'
<1>1. /\ Gets(c, h)
      /\ State(c) = IF h = "SaveYourself" THEN "IDLE" ELSE "PHASE2_REQUESTED"
      /\ ~Granted(c)'
      /\ \/ /\ State(c)' = IF h = "SaveYourself" THEN "INTERACT_REQUESTED"
                           ELSE "INTERACT_REQUESTED_PHASE2"
            /\ t = "InteractRequest"
         \/ /\ State(c)' = "PHASE2_REQUESTED" /\ h = "SaveYourself"
            /\ t = "Phase2Request"
         \/ State(c)' = "IDLE" /\ t = "SaveYourselfDone"
      /\ SessionType' /\ Only(c) /\ UNCHANGED connection
      /\ phase = "cancelled" => interactWanted' = {} /\ interactor' = {}
      /\ UNCHANGED <<session, phase, link, owed, phase2Wanted,
                     interactWanted, interactor>>
  BY DEF SaveStep, Quiet
<1> DEFINE q == toClient[c]  r == toClient'[c]
           a == toSM[c]  b == toSM'[c]
<1>2. /\ c \in Members /\ c \in Members'
      /\ q \in Seq(FromManager) /\ q # <<>> /\ r = Tail(q)
      /\ Head(q).type = h
  BY <1>1, OneClient, GetsIs DEF Members
<1> HIDE DEF q, r
<1>3. Received(q, r, h)
  BY <1>2, TailFacts
<1>4. Sent(a, b, t)
  BY DEF SaveStep
<1>5. /\ Sane(c) /\ Owing(c) /\ Settled(c)
      /\ Delivered(c) /\ Wanting(c) /\ Granting(c)
  BY OneClient
<1>6. Pending(a, "SaveYourselfDone") \in Nat
  BY OneClient, PendingType
<1> HIDE DEF a, b
<1>7. Sane(c)'
  BY <1>1, <1>2, <1>5 DEF Sane, Interacting, Members
<1>8. Owing(c)'
  <2>1. Answers(c)' = Answers(c)
    BY <1>1, <1>2, <1>3, <1>4, <1>6 
    DEF Answers, Members, Received, Sent, q, r, a, b
  <2>2. QED BY <2>1, <1>1, <1>2, <1>5 DEF Owing
<1>9. Settled(c)'
  BY <1>1, <1>4, <1>5 DEF Settled, Interacting, Sent, a, b
<1>10. phase \in Calm => h = "SaveYourself"
  BY <1>1, <1>2, <1>3, <1>5 DEF Delivered, LeftOver, Received, q
<1>11. Delivered(c)'
  <2>1. /\ phase' \in Live => LeftOver(c, "ShutdownCancelled")'
        /\ phase' \in Calm => LeftOver(c, "SaveYourselfPhase2")'
        /\ phase' \in Live /\ c \notin interactor' => LeftOver(c, "Interact")'
    BY <1>1, <1>2, <1>3, <1>5, <1>10 
    DEF Delivered, LeftOver, Received, q, r
  <2>2. /\ After(r, "SaveYourself", "SaveYourselfPhase2") =>
              State(c)' = "PHASE2_REQUESTED" /\ Orderly(r)
        /\ Has(r, "Die") => phase' = "dying"
        /\ phase' \in Calm => State(c)' # "INTERACT_REQUESTED_PHASE2"
    BY <1>1, <1>2, <1>3, <1>5, <1>10, AfterHas
    DEF Delivered, Orderly, Received, q
  <2>3. QED BY <2>1, <2>2 DEF Delivered, r
<1>12. Wanting(c)'
  BY <1>1, <1>4, <1>5, <1>10 DEF Wanting, Sent, a, b
<1>15. Granting(c)'
  <2>1. SUFFICES ASSUME c \in link, phase \in Live PROVE Granting(c)'
    BY <1>1 DEF Granting
  <2>2. State(c) \notin Interacting
    BY <1>1 DEF Interacting
  <2>3. /\ ~Has(a, "InteractRequest") /\ c \notin interactWanted /\ ~Granted(c)
        /\ Has(a, "InteractDone") <=> c \in interactor
        /\ c \in interactor =>
              /\ Has(a, "InteractDone") /\ Once(a, "InteractDone")
              /\ ~Has(q, "Interact")
    BY <2>1, <2>2, <1>5 DEF Granting, AwaitsGrant, Sane, a, q
  <2>4. ~Has(r, "Interact")
    BY <2>1, <2>3, <1>1, <1>2, <1>3, <1>5
    DEF Delivered, LeftOver, Received, q
  <2>5. /\ Has(b, "InteractDone") <=> c \in interactor
        /\ Once(b, "InteractDone")
        /\ ~After(b, "InteractRequest", "InteractDone")
        /\ Has(b, "InteractRequest") <=> t = "InteractRequest"
        /\ Once(b, "InteractRequest")
    BY <2>3, <1>1, <1>4, AfterHas, NoneOnce DEF Sent
  <2>6. t = "InteractRequest" => State(c)' \in Interacting
    BY <1>1 DEF Interacting
  <2>7. QED
    BY <2>3, <2>4, <2>5, <2>6, <1>1 DEF Granting, b, r
<1>13. /\ InPhase2(c)' => InPhase2(c)
       /\ BeyondPhase1(c) => BeyondPhase1(c)'
  BY <1>1, <1>2, <1>3, <1>5, AfterHas
  DEF InPhase2, BeyondPhase1, Delivered, Orderly, Received, q, r
<1>14. QED
  BY <1>1, <1>2, <1>7, <1>8, <1>9, <1>11, <1>12, <1>13, <1>15, OneSteps
  DEF ClientInv

\* g is f with another value at c, perhaps.
Changed(f, g, c, S) == g = [f EXCEPT ![c] = g[c]] /\ g[c] \in S

\* A function changed at one argument.
LEMMA ChangedIs ==
    ASSUME NEW S, NEW T, NEW f \in [S -> T], NEW c \in S, NEW g, NEW v \in T,
           g = [f EXCEPT ![c] = v]
    PROVE  Changed(f, g, c, T) /\ g[c] = v
BY DEF Changed

\* A function that is not changed is changed at no more than one.
LEMMA UnchangedIs ==
    ASSUME NEW S, NEW T, NEW f \in [S -> T], NEW c \in S, NEW g, g = f
    PROVE  Changed(f, g, c, T) /\ g[c] = f[c]
BY DEF Changed

\* A new GsmClientPrivate.
LEMMA PrivIs ==
    ASSUME SessionType, NEW c \in Clients, NEW P \in Private,
           priv' = [priv EXCEPT ![c] = P]
    PROVE  /\ Changed(priv, priv', c, Private)
           /\ State(c)' = P.state /\ Granted(c)' = P.interaction_granted
<1>1. Changed(priv, priv', c, Private) /\ priv'[c] = P
  BY ChangedIs DEF SessionType
<1>2. QED BY <1>1 DEF State, Granted

\* A step of one client, from what it makes of each variable.
LEMMA QuietStep ==
    ASSUME SessionInv, UNCHANGED managerVars, NEW c \in Clients,
           Changed(priv, priv', c, Private),
           Changed(toSM, toSM', c, Seq(FromClient)),
           Changed(toClient, toClient', c, Seq(FromManager)),
           Changed(properties, properties', c, Seq(Property)),
           Changed(dialogs, dialogs', c, SUBSET {"current", "stale"}),
           Changed(told, told', c, BOOLEAN),
           link' = link,
           connection' = connection \/ connection' = connection \ {c}
    PROVE  Quiet(c)
<1>1. SessionType
  BY DEF SessionInv
<1>2. /\ priv' \in [Clients -> Private]
      /\ toSM' \in [Clients -> Seq(FromClient)]
      /\ toClient' \in [Clients -> Seq(FromManager)]
      /\ properties' \in [Clients -> Seq(Property)]
      /\ dialogs' \in [Clients -> SUBSET {"current", "stale"}]
      /\ told' \in [Clients -> BOOLEAN]
      /\ connection' \subseteq Clients
  BY <1>1 DEF SessionType, Changed
<1>3. \A d \in Clients \ {c} :
         /\ priv'[d] = priv[d] /\ toClient'[d] = toClient[d]
         /\ toSM'[d] = toSM[d]
         /\ d \in connection' <=> d \in connection
  BY <1>1 DEF SessionType, Changed
<1>4. QED BY <1>2, <1>3, ClientTypes

\* A client that reads a message changes its own queue only.
LEMMA GetsChanges ==
    ASSUME SessionType, NEW c \in Clients, NEW t, Gets(c, t)
    PROVE  Changed(toClient, toClient', c, Seq(FromManager))
<1>1. toClient' = [toClient EXCEPT ![c] = Tail(toClient[c])]
  BY DEF Gets
<1>2. Tail(toClient[c]) \in Seq(FromManager)
  <2>1. toClient[c] \in Seq(FromManager) /\ toClient[c] # <<>>
    BY DEF SessionType, Gets
  <2>2. QED BY <2>1, Shorter
<1>3. QED BY <1>1, <1>2, ChangedIs DEF SessionType

\* A message that a client does not answer.
Silent(c, h) ==
    /\ Gets(c, h)
    /\ h = "SaveYourself" => State(c) # "IDLE"
    /\ h = "SaveYourselfPhase2" => State(c) # "PHASE2_REQUESTED"
    /\ State(c)' = State(c) /\ toSM'[c] = toSM[c]
    /\ Granted(c)' <=>
          Granted(c) \/ (h = "Interact" /\ State(c) \in Interacting)
    /\ Quiet(c) /\ UNCHANGED connection

\* These callbacks change nothing but the grant.
LEMMA SilentIs ==
    ASSUME SessionInv, NEW c \in Clients, UNCHANGED managerVars,
           \/ SaveYourselfIgnored(c) \/ SavePhase2Ignored(c) \/ Interact(c)
           \/ SaveComplete(c)
           \/ ShutdownCancelled(c) /\ State(c) = "IDLE"
    PROVE  \E h \in {"SaveYourself", "SaveYourselfPhase2", "Interact",
                     "SaveComplete", "ShutdownCancelled"} : Silent(c, h)
<1>1. /\ SessionType /\ priv[c] \in Private /\ Sane(c)
      /\ toSM[c] \in Seq(FromClient)
  BY OneClient
<1>2. PICK h \in {"SaveYourself", "SaveYourselfPhase2", "Interact",
                  "SaveComplete", "ShutdownCancelled"} :
         /\ Gets(c, h)
         /\ h = "SaveYourself" => State(c) # "IDLE"
         /\ h = "SaveYourselfPhase2" => State(c) # "PHASE2_REQUESTED"
         /\ h = "ShutdownCancelled" => State(c) = "IDLE"
         /\ \/ h = "SaveYourself" /\ SaveYourselfIgnored(c)
            \/ h = "SaveYourselfPhase2" /\ SavePhase2Ignored(c)
            \/ h = "Interact" /\ Interact(c)
            \/ h = "SaveComplete" /\ SaveComplete(c)
            \/ h = "ShutdownCancelled" /\ ShutdownCancelled(c)
  <2>1. CASE SaveYourselfIgnored(c)
    BY <2>1 DEF SaveYourselfIgnored, State
  <2>2. CASE SavePhase2Ignored(c)
    BY <2>2 DEF SavePhase2Ignored, State
  <2>3. CASE Interact(c)
    BY <2>3 DEF Interact
  <2>4. CASE SaveComplete(c)
    BY <2>4 DEF SaveComplete
  <2>5. CASE ShutdownCancelled(c) /\ State(c) = "IDLE"
    BY <2>5 DEF ShutdownCancelled
  <2>6. QED BY <2>1, <2>2, <2>3, <2>4, <2>5
<1>3. Changed(toClient, toClient', c, Seq(FromManager))
  BY <1>1, <1>2, GetsChanges
<1>4. UNCHANGED <<connection, link, properties>>
  BY <1>2 DEF SaveYourselfIgnored, SavePhase2Ignored, Interact, SaveComplete,
              ShutdownCancelled
<1>5. Changed(toSM, toSM', c, Seq(FromClient)) /\ toSM'[c] = toSM[c]
  <2>1. ShutdownCancelled(c) /\ State(c) = "IDLE" => Send(c, <<>>)
    BY DEF ShutdownCancelled, State
  <2>2. toSM' = toSM
    BY <1>1, <1>2, <2>1, SendNone
    DEF SaveYourselfIgnored, SavePhase2Ignored, Interact, SaveComplete
  <2>3. QED BY <1>1, <2>2, UnchangedIs DEF SessionType
<1>6. /\ Changed(dialogs, dialogs', c, SUBSET {"current", "stale"})
      /\ Changed(told, told', c, BOOLEAN)
  <2>1. /\ dialogs \in [Clients -> SUBSET {"current", "stale"}]
        /\ told \in [Clients -> BOOLEAN]
    BY <1>1 DEF SessionType
  <2>2. \/ UNCHANGED <<dialogs, told>>
        \/ /\ told' = [told EXCEPT ![c] = TRUE]
           /\ dialogs' = [dialogs EXCEPT ![c] = Stale(c) \cup {"current"}]
        \/ /\ UNCHANGED told
           /\ dialogs' = [dialogs EXCEPT ![c] = dialogs[c]]
    BY <1>2 DEF SaveYourselfIgnored, SavePhase2Ignored, Interact, SaveComplete,
                ShutdownCancelled, application, State
  <2>3. Stale(c) \subseteq {"stale"}
    BY DEF Stale
  <2>4. QED BY <2>1, <2>2, <2>3 DEF Changed
<1>7. /\ Changed(priv, priv', c, Private)
      /\ State(c)' = State(c)
      /\ Granted(c)' <=>
            Granted(c) \/ (h = "Interact" /\ State(c) \in Interacting)
  <2>1. CASE h = "Interact" /\ State(c) \in Interacting
    <3> DEFINE P == [priv[c] EXCEPT !.interaction_granted = TRUE]
    <3>1. priv' = [priv EXCEPT ![c] = P]
      BY <1>2, <2>1 DEF Interact, State
    <3>2. P \in Private /\ P.state = State(c) /\ P.interaction_granted = TRUE
      BY <1>1 DEF Private, PrivateIn, State
    <3> HIDE DEF P
    <3>3. /\ Changed(priv, priv', c, Private)
          /\ State(c)' = P.state /\ Granted(c)' = P.interaction_granted
      BY <1>1, <3>1, <3>2, PrivIs
    <3>4. QED BY <3>2, <3>3, <2>1
  <2>2. CASE ~(h = "Interact" /\ State(c) \in Interacting)
    <3>1. h = "ShutdownCancelled" =>
             priv' = [priv EXCEPT ![c] = EndSave(priv[c])]
      BY <1>2 DEF ShutdownCancelled
    <3>2. h = "ShutdownCancelled" => EndSave(priv[c]) = priv[c]
      BY <1>1, <1>2, EndSaveIs DEF State, Private, PrivateIn
    <3>3. h # "ShutdownCancelled" => priv' = priv
      BY <1>2, <2>2 DEF SaveYourselfIgnored, SavePhase2Ignored, Interact,
                        SaveComplete, State
    <3>4. priv' = priv
      BY <1>1, <3>1, <3>2, <3>3 DEF SessionType
    <3>5. QED BY <1>1, <2>2, <3>4, UnchangedIs DEF SessionType, State, Granted
  <2>3. QED BY <2>1, <2>2
<1>8. Changed(properties, properties', c, Seq(Property))
  BY <1>1, <1>4, UnchangedIs DEF SessionType
<1>9. Quiet(c)
  BY <1>3, <1>4, <1>5, <1>6, <1>7, <1>8, QuietStep
<1>10. QED BY <1>2, <1>4, <1>5, <1>7, <1>9 DEF Silent

\* Such a callback keeps the invariant.
LEMMA SilentKeeps ==
    ASSUME SessionInv, NEW c \in Clients, NEW h, Silent(c, h)
    PROVE  SessionInv'
<1>1. /\ Gets(c, h)
      /\ h = "SaveYourself" => State(c) # "IDLE"
      /\ h = "SaveYourselfPhase2" => State(c) # "PHASE2_REQUESTED"
      /\ State(c)' = State(c) /\ toSM'[c] = toSM[c]
      /\ Granted(c)' <=>
            Granted(c) \/ (h = "Interact" /\ State(c) \in Interacting)
      /\ SessionType' /\ Only(c) /\ UNCHANGED connection
      /\ phase = "cancelled" => interactWanted' = {} /\ interactor' = {}
      /\ UNCHANGED <<session, phase, link, owed, phase2Wanted,
                     interactWanted, interactor>>
  BY DEF Silent, Quiet
<1> DEFINE q == toClient[c]  r == toClient'[c]  a == toSM[c]
<1>2. /\ c \in Members /\ c \in Members'
      /\ q \in Seq(FromManager) /\ q # <<>> /\ r = Tail(q)
      /\ Head(q).type = h
  BY <1>1, OneClient, GetsIs DEF Members
<1> HIDE DEF q, r
<1>3. Received(q, r, h)
  BY <1>2, TailFacts
<1>4. /\ Sane(c) /\ Owing(c) /\ Settled(c)
      /\ Delivered(c) /\ Wanting(c) /\ Granting(c)
  BY OneClient
<1>5. Pending(a, "SaveYourselfDone") \in Nat /\ owed[c] \in Nat
  BY OneClient, PendingType
<1> HIDE DEF a
<1>6. Sane(c)'
  BY <1>1, <1>2, <1>4 DEF Sane, Interacting, Members
<1>7. Owing(c)'
  <2>1. /\ h # "SaveYourself" => Answers(c)' = Answers(c)
        /\ Answers(c)' <= Answers(c)
        /\ h = "SaveYourself" => Answers(c) > 1
        /\ Answers(c) \in Nat /\ Answers(c)' \in Nat
    BY <1>1, <1>2, <1>3, <1>5 DEF Answers, Members, Received, q, r, a
  <2>2. QED BY <2>1, <1>1, <1>2, <1>4, <1>5 DEF Owing, Members
<1>8. Settled(c)'
  BY <1>1, <1>4 DEF Settled
<1>9. Delivered(c)'
  <2>1. /\ phase' \in Live => LeftOver(c, "ShutdownCancelled")'
        /\ phase' \in Calm => LeftOver(c, "SaveYourselfPhase2")'
        /\ phase' \in Live /\ c \notin interactor' => LeftOver(c, "Interact")'
    BY <1>1, <1>2, <1>3, <1>4 DEF Delivered, LeftOver, Received, q, r
  <2>2. /\ After(r, "SaveYourself", "SaveYourselfPhase2") =>
              State(c)' = "PHASE2_REQUESTED" /\ Orderly(r)
        /\ Has(r, "Die") => phase' = "dying"
        /\ phase' \in Calm => State(c)' # "INTERACT_REQUESTED_PHASE2"
    BY <1>1, <1>2, <1>3, <1>4 DEF Delivered, Orderly, Received, q
  <2>3. QED BY <2>1, <2>2 DEF Delivered, r
<1>10. Wanting(c)'
  BY <1>1, <1>4 DEF Wanting
<1>11. Granting(c)'
  <2>1. SUFFICES ASSUME c \in link, phase \in Live PROVE Granting(c)'
    BY <1>1 DEF Granting
  <2>2. CASE h = "Interact" /\ State(c) \in Interacting
    <3>1. Has(q, "Interact") /\ State(c) # "IDLE"
      BY <2>2, <1>3 DEF Received, Interacting
    <3>2. c \in interactor
      BY <3>1, <2>1, <1>2, <1>4 DEF Delivered, LeftOver, q
    <3>3. AwaitsGrant(c) /\ Once(q, "Interact") /\ c \notin interactWanted
      BY <3>1, <3>2, <2>1, <1>4 DEF Granting, q
    <3>4. ~Has(r, "Interact")
      BY <3>3, <2>2, <1>3 DEF Received
    <3>5. QED
      BY <3>2, <3>3, <3>4, <2>2, <1>1 DEF Granting, AwaitsGrant, r
  <2>3. CASE h # "Interact"
    <3>1. /\ Has(r, "Interact") <=> Has(q, "Interact")
          /\ Once(q, "Interact") => Once(r, "Interact")
      BY <2>3, <1>3 DEF Received
    <3>2. QED BY <3>1, <2>1, <2>3, <1>1, <1>4 DEF Granting, AwaitsGrant, q, r
  <2>4. CASE h = "Interact" /\ State(c) \notin Interacting
    <3>1. Has(q, "Interact")
      BY <2>4, <1>3 DEF Received
    <3>2. c \notin interactor /\ c \notin interactWanted
      BY <3>1, <2>1, <2>4, <1>4 DEF Granting, AwaitsGrant, Sane, q
    <3>3. QED BY <3>2, <2>1, <2>4, <1>1, <1>4 DEF Granting
  <2>5. QED BY <2>2, <2>3, <2>4
<1>12. /\ InPhase2(c)' => InPhase2(c)
       /\ BeyondPhase1(c) => BeyondPhase1(c)'
  BY <1>1, <1>2, <1>3 DEF InPhase2, BeyondPhase1, Orderly, Received, q, r
<1>13. QED
  BY <1>1, <1>2, <1>6, <1>7, <1>8, <1>9, <1>10, <1>11, <1>12, OneSteps
  DEF ClientInv

\* Sending one message, as far as types go.
LEMMA AppendSent ==
    ASSUME NEW q \in Seq(FromClient), NEW m \in FromClient
    PROVE  Sent(q, Append(q, m), m.type)
BY AddsFacts DEF Adds

\* Messages without arguments.
LEMMA PlainType ==
    ASSUME NEW t \in {"SaveYourselfDone", "Phase2Request", "InteractRequest",
                      "InteractDone", "RequestSave", "Close"}
    PROVE  Message(t) \in FromClient /\ Message(t).type = t
BY DEF Message, FromClient

\* Sending a message without arguments.
LEMMA SentPlain ==
    ASSUME SessionType, NEW c \in Clients,
           NEW t \in {"SaveYourselfDone", "RequestSave", "Close"},
           Send(c, <<Message(t)>>)
    PROVE  /\ Changed(toSM, toSM', c, Seq(FromClient))
           /\ Sent(toSM[c], toSM'[c], t)
<1> DEFINE m == Message(t)
<1>1. m \in FromClient /\ m.type = t
  BY PlainType
<1> HIDE DEF m
<1>2. toSM' = [toSM EXCEPT ![c] = Append(toSM[c], m)]
  BY <1>1, SendOne DEF m
<1>3. toSM[c] \in Seq(FromClient) /\ Append(toSM[c], m) \in Seq(FromClient)
  BY <1>1 DEF SessionType
<1>4. /\ Changed(toSM, toSM', c, Seq(FromClient))
      /\ toSM'[c] = Append(toSM[c], m)
  BY <1>2, <1>3, ChangedIs DEF SessionType
<1>5. QED BY <1>1, <1>3, <1>4, AppendSent

-----------------------------------------------------------------------------
(* The end of a save.                                                      *)

\* A cancelled shutdown ends the save.
Ended(c) ==
    /\ Gets(c, "ShutdownCancelled")
    /\ State(c) # "IDLE" /\ State(c)' = "IDLE" /\ ~Granted(c)'
    /\ Sent(toSM[c], toSM'[c], "SaveYourselfDone")
    /\ Quiet(c) /\ UNCHANGED connection

\* A ShutdownCancelled within a save ends it (gsm_client_end_save()).
LEMMA EndedIs ==
    ASSUME SessionInv, NEW c \in Clients, UNCHANGED managerVars,
           ShutdownCancelled(c), State(c) # "IDLE"
    PROVE  Ended(c)
<1>1. SessionType /\ priv[c] \in Private /\ Sane(c)
  BY OneClient
<1>2. /\ Gets(c, "ShutdownCancelled") /\ UNCHANGED <<connection, link>>
      /\ Send(c, <<Message("SaveYourselfDone")>>)
      /\ priv' = [priv EXCEPT ![c] = EndSave(priv[c])]
      /\ dialogs' = [dialogs EXCEPT ![c] = Stale(c)]
      /\ properties' = properties /\ told' = told
  BY DEF ShutdownCancelled, State
<1>3. c \in Members
  BY <1>1, <1>2, GetsIs
<1>4. /\ EndSave(priv[c]) \in Private /\ EndSave(priv[c]).state = "IDLE"
      /\ ~EndSave(priv[c]).interaction_granted
  BY <1>1, <1>3, EndSaveIs DEF Sane, State, Members
<1>5. /\ Changed(priv, priv', c, Private)
      /\ State(c)' = "IDLE" /\ ~Granted(c)'
  BY <1>1, <1>2, <1>4, PrivIs
<1>6. /\ Changed(toSM, toSM', c, Seq(FromClient))
      /\ Sent(toSM[c], toSM'[c], "SaveYourselfDone")
  BY <1>1, <1>2, SentPlain
<1>7. Changed(toClient, toClient', c, Seq(FromManager))
  BY <1>1, <1>2, GetsChanges
<1>8. Changed(dialogs, dialogs', c, SUBSET {"current", "stale"})
  BY <1>1, <1>2 DEF Stale, Changed, SessionType
<1>9. /\ Changed(properties, properties', c, Seq(Property))
      /\ Changed(told, told', c, BOOLEAN)
  BY <1>1, <1>2, UnchangedIs DEF SessionType
<1>10. Quiet(c)
  BY <1>2, <1>5, <1>6, <1>7, <1>8, <1>9, QuietStep
<1>11. QED BY <1>2, <1>5, <1>6, <1>10 DEF Ended

\* A save that is called off keeps the invariant.
LEMMA EndedKeeps ==
    ASSUME SessionInv, NEW c \in Clients, Ended(c)
    PROVE  SessionInv'
<1>1. /\ Gets(c, "ShutdownCancelled")
      /\ State(c) # "IDLE" /\ State(c)' = "IDLE" /\ ~Granted(c)'
      /\ SessionType' /\ Only(c) /\ UNCHANGED connection
      /\ phase = "cancelled" => interactWanted' = {} /\ interactor' = {}
      /\ UNCHANGED <<session, phase, link, owed, phase2Wanted,
                     interactWanted, interactor>>
  BY DEF Ended, Quiet
<1> DEFINE q == toClient[c]  r == toClient'[c]  a == toSM[c]  b == toSM'[c]
           h == "ShutdownCancelled"  t == "SaveYourselfDone"
<1>2. /\ c \in Members /\ c \in Members'
      /\ q \in Seq(FromManager) /\ q # <<>> /\ r = Tail(q)
      /\ Head(q).type = h
  BY <1>1, OneClient, GetsIs DEF Members
<1> HIDE DEF q, r
<1>3. Received(q, r, h)
  BY <1>2, TailFacts
<1>4. Sent(a, b, t)
  BY DEF Ended
<1>5. /\ Sane(c) /\ Owing(c) /\ Settled(c)
      /\ Delivered(c) /\ Wanting(c) /\ Granting(c)
  BY OneClient
<1>6. Pending(a, t) \in Nat
  BY OneClient, PendingType
<1>7. phase \notin Live /\ phase \notin Calm
  BY <1>1, <1>2, <1>3, <1>5 DEF Received, Delivered, LeftOver, Live, Calm, q
<1> HIDE DEF a, b
<1>8. Sane(c)'
  BY <1>1, <1>2, <1>5 DEF Sane, Members
<1>9. Owing(c)'
  <2>1. State(c) # "DISCONNECTED"
    BY <1>2, <1>5 DEF Sane, Members
  <2>2. Answers(c)' = Answers(c)
    BY <1>1, <1>2, <1>3, <1>4, <1>6
    DEF Answers, Members, Received, Sent, q, r, a, b
  <2>3. QED BY <2>2, <1>1, <1>2, <1>5 DEF Owing
<1>10. Settled(c)'
  BY <1>1, <1>4, <1>5 DEF Settled, Sent, a, b
<1>11. ~After(r, "SaveYourself", "SaveYourselfPhase2")
  BY <1>1, <1>2, <1>3, <1>5, AfterHas DEF Received, Delivered, Orderly, q
<1>12. Delivered(c)'
  <2>1. Has(r, "Die") => phase' = "dying"
    BY <1>1, <1>2, <1>3, <1>5 DEF Received, Delivered, q
  <2>2. QED BY <2>1, <1>1, <1>7, <1>11 DEF Delivered, r
<1>13. Wanting(c)' /\ Granting(c)'
  BY <1>1, <1>7 DEF Wanting, Granting
<1>14. /\ ~InPhase2(c)'
       /\ BeyondPhase1(c) => BeyondPhase1(c)'
  BY <1>1, <1>3 DEF InPhase2, BeyondPhase1, Orderly, Received, q, r
<1>15. QED
  BY <1>1, <1>2, <1>8, <1>9, <1>10, <1>12, <1>13, <1>14, OneSteps
  DEF ClientInv

\* The interaction is done, and the save with it.
Done(c) ==
    /\ c \in Members /\ toClient'[c] = toClient[c]
    /\ Granted(c) /\ State(c) \in Interacting
    /\ State(c)' = "IDLE" /\ ~Granted(c)'
    /\ \E u : /\ Sent(toSM[c], u, "InteractDone")
              /\ Sent(u, toSM'[c], "SaveYourselfDone")
    /\ Quiet(c) /\ UNCHANGED connection

\* An interaction that is over in time ends the save.
LEMMA DoneIs ==
    ASSUME SessionInv, NEW c \in Clients, UNCHANGED managerVars,
           NEW d \in dialogs[c], InteractionDone(c, d), MayBeDone(c)
    PROVE  Done(c)
<1>1. SessionType /\ priv[c] \in Private /\ Sane(c)
  BY OneClient
<1>2. /\ c \in Members /\ UNCHANGED <<connection, link>>
      /\ dialogs' = [dialogs EXCEPT ![c] = dialogs[c] \ {d}]
      /\ priv' = [priv EXCEPT ![c] = EndSave(priv[c])]
      /\ Send(c, <<Message("InteractDone"), Message("SaveYourselfDone")>>)
      /\ toClient' = toClient /\ properties' = properties /\ told' = told
      /\ Granted(c) /\ State(c) \in Interacting
  BY DEF InteractionDone, MayBeDone, State, Granted, Members
<1>3. /\ EndSave(priv[c]) \in Private /\ EndSave(priv[c]).state = "IDLE"
      /\ ~EndSave(priv[c]).interaction_granted
  BY <1>1, <1>2, EndSaveIs DEF Sane, State, Members, Interacting
<1>4. /\ Changed(priv, priv', c, Private)
      /\ State(c)' = "IDLE" /\ ~Granted(c)'
  BY <1>1, <1>2, <1>3, PrivIs
<1> DEFINE m == Message("InteractDone")  n == Message("SaveYourselfDone")
           u == Append(toSM[c], m)
<1>5. /\ m \in FromClient /\ m.type = "InteractDone"
      /\ n \in FromClient /\ n.type = "SaveYourselfDone"
  BY PlainType
<1> HIDE DEF m, n
<1>6. /\ toSM' = [toSM EXCEPT ![c] = Append(u, n)]
      /\ toSM' \in [Clients -> Seq(FromClient)]
  BY <1>1, <1>2, <1>5, SendTwo DEF m, n
<1>7. toSM[c] \in Seq(FromClient) /\ u \in Seq(FromClient)
  BY <1>1, <1>5 DEF SessionType
<1>8. /\ Sent(toSM[c], u, "InteractDone")
      /\ Sent(u, Append(u, n), "SaveYourselfDone")
  <2>1. Sent(toSM[c], u, m.type)
    BY <1>5, <1>7, AppendSent
  <2>2. Sent(u, Append(u, n), n.type)
    BY <1>5, <1>7, AppendSent
  <2>3. QED BY <2>1, <2>2, <1>5
<1> HIDE DEF u
<1>9. Changed(toSM, toSM', c, Seq(FromClient)) /\ toSM'[c] = Append(u, n)
  BY <1>1, <1>6 DEF SessionType, Changed
<1>10. Changed(dialogs, dialogs', c, SUBSET {"current", "stale"})
  BY <1>1, <1>2 DEF Changed, SessionType
<1>11. /\ Changed(properties, properties', c, Seq(Property))
       /\ Changed(told, told', c, BOOLEAN)
       /\ Changed(toClient, toClient', c, Seq(FromManager))
       /\ toClient'[c] = toClient[c]
  BY <1>1, <1>2, UnchangedIs DEF SessionType
<1>12. Quiet(c)
  BY <1>2, <1>4, <1>9, <1>10, <1>11, QuietStep
<1>13. QED BY <1>2, <1>4, <1>8, <1>9, <1>11, <1>12 DEF Done

\* The end of an interaction keeps the invariant.
LEMMA DoneKeeps ==
    ASSUME SessionInv, NEW c \in Clients, Done(c)
    PROVE  SessionInv'
<1>1. /\ c \in Members /\ toClient'[c] = toClient[c]
      /\ Granted(c) /\ State(c) \in Interacting
      /\ State(c)' = "IDLE" /\ ~Granted(c)'
      /\ SessionType' /\ Only(c) /\ UNCHANGED connection
      /\ phase = "cancelled" => interactWanted' = {} /\ interactor' = {}
      /\ UNCHANGED <<session, phase, link, owed, phase2Wanted,
                     interactWanted, interactor>>
  BY DEF Done, Quiet
<1> DEFINE q == toClient[c]  a == toSM[c]  b == toSM'[c]
<1>2. PICK u : Sent(a, u, "InteractDone") /\ Sent(u, b, "SaveYourselfDone")
  BY DEF Done
<1>3. /\ Sane(c) /\ Owing(c) /\ Settled(c)
      /\ Delivered(c) /\ Wanting(c) /\ Granting(c)
  BY OneClient
<1>4. /\ Pending(a, "SaveYourselfDone") \in Nat
      /\ Pending(q, "SaveYourself") \in Nat
  BY OneClient, PendingType
<1>5. c \in Members'
  BY <1>1 DEF Members
<1>6. /\ State(c) # "IDLE" /\ State(c) # "PHASE2_REQUESTED"
  BY <1>1 DEF Interacting
<1> HIDE DEF q, a, b
<1>7. Sane(c)'
  BY <1>1, <1>3, <1>5 DEF Sane, Members
<1>8. Owing(c)'
  <2>1. Answers(c)' = Answers(c)
    BY <1>1, <1>2, <1>4, <1>6 DEF Answers, Members, Sent, q, a, b
  <2>2. QED BY <2>1, <1>1, <1>5, <1>3 DEF Owing
<1>9. Settled(c)'
  <2>1. /\ \A k : k \notin {"SaveYourselfDone", "SetProperties"} =>
                Followed(b, k, "SaveYourselfDone")
        /\ Has(b, "SaveYourselfDone")
    BY <1>2 DEF Sent
  <2>2. QED BY <2>1, <1>1 DEF Settled, b
<1>10. Delivered(c)'
  BY <1>1, <1>3, <1>6 DEF Delivered, LeftOver, q
<1>11. Wanting(c)'
  BY <1>1, <1>2, <1>3, <1>6 DEF Wanting, Sent, a, b
<1>12. Granting(c)'
  <2>1. SUFFICES ASSUME c \in link, phase \in Live PROVE Granting(c)'
    BY <1>1 DEF Granting
  <2>2. /\ c \in interactor /\ c \notin interactWanted
        /\ ~Has(a, "InteractRequest") /\ ~Has(a, "InteractDone")
        /\ ~Has(q, "Interact")
    BY <2>1, <1>1, <1>3 DEF Granting, AwaitsGrant, q, a
  <2>3. /\ ~Has(u, "InteractRequest") /\ Has(u, "InteractDone")
        /\ Once(u, "InteractDone")
    BY <2>2, <1>2, NoneOnce DEF Sent
  <2>4. /\ ~Has(b, "InteractRequest") /\ Has(b, "InteractDone")
        /\ Once(b, "InteractDone")
    BY <2>3, <1>2 DEF Sent
  <2>5. ~After(b, "InteractRequest", "InteractDone")
    BY <2>4, AfterHas
  <2>6. QED BY <2>2, <2>4, <2>5, <1>1 DEF Granting, b, q
<1>13. /\ ~InPhase2(c)'
       /\ BeyondPhase1(c) => BeyondPhase1(c)'
  BY <1>1, <1>6 DEF InPhase2, BeyondPhase1
<1>14. QED
  BY <1>1, <1>5, <1>7, <1>8, <1>9, <1>10, <1>11, <1>12, <1>13, OneSteps
  DEF ClientInv

-----------------------------------------------------------------------------
(* What else a client does.                                                *)

\* A client says nothing of its state.
Chats(c) ==
    /\ State(c)' = State(c) /\ Granted(c)' = Granted(c)
    /\ toClient'[c] = toClient[c]
    /\ \/ toSM'[c] = toSM[c]
       \/ \E t \in {"RequestSave", "SetProperties"} : Sent(toSM[c], toSM'[c], t)
    /\ Quiet(c) /\ UNCHANGED connection

\* Talking of other things keeps the invariant.
LEMMA ChatsKeeps ==
    ASSUME SessionInv, NEW c \in Clients, Chats(c)
    PROVE  SessionInv'
<1>1. /\ State(c)' = State(c) /\ Granted(c)' = Granted(c)
      /\ toClient'[c] = toClient[c]
      /\ SessionType' /\ Only(c) /\ UNCHANGED connection
      /\ phase = "cancelled" => interactWanted' = {} /\ interactor' = {}
      /\ UNCHANGED <<session, phase, link, owed, phase2Wanted,
                     interactWanted, interactor>>
  BY DEF Chats, Quiet
<1> DEFINE a == toSM[c]  b == toSM'[c]
           Plain == {"SaveYourselfDone", "Phase2Request", "InteractRequest",
                     "InteractDone"}
<1>2. /\ \A t \in Plain : /\ Has(b, t) <=> Has(a, t)
                          /\ Once(a, t) => Once(b, t)
                          /\ Pending(b, t) = Pending(a, t)
      /\ \A s, t \in Plain : /\ After(b, s, t) <=> After(a, s, t)
                             /\ Followed(a, s, t) => Followed(b, s, t)
  <2>1. CASE b = a
    BY <2>1
  <2>2. CASE b # a
    <3>1. PICK h \in {"RequestSave", "SetProperties"} : Sent(a, b, h)
      BY <2>2 DEF Chats
    <3>2. \A t \in Plain : Pending(a, t) \in Nat
      BY OneClient, PendingType
    <3> HIDE DEF a, b
    <3>3. \A t \in Plain : t # h /\ t # "SetProperties"
      OBVIOUS
    <3> HIDE DEF Plain
    <3>4. QED BY <3>1, <3>2, <3>3 DEF Sent
  <2>3. QED BY <2>1, <2>2
<1>3. /\ Sane(c) /\ Owing(c) /\ Settled(c)
      /\ Delivered(c) /\ Wanting(c) /\ Granting(c)
  BY OneClient
<1>4. c \in Members' <=> c \in Members
  BY <1>1 DEF Members
<1> HIDE DEF a, b
<1>5. Sane(c)'
  BY <1>1, <1>3 DEF Sane
<1>6. Owing(c)'
  <2>1. Answers(c)' = Answers(c)
    BY <1>1, <1>2 DEF Answers, a, b
  <2>2. QED BY <2>1, <1>1, <1>3, <1>4 DEF Owing
<1>7. Settled(c)'
  BY <1>1, <1>2, <1>3 DEF Settled, a, b
<1>8. Delivered(c)'
  BY <1>1, <1>3, <1>4 DEF Delivered, LeftOver
<1>9. Wanting(c)'
  BY <1>1, <1>2, <1>3 DEF Wanting, a, b
<1>10. Granting(c)'
  BY <1>1, <1>2, <1>3 DEF Granting, AwaitsGrant, a, b
<1>11. /\ InPhase2(c)' => InPhase2(c)
       /\ BeyondPhase1(c) => BeyondPhase1(c)'
  BY <1>1 DEF InPhase2, BeyondPhase1
<1>12. QED
  BY <1>1, <1>4, <1>5, <1>6, <1>7, <1>8, <1>9, <1>10, <1>11, OneSteps
  DEF ClientInv

\* An interaction that is over too late changes no state.
LEMMA DoneTooLateChats ==
    ASSUME SessionInv, NEW c \in Clients, UNCHANGED managerVars,
           NEW d \in dialogs[c], InteractionDone(c, d), ~MayBeDone(c)
    PROVE  Chats(c)
<1>1. SessionType
  BY OneClient
<1>2. /\ UNCHANGED <<connection, link>>
      /\ dialogs' = [dialogs EXCEPT ![c] = dialogs[c] \ {d}]
      /\ toClient' = toClient /\ properties' = properties /\ told' = told
      /\ priv' = priv /\ toSM' = toSM
  BY DEF InteractionDone
<1>3. Changed(dialogs, dialogs', c, SUBSET {"current", "stale"})
  BY <1>1, <1>2 DEF Changed, SessionType
<1>4. /\ Changed(properties, properties', c, Seq(Property))
      /\ Changed(told, told', c, BOOLEAN)
      /\ Changed(toClient, toClient', c, Seq(FromManager))
      /\ Changed(toSM, toSM', c, Seq(FromClient))
      /\ Changed(priv, priv', c, Private)
  BY <1>1, <1>2, UnchangedIs DEF SessionType
<1>5. Quiet(c)
  BY <1>2, <1>3, <1>4, QuietStep
<1>6. QED BY <1>2, <1>5 DEF Chats, State, Granted

\* Nor does asking for a save.
LEMMA RequestSaveChats ==
    ASSUME SessionInv, NEW c \in Clients, UNCHANGED managerVars, RequestSave(c)
    PROVE  Chats(c)
<1>1. SessionType
  BY OneClient
<1>2. /\ UNCHANGED <<connection, link>> /\ dialogs' = dialogs
      /\ toClient' = toClient /\ properties' = properties /\ told' = told
      /\ priv' = priv /\ Send(c, <<Message("RequestSave")>>)
  BY DEF RequestSave, application
<1>3. /\ Changed(properties, properties', c, Seq(Property))
      /\ Changed(told, told', c, BOOLEAN)
      /\ Changed(toClient, toClient', c, Seq(FromManager))
      /\ Changed(dialogs, dialogs', c, SUBSET {"current", "stale"})
      /\ Changed(priv, priv', c, Private)
  BY <1>1, <1>2, UnchangedIs DEF SessionType
<1>4. /\ Changed(toSM, toSM', c, Seq(FromClient))
      /\ Sent(toSM[c], toSM'[c], "RequestSave")
  BY <1>1, <1>2, SentPlain
<1>5. Quiet(c)
  BY <1>2, <1>3, <1>4, QuietStep
<1>6. QED BY <1>2, <1>4, <1>5 DEF Chats, State, Granted

\* Nor does setting a property.
LEMMA SetPropertyChats ==
    ASSUME SessionInv, NEW c \in Clients, UNCHANGED managerVars,
           NEW prop \in Settings, SetProperty(c, prop)
    PROVE  Chats(c)
<1> DEFINE set == <<prop>>
<1>1. SessionType
  BY OneClient
<1>2. /\ UNCHANGED <<connection, link>> /\ dialogs' = dialogs
      /\ toClient' = toClient /\ told' = told /\ priv' = priv
      /\ properties' = [properties EXCEPT ![c] = Replaced(c, set)]
      /\ IF c \in connection THEN Send(c, SetMessages(set)) ELSE toSM' = toSM
  BY DEF SetProperty, application
<1>3. set \in Handlings /\ set # <<>>
  BY DEF Handlings
<1> HIDE DEF set
<1>4. /\ Replaced(c, set) \in Seq(Property)
      /\ SetProperties(set) \in FromClient
      /\ SetMessages(set) = <<SetProperties(set)>>
  BY <1>1, <1>3, ReplacedType
<1>5. /\ Changed(dialogs, dialogs', c, SUBSET {"current", "stale"})
      /\ Changed(told, told', c, BOOLEAN)
      /\ Changed(toClient, toClient', c, Seq(FromManager))
      /\ Changed(priv, priv', c, Private)
  BY <1>1, <1>2, UnchangedIs DEF SessionType
<1>6. Changed(properties, properties', c, Seq(Property))
  BY <1>1, <1>2, <1>4, ChangedIs DEF SessionType
<1>7. /\ Changed(toSM, toSM', c, Seq(FromClient))
      /\ \/ toSM'[c] = toSM[c]
         \/ Sent(toSM[c], toSM'[c], "SetProperties")
  <2>1. CASE c \notin connection
    BY <2>1, <1>1, <1>2, UnchangedIs DEF SessionType
  <2>2. CASE c \in connection
    <3> DEFINE m == SetProperties(set)
    <3>1. m \in FromClient /\ m.type = "SetProperties"
      BY <1>4 DEF SetProperties
    <3>2. Send(c, <<m>>)
      BY <2>2, <1>2, <1>4
    <3> HIDE DEF m
    <3>3. toSM' = [toSM EXCEPT ![c] = Append(toSM[c], m)]
      BY <1>1, <3>1, <3>2, SendOne
    <3>4. toSM[c] \in Seq(FromClient) /\ Append(toSM[c], m) \in Seq(FromClient)
      BY <1>1, <3>1 DEF SessionType
    <3>5. /\ Changed(toSM, toSM', c, Seq(FromClient))
          /\ toSM'[c] = Append(toSM[c], m)
      BY <1>1, <3>3, <3>4, ChangedIs DEF SessionType
    <3>6. Sent(toSM[c], Append(toSM[c], m), m.type)
      BY <3>1, <3>4, AppendSent
    <3>7. QED BY <3>1, <3>5, <3>6
  <2>3. QED BY <2>1, <2>2
<1>8. Quiet(c)
  BY <1>2, <1>5, <1>6, <1>7, QuietStep
<1>9. QED BY <1>2, <1>7, <1>8 DEF Chats, State, Granted

-----------------------------------------------------------------------------
(* A client leaves.                                                        *)

\* A client leaves while it is idle, or because the session ends.
Goes(c) ==
    /\ c \in Members /\ c \notin connection'
    /\ State(c) = "IDLE" \/ phase = "dying"
    /\ State(c)' = "DISCONNECTED" /\ ~Granted(c)'
    /\ phase = "dying" \/ toClient'[c] = <<>>
    /\ Sent(toSM[c], toSM'[c], "Close")
    /\ Quiet(c)

\* Both ways of leaving: on Die, and by the application.
LEMMA GoesIs ==
    ASSUME SessionInv, NEW c \in Clients, UNCHANGED managerVars,
           Die(c) \/ Leaves(c)
    PROVE  Goes(c)
<1>1. SessionType /\ priv[c] \in Private /\ Sane(c) /\ Delivered(c)
  BY OneClient
<1>2. /\ c \in Members /\ link' = link
      /\ properties' = properties /\ told' = told
  <2>1. CASE Die(c)
    BY <2>1, <1>1, GetsIs DEF Die
  <2>2. CASE Leaves(c)
    BY <2>2 DEF Leaves, Members, application
  <2>3. QED BY <2>1, <2>2
<1>3. PICK p \in Private : /\ p.state = "IDLE" /\ ~p.interaction_granted
                           /\ Disconnect(c, p)
  <2>1. CASE Die(c)
    <3>1. /\ EndSave(priv[c]) \in Private /\ EndSave(priv[c]).state = "IDLE"
          /\ ~EndSave(priv[c]).interaction_granted
      BY <1>1, <1>2, EndSaveIs DEF Sane, State, Granted, Members, Interacting
    <3>2. QED BY <2>1, <3>1 DEF Die
  <2>2. CASE Leaves(c)
    <3>1. Disconnect(c, priv[c]) /\ priv[c].state = "IDLE"
      BY <2>2 DEF Leaves
    <3>2. ~priv[c].interaction_granted
      BY <3>1, <1>1 DEF Sane, State, Granted, Interacting
    <3>3. QED BY <3>1, <3>2, <1>1
  <2>3. QED BY <2>1, <2>2
<1> DEFINE P == [p EXCEPT !.state = "DISCONNECTED", !.ignore_next_save = FALSE]
<1>4. /\ priv' = [priv EXCEPT ![c] = P] /\ connection' = connection \ {c}
      /\ Send(c, <<Message("Close")>>)
  BY <1>3 DEF Disconnect
<1>5. P \in Private /\ P.state = "DISCONNECTED" /\ ~P.interaction_granted
  BY <1>3 DEF Private, PrivateIn, States
<1> HIDE DEF P
<1>6. /\ Changed(priv, priv', c, Private)
      /\ State(c)' = "DISCONNECTED" /\ ~Granted(c)'
  BY <1>1, <1>4, <1>5, PrivIs
<1>7. /\ Changed(toSM, toSM', c, Seq(FromClient))
      /\ Sent(toSM[c], toSM'[c], "Close")
  BY <1>1, <1>4, SentPlain
<1>8. Changed(toClient, toClient', c, Seq(FromManager))
  <2>1. CASE Die(c)
    BY <2>1, <1>1, GetsChanges DEF Die
  <2>2. CASE Leaves(c)
    BY <2>2, <1>1 DEF Leaves, Changed, SessionType
  <2>3. QED BY <2>1, <2>2
<1>9. Changed(dialogs, dialogs', c, SUBSET {"current", "stale"})
  BY <1>1 DEF Die, Leaves, application, Changed, SessionType
<1>10. /\ Changed(properties, properties', c, Seq(Property))
       /\ Changed(told, told', c, BOOLEAN)
  BY <1>1, <1>2, UnchangedIs DEF SessionType
<1>11. /\ State(c) = "IDLE" \/ phase = "dying"
       /\ phase = "dying" \/ toClient'[c] = <<>>
  <2>1. CASE Die(c)
    <3>1. /\ toClient[c] \in Seq(FromManager) /\ toClient[c] # <<>>
          /\ Head(toClient[c]).type = "Die"
      BY <2>1, <1>1, GetsIs DEF Die
    <3>2. Has(toClient[c], "Die")
      BY <3>1, HasTail
    <3>3. QED BY <3>2, <1>1, <1>2 DEF Delivered
  <2>2. CASE Leaves(c)
    BY <2>2, <1>1 DEF Leaves, State, SessionType
  <2>3. QED BY <2>1, <2>2
<1>12. Quiet(c)
  BY <1>2, <1>4, <1>6, <1>7, <1>8, <1>9, <1>10, QuietStep
<1>13. QED BY <1>2, <1>4, <1>6, <1>7, <1>11, <1>12 DEF Goes

\* A client that leaves keeps the invariant.
LEMMA GoesKeeps ==
    ASSUME SessionInv, NEW c \in Clients, Goes(c)
    PROVE  SessionInv'
<1>1. /\ c \in Members /\ c \notin connection'
      /\ State(c) = "IDLE" \/ phase = "dying"
      /\ State(c)' = "DISCONNECTED" /\ ~Granted(c)'
      /\ phase = "dying" \/ toClient'[c] = <<>>
      /\ SessionType' /\ Only(c)
      /\ phase = "cancelled" => interactWanted' = {} /\ interactor' = {}
      /\ UNCHANGED <<session, phase, link, owed, phase2Wanted,
                     interactWanted, interactor>>
  BY DEF Goes, Quiet
<1> DEFINE q == toClient[c]  a == toSM[c]  b == toSM'[c]
<1>2. Sent(a, b, "Close")
  BY DEF Goes
<1>3. /\ Sane(c) /\ Owing(c) /\ Settled(c)
      /\ Delivered(c) /\ Wanting(c) /\ Granting(c)
  BY OneClient
<1>4. /\ Pending(a, "SaveYourselfDone") \in Nat /\ owed[c] \in Nat
      /\ Pending(q, "SaveYourself") \in Nat
  BY OneClient, PendingType
<1>5. c \notin Members'
  BY <1>1 DEF Members
<1> HIDE DEF q, a, b
<1>6. Sane(c)'
  BY <1>1, <1>3 DEF Sane, Members
<1>7. Owing(c)'
  <2>1. Answers(c)' <= Answers(c) /\ Answers(c)' \in Nat /\ Answers(c) \in Nat
    BY <1>1, <1>2, <1>4 DEF Answers, Members, Sent, q, a, b
  <2>2. QED BY <2>1, <1>1, <1>3, <1>4, <1>5 DEF Owing
<1>8. phase # "dying" =>
         /\ State(c) \notin Interacting /\ State(c) # "PHASE2_REQUESTED"
         /\ ~Has(toClient[c], "Interact")' /\ State(c) = "IDLE"
  BY <1>1 DEF Interacting, Has
<1>9. Settled(c)'
  BY <1>1, <1>2, <1>3, <1>8 DEF Settled, Sent, Interacting, a, b
<1>10. Delivered(c)'
  BY <1>5 DEF Delivered
<1>11. Wanting(c)'
  BY <1>1, <1>2, <1>3, <1>8 DEF Wanting, Sent, Calm, a, b
<1>12. Granting(c)'
  <2>1. SUFFICES ASSUME c \in link, phase \in Live PROVE Granting(c)'
    BY <1>1 DEF Granting
  <2>2. phase # "dying" /\ ~Granted(c)
    BY <2>1, <1>3, <1>8 DEF Live, Sane
  <2>3. /\ ~Has(a, "InteractRequest") /\ c \notin interactWanted
        /\ Has(a, "InteractDone") <=> c \in interactor
        /\ c \in interactor => Once(a, "InteractDone")
    BY <2>1, <2>2, <1>3, <1>8 DEF Granting, AwaitsGrant, a
  <2>4. /\ ~Has(b, "InteractRequest")
        /\ Has(b, "InteractDone") <=> c \in interactor
        /\ c \in interactor => Once(b, "InteractDone")
    BY <2>3, <1>2 DEF Sent
  <2>5. ~After(b, "InteractRequest", "InteractDone")
    BY <2>4, AfterHas
  <2>6. QED BY <2>2, <2>3, <2>4, <2>5, <1>1, <1>8 DEF Granting, b
<1>13. QED
  BY <1>1, <1>5, <1>6, <1>7, <1>9, <1>10, <1>11, <1>12, OneSteps
  DEF ClientInv

\* The manager loses a client: its connection has broken, or it has left.
Drops(c) ==
    /\ link' = link \ {c} /\ Forget(c)
    /\ State(c)' = State(c) /\ Granted(c)' = Granted(c)
    /\ SessionType' /\ Only(c) /\ UNCHANGED <<session, phase, connection>>

\* A lost or closed connection keeps the invariant.
LEMMA DropsKeeps ==
    ASSUME SessionInv, NEW c \in Clients, Drops(c)
    PROVE  SessionInv'
<1>1. /\ link' = link \ {c}
      /\ State(c)' = State(c) /\ Granted(c)' = Granted(c)
      /\ SessionType' /\ Only(c) /\ UNCHANGED <<session, phase, connection>>
      /\ owed'[c] = 0 /\ interactor' \subseteq interactor
      /\ interactWanted' \subseteq interactWanted
      /\ c \notin phase2Wanted' \cup interactWanted' \cup interactor'
  BY DEF Drops, Forget, SessionInv, SessionType
<1>2. c \notin link' /\ c \notin Members'
  BY <1>1 DEF Members
<1>3. Sane(c)
  BY OneClient
<1>4. /\ Sane(c)' /\ Owing(c)' /\ Settled(c)'
      /\ Delivered(c)' /\ Wanting(c)' /\ Granting(c)'
  BY <1>1, <1>2, <1>3
  DEF Sane, Owing, Settled, Delivered, Wanting, Granting, Members
<1>5. phase = "cancelled" => interactWanted' = {} /\ interactor' = {}
  BY <1>1 DEF SessionInv
<1>6. QED BY <1>1, <1>2, <1>4, <1>5, OneSteps DEF ClientInv

\* A connection that fails is one that is lost.
LEMMA LinkFailsDrops ==
    ASSUME SessionInv, NEW c \in Clients, LinkFails(c), Forget(c),
           UNCHANGED <<session, phase, shutdown, saved, smProps>>
    PROVE  Drops(c)
<1>1. SessionType
  BY OneClient
<1>2. /\ link' = link \ {c} /\ priv' = priv /\ connection' = connection
      /\ properties' = properties /\ UNCHANGED application
      /\ toClient' = [toClient EXCEPT ![c] = <<>>]
      /\ toSM' = [toSM EXCEPT ![c] = <<>>]
  BY DEF LinkFails
<1>3. SessionType'
  BY <1>1, <1>2 DEF SessionType, Forget, application
<1>4. Only(c)
  BY <1>1, <1>2 DEF SessionType, Forget, Only
<1>5. QED BY <1>2, <1>3, <1>4 DEF Drops, State, Granted

-----------------------------------------------------------------------------
(* The manager handles a message.                                          *)

\* One of type h, other than the last.
Hears(c, h) ==
    /\ c \in link /\ UNCHANGED link
    /\ Received(toSM[c], toSM'[c], h)
    /\ owed'[c] = IF h = "SaveYourselfDone" THEN owed[c] - 1 ELSE owed[c]
    /\ c \in phase2Wanted' <=>
          \/ h = "Phase2Request"
          \/ c \in phase2Wanted /\ h # "SaveYourselfDone"
    /\ c \in interactWanted' <=>
          \/ h = "InteractRequest" /\ phase # "cancelled"
          \/ c \in interactWanted
    /\ c \in interactor' <=> c \in interactor /\ h # "InteractDone"
    /\ UNCHANGED <<session, phase, connection, priv, toClient>>

\* The messages of a client, by their types.
LEMMA FromClientTypes ==
    ASSUME NEW m \in FromClient
    PROVE  /\ m.type \in {"SaveYourselfDone", "Phase2Request",
                          "InteractRequest", "InteractDone", "RequestSave",
                          "Close", "SetProperties"}
           /\ m.type = "SetProperties" => m.props \in Seq(Property)
BY DEF FromClient

\* An answer on its way is one that is owed.
LEMMA OwedForAnswer ==
    ASSUME SessionInv, NEW c \in link, Has(toSM[c], "SaveYourselfDone")
    PROVE  owed[c] - 1 \in Nat
<1>1. /\ c \in Clients /\ Owing(c) /\ owed[c] \in Nat
      /\ toSM[c] \in Seq(FromClient) /\ toClient[c] \in Seq(FromManager)
  BY OneClient DEF SessionInv, SessionType
<1>2. /\ Pending(toSM[c], "SaveYourselfDone") \in Nat
      /\ Pending(toSM[c], "SaveYourselfDone") > 0
      /\ Pending(toClient[c], "SaveYourself") \in Nat
  BY <1>1, PendingType
<1>3. Answers(c) \in Nat /\ Answers(c) > 0
  BY <1>2 DEF Answers
<1>4. QED BY <1>1, <1>3 DEF Owing

\* The manager hears a message, or that the client is gone.
LEMMA HeardIs ==
    ASSUME SessionInv, NEW c \in Clients, SmReceives(c)
    PROVE  /\ \/ Drops(c)
              \/ \E h \in {"SaveYourselfDone", "Phase2Request", "RequestSave",
                           "InteractRequest", "InteractDone",
                           "SetProperties"} : Hears(c, h)
           /\ SessionType' /\ Only(c)
           /\ phase = "cancelled" => interactWanted' = {} /\ interactor' = {}
<1> DEFINE m == Head(toSM[c])
<1>1. SessionType
  BY OneClient
<1>2. /\ c \in link /\ toSM[c] # <<>> /\ toSM[c] \in Seq(FromClient)
      /\ toSM' = [toSM EXCEPT ![c] = Tail(toSM[c])]
  BY <1>1 DEF SmReceives, SessionType
<1>3. m \in FromClient /\ Tail(toSM[c]) \in Seq(FromClient)
  BY <1>2, Shorter
<1>4. /\ toSM'[c] = Tail(toSM[c]) /\ toSM' \in [Clients -> Seq(FromClient)]
      /\ \A d \in Clients \ {c} : toSM'[d] = toSM[d]
  BY <1>1, <1>2, <1>3 DEF SessionType
<1>5. Received(toSM[c], toSM'[c], m.type)
  BY <1>2, <1>4, TailFacts
<1>6. m.type \in {"SaveYourselfDone", "Phase2Request", "InteractRequest",
                  "InteractDone", "RequestSave", "Close", "SetProperties"}
  BY <1>3, FromClientTypes
<1>7. m.type = "SaveYourselfDone" => owed[c] - 1 \in Nat
  <2>1. m.type = "SaveYourselfDone" => Has(toSM[c], "SaveYourselfDone")
    BY <1>5 DEF Received
  <2>2. QED BY <2>1, <1>2, OwedForAnswer
<1> HIDE DEF m
<1>8. UNCHANGED <<priv, connection, properties, toClient, dialogs, told,
                  session, phase, shutdown, saved>>
  BY DEF SmReceives, application
<1>9. CASE m.type = "SaveYourselfDone"
  <2>1. /\ owed' = [owed EXCEPT ![c] = owed[c] - 1]
        /\ phase2Wanted' = phase2Wanted \ {c}
        /\ UNCHANGED <<interactWanted, interactor, link>>
    BY <1>9 DEF SmReceives, m
  <2>2. SessionType' /\ Only(c)
    BY <2>1, <1>1, <1>4, <1>7, <1>8, <1>9 DEF SessionType, Only
  <2>3. Hears(c, "SaveYourselfDone")
    BY <2>1, <1>1, <1>2, <1>5, <1>8, <1>9 DEF Hears, SessionType
  <2>4. QED BY <2>1, <2>2, <2>3 DEF SessionInv
<1>10. CASE m.type = "Phase2Request"
  <2>1. /\ phase2Wanted' = phase2Wanted \cup {c}
        /\ UNCHANGED <<owed, interactWanted, interactor, link>>
    BY <1>10 DEF SmReceives, m
  <2>2. SessionType' /\ Only(c)
    BY <2>1, <1>1, <1>4, <1>8 DEF SessionType, Only
  <2>3. Hears(c, "Phase2Request")
    BY <2>1, <1>2, <1>5, <1>8, <1>10 DEF Hears
  <2>4. QED BY <2>1, <2>2, <2>3 DEF SessionInv
<1>11. CASE m.type = "InteractRequest"
  <2>1. /\ interactWanted' = IF phase = "cancelled" THEN interactWanted
                             ELSE interactWanted \cup {c}
        /\ UNCHANGED <<owed, phase2Wanted, interactor, link>>
    BY <1>11 DEF SmReceives, m
  <2>2. SessionType' /\ Only(c)
    BY <2>1, <1>1, <1>4, <1>8 DEF SessionType, Only
  <2>3. Hears(c, "InteractRequest")
    BY <2>1, <1>2, <1>5, <1>8, <1>11 DEF Hears
  <2>4. QED BY <2>1, <2>2, <2>3 DEF SessionInv
<1>12. CASE m.type = "InteractDone"
  <2>1. /\ interactor' = interactor \ {c}
        /\ UNCHANGED <<owed, phase2Wanted, interactWanted, link>>
    BY <1>12 DEF SmReceives, m
  <2>2. SessionType' /\ Only(c)
    BY <2>1, <1>1, <1>4, <1>8 DEF SessionType, Only
  <2>3. Hears(c, "InteractDone")
    BY <2>1, <1>2, <1>5, <1>8, <1>12 DEF Hears
  <2>4. QED BY <2>1, <2>2, <2>3 DEF SessionInv
<1>13. CASE m.type \in {"RequestSave", "SetProperties"}
  <2>1. UNCHANGED <<owed, phase2Wanted, interactWanted, interactor, link>>
    BY <1>13 DEF SmReceives, Tracking, m
  <2>2. SessionType' /\ Only(c)
    BY <2>1, <1>1, <1>4, <1>8 DEF SessionType, Only
  <2>3. Hears(c, m.type)
    BY <2>1, <1>2, <1>5, <1>8, <1>13 DEF Hears
  <2>4. QED BY <2>1, <2>2, <2>3, <1>13 DEF SessionInv
<1>14. CASE m.type = "Close"
  <2>1. link' = link \ {c} /\ Forget(c)
    BY <1>14 DEF SmReceives, m
  <2>2. SessionType' /\ Only(c)
    BY <2>1, <1>1, <1>4, <1>8 DEF SessionType, Only, Forget
  <2>3. Drops(c)
    BY <2>1, <2>2, <1>8 DEF Drops, State, Granted
  <2>4. /\ interactWanted' \subseteq interactWanted
        /\ interactor' \subseteq interactor
    BY <2>1 DEF Forget
  <2>5. QED BY <2>2, <2>3, <2>4 DEF SessionInv
<1>15. QED BY <1>6, <1>9, <1>10, <1>11, <1>12, <1>13, <1>14

\* What the manager hears keeps the invariant.
LEMMA HearsKeeps ==
    ASSUME SessionInv, NEW c \in Clients,
           NEW h \in {"SaveYourselfDone", "Phase2Request", "RequestSave",
                      "InteractRequest", "InteractDone", "SetProperties"},
           Hears(c, h), SessionType', Only(c),
           phase = "cancelled" => interactWanted' = {} /\ interactor' = {}
    PROVE  SessionInv'
<1>1. /\ c \in link /\ UNCHANGED link
      /\ owed'[c] = IF h = "SaveYourselfDone" THEN owed[c] - 1 ELSE owed[c]
      /\ c \in phase2Wanted' <=>
            \/ h = "Phase2Request"
            \/ c \in phase2Wanted /\ h # "SaveYourselfDone"
      /\ c \in interactWanted' <=>
            \/ h = "InteractRequest" /\ phase # "cancelled"
            \/ c \in interactWanted
      /\ c \in interactor' <=> c \in interactor /\ h # "InteractDone"
      /\ UNCHANGED <<session, phase, connection, priv, toClient>>
  BY DEF Hears
<1> DEFINE q == toClient[c]  a == toSM[c]  b == toSM'[c]
<1>2. Received(a, b, h)
  BY DEF Hears
<1>3. /\ Sane(c) /\ Owing(c) /\ Settled(c)
      /\ Delivered(c) /\ Wanting(c) /\ Granting(c)
  BY OneClient
<1>4. /\ Pending(q, "SaveYourself") \in Nat /\ owed[c] \in Nat
  BY OneClient, PendingType
<1>5. /\ State(c)' = State(c) /\ Granted(c)' = Granted(c)
      /\ c \in Members' <=> c \in Members
  BY <1>1 DEF State, Granted, Members
<1> HIDE DEF q, a, b
<1>6. Sane(c)'
  BY <1>1, <1>3, <1>5 DEF Sane
<1>7. Owing(c)'
  <2>1. /\ Answers(c) \in Nat /\ Answers(c)' \in Nat
        /\ Answers(c) = IF h = "SaveYourselfDone" THEN Answers(c)' + 1
                        ELSE Answers(c)'
    BY <1>1, <1>2, <1>4, <1>5 DEF Answers, Received, q, a, b
  <2>2. CASE h = "SaveYourselfDone"
    <3>1. owed'[c] = owed[c] - 1 /\ Answers(c) = Answers(c)' + 1
      BY <2>1, <2>2, <1>1
    <3>2. QED BY <2>1, <3>1, <1>1, <1>3, <1>4, <1>5 DEF Owing
  <2>3. CASE h # "SaveYourselfDone"
    <3>1. owed'[c] = owed[c] /\ Answers(c) = Answers(c)'
      BY <2>1, <2>3, <1>1
    <3>2. QED BY <3>1, <1>1, <1>3, <1>5 DEF Owing
  <2>4. QED BY <2>2, <2>3
<1>8. Settled(c)'
  <2>1. SUFFICES ASSUME phase # "dying" PROVE Settled(c)'
    BY <1>1 DEF Settled
  <2>2. \/ State(c) \in {"PHASE2_REQUESTED", "INTERACT_REQUESTED_PHASE2"}
        \/ /\ Followed(b, "Phase2Request", "SaveYourselfDone")
           /\ c \in phase2Wanted' => Has(b, "SaveYourselfDone")
    BY <2>1, <1>1, <1>2, <1>3 DEF Settled, Received, a
  <2>3. \/ State(c) \in Interacting
        \/ Followed(b, "InteractRequest", "SaveYourselfDone")
    BY <2>1, <1>1, <1>2, <1>3 DEF Settled, Received, a
  <2>4. Followed(b, "InteractDone", "SaveYourselfDone")
    BY <2>1, <1>1, <1>2, <1>3 DEF Settled, Received, a
  <2>5. QED BY <2>2, <2>3, <2>4, <1>5 DEF Settled, b
<1>9. Delivered(c)'
  <2>1. phase \in Live /\ c \in interactor /\ c \notin interactor' =>
           ~Has(q, "Interact")
    BY <1>1, <1>2, <1>3 DEF Granting, AwaitsGrant, Received, q, a
  <2>2. QED
    BY <2>1, <1>1, <1>3, <1>5, AfterHas DEF Delivered, LeftOver, q
<1>10. Wanting(c)'
  BY <1>1, <1>2, <1>3, <1>5 DEF Wanting, Received, a, b
<1>11. Granting(c)'
  <2>1. SUFFICES ASSUME phase \in Live PROVE Granting(c)'
    BY <1>1 DEF Granting
  <2>2. Granting(c) /\ c \in link
    BY <1>1, <1>3
  <2>3. CASE h = "InteractRequest"
    <3>1. /\ Has(a, "InteractRequest") /\ ~Has(b, "InteractRequest")
          /\ After(a, "InteractRequest", "InteractDone")
                <=> \/ After(b, "InteractRequest", "InteractDone")
                    \/ Has(b, "InteractDone")
          /\ Has(a, "InteractDone") <=> Has(b, "InteractDone")
      BY <2>1, <2>2, <2>3, <1>2 DEF Granting, Received, a
    <3>2. /\ State(c) \in Interacting /\ ~Granted(c) /\ c \notin interactWanted
          /\ ~Has(q, "Interact")
      BY <2>1, <2>2, <3>1 DEF Granting, a, q
    <3>3. c \notin interactor /\ ~Has(a, "InteractDone")
      BY <2>1, <2>2, <3>1 DEF Granting, AwaitsGrant, a
    <3>4. c \in interactWanted' /\ c \notin interactor'
      BY <2>1, <2>3, <3>3, <1>1 DEF Live
    <3>5. QED
      BY <3>1, <3>2, <3>3, <3>4, <1>1, <1>5 DEF Granting, AwaitsGrant, q, b
  <2>4. CASE h = "InteractDone"
    <3>1. /\ Has(a, "InteractDone")
          /\ Has(a, "InteractRequest") <=> Has(b, "InteractRequest")
          /\ Once(a, "InteractRequest") => Once(b, "InteractRequest")
      BY <2>4, <1>2 DEF Received
    <3>2. /\ c \in interactor /\ Once(a, "InteractDone") /\ ~Granted(c)
          /\ ~Has(q, "Interact") /\ c \notin interactWanted
      BY <2>1, <2>2, <3>1 DEF Granting, AwaitsGrant, a, q
    <3>3. ~Has(b, "InteractDone") /\ c \notin interactor'
      BY <3>2, <2>4, <1>1, <1>2 DEF Received
    <3>4. c \notin interactWanted'
      BY <3>2, <2>4, <1>1
    <3>5. QED
      BY <2>1, <2>2, <3>1, <3>2, <3>3, <3>4, <1>1, <1>5
      DEF Granting, q, a, b
  <2>5. CASE h \notin {"InteractRequest", "InteractDone"}
    <3>1. /\ Has(a, "InteractDone") <=> Has(b, "InteractDone")
          /\ Has(a, "InteractRequest") <=> Has(b, "InteractRequest")
          /\ Once(a, "InteractRequest") => Once(b, "InteractRequest")
          /\ Once(a, "InteractDone") => Once(b, "InteractDone")
          /\ After(a, "InteractRequest", "InteractDone")
                <=> After(b, "InteractRequest", "InteractDone")
      BY <2>5, <1>2 DEF Received
    <3>2. /\ c \in interactWanted' <=> c \in interactWanted
          /\ c \in interactor' <=> c \in interactor
      BY <2>5, <1>1
    <3>3. QED
      BY <2>1, <2>2, <3>1, <3>2, <1>1, <1>5 DEF Granting, AwaitsGrant, a, b
  <2>6. QED BY <2>3, <2>4, <2>5
<1>12. /\ InPhase2(c)' => InPhase2(c)
       /\ BeyondPhase1(c) => BeyondPhase1(c)'
  BY <1>1, <1>5 DEF InPhase2, BeyondPhase1
<1>13. QED
  BY <1>1, <1>5, <1>6, <1>7, <1>8, <1>9, <1>10, <1>11, <1>12, OneSteps
  DEF ClientInv

-----------------------------------------------------------------------------
(* What the manager does to one client.                                    *)

\* Nobody is in phase 2 before it starts.
LEMMA CalmApart ==
    ASSUME SessionType', phase' \in Calm, \A c \in Clients : ClientInv(c)'
    PROVE  Apart'
<1>1. Members' \subseteq Clients
  BY DEF Members, SessionType
<1>2. ASSUME NEW c \in Members' PROVE ~InPhase2(c)'
  <2>1. Delivered(c)'
    BY <1>1, <1>2 DEF ClientInv
  <2>2. QED BY <2>1, <1>2 DEF Delivered, InPhase2, LeftOver
<1>3. QED BY <1>2 DEF Apart

\* Outside phase 2, it is enough to look at the client that steps.
LEMMA OneStepsCalm ==
    ASSUME SessionInv, SessionType', UNCHANGED <<session, phase>>,
           NEW c \in Clients, Only(c), ClientInv(c)', phase \in Calm
    PROVE  SessionInv'
<1>1. \A d \in Clients \ {c} : ClientInv(d)'
  BY Untouched DEF Only, SessionInv
<1>2. Apart'
  BY <1>1, CalmApart
<1>3. QED BY <1>1, <1>2 DEF SessionInv, Calm

\* A message from the manager.
ManagersTypes == {"SaveYourself", "SaveYourselfPhase2", "Interact",
                  "SaveComplete", "ShutdownCancelled", "Die"}

\* The types of the manager's messages.
LEMMA ManagersMessages ==
    /\ \A kind \in Kinds : kind \in FromManager /\ kind.type = "SaveYourself"
    /\ \A t \in ManagersTypes \ {"SaveYourself"} :
          Message(t) \in FromManager /\ Message(t).type = t
    /\ InitialSave \in FromManager /\ InitialSave.type = "SaveYourself"
<1>1. \A kind \in Kinds : kind \in FromManager /\ kind.type = "SaveYourself"
  BY KindsAssumption DEF FromManager
<1>2. \A t \in ManagersTypes \ {"SaveYourself"} :
         Message(t) \in FromManager /\ Message(t).type = t
  BY DEF Message, FromManager, ManagersTypes
<1>3. InitialSave \in FromManager /\ InitialSave.type = "SaveYourself"
  BY DEF InitialSave, FromManager
<1>4. QED BY <1>1, <1>2, <1>3

\* A message of type h at the end of a queue of the manager.
Queued(q, r, h) ==
    /\ \A t : /\ Has(r, t) <=> Has(q, t) \/ h = t
              /\ Once(q, t) /\ ~(h = t /\ Has(q, t)) => Once(r, t)
              /\ Pending(r, t) = Pending(q, t) + (IF h = t THEN 1 ELSE 0)
    /\ \A s, t : After(r, s, t) <=> After(q, s, t) \/ (Has(q, s) /\ h = t)

\* A message to some clients lengthens their queues.
LEMMA ToAllIs ==
    ASSUME SessionType, NEW S, NEW m \in FromManager, ToAll(S, m)
    PROVE  /\ toClient' \in [Clients -> Seq(FromManager)]
           /\ \A d \in Clients :
                 /\ d \in S \cap connection =>
                       Queued(toClient[d], toClient'[d], m.type)
                 /\ d \notin S \cap connection => toClient'[d] = toClient[d]
<1>1. \A d \in Clients : /\ toClient[d] \in Seq(FromManager)
                         /\ Append(toClient[d], m) \in Seq(FromManager)
  BY DEF SessionType
<1>2. toClient' \in [Clients -> Seq(FromManager)]
  BY <1>1 DEF ToAll
<1>3. ASSUME NEW d \in Clients
      PROVE  /\ d \in S \cap connection =>
                   Queued(toClient[d], toClient'[d], m.type)
             /\ d \notin S \cap connection => toClient'[d] = toClient[d]
  <2>1. d \notin S \cap connection => toClient'[d] = toClient[d]
    BY DEF ToAll
  <2>2. CASE d \in S \cap connection
    <3>1. toClient'[d] = Append(toClient[d], m)
      BY <2>2 DEF ToAll
    <3>2. Queued(toClient[d], Append(toClient[d], m), m.type)
      BY <1>1, HasAppend, OnceAppend, PendingAppend, AfterAppend DEF Queued
    <3>3. QED BY <3>1, <3>2, <2>2
  <2>3. QED BY <2>1, <2>2
<1>4. QED BY <1>2, <1>3

\* The manager asks for another save.
LEMMA SaveAgainKeeps ==
    ASSUME SessionInv, NEW c \in Clients, NEW kind \in Kinds,
           SmSaveAgain(c, kind)
    PROVE  SessionInv'
<1>1. /\ session.overlap /\ phase = "saving" /\ owed[c] = 1
      /\ ToAll({c}, kind) /\ owed' = [owed EXCEPT ![c] = owed[c] + 1]
      /\ saved' = saved + 1
      /\ UNCHANGED <<priv, connection, link, properties, toSM, dialogs, told,
                     session, phase, shutdown, phase2Wanted, interactWanted,
                     interactor>>
  BY DEF SmSaveAgain, ManagerOnly, application
<1> DEFINE q == toClient[c]  r == toClient'[c]
<1>2. /\ SessionType /\ owed[c] \in Nat
      /\ Sane(c) /\ Owing(c) /\ Settled(c)
      /\ Delivered(c) /\ Wanting(c) /\ Granting(c)
      /\ Pending(toSM[c], "SaveYourselfDone") \in Nat
      /\ Pending(q, "SaveYourself") \in Nat
  BY OneClient, PendingType
<1>3. kind \in FromManager /\ kind.type = "SaveYourself"
  BY ManagersMessages
<1>4. /\ toClient' \in [Clients -> Seq(FromManager)]
      /\ c \in connection => Queued(q, r, "SaveYourself")
      /\ c \notin connection => r = q
      /\ \A d \in Clients \ {c} : toClient'[d] = toClient[d]
  BY <1>1, <1>2, <1>3, ToAllIs
<1> HIDE DEF q, r
<1>5. SessionType' /\ Only(c)
  BY <1>1, <1>2, <1>4 DEF SessionType, Only
<1>6. /\ State(c)' = State(c) /\ Granted(c)' = Granted(c)
      /\ c \in Members' <=> c \in Members
      /\ owed'[c] = owed[c] + 1 /\ phase \in Live /\ phase \in Calm
  BY <1>1, <1>2 DEF State, Granted, Members, SessionType, Live, Calm
<1>7. c \in link
  BY <1>1, <1>2 DEF Sane
<1>8. \A t : t # "SaveYourself" =>
         /\ Has(r, t) <=> Has(q, t)
         /\ Once(q, t) => Once(r, t)
         /\ \A s : After(r, s, t) <=> After(q, s, t)
  BY <1>4 DEF Queued
<1>9. Sane(c)'
  BY <1>1, <1>2, <1>6, <1>7 DEF Sane
<1>10. Owing(c)'
  <2>1. Pending(r, "SaveYourself") <= Pending(q, "SaveYourself") + 1
        /\ Pending(r, "SaveYourself") \in Nat
    BY <1>2, <1>4 DEF Queued
  <2>2. /\ Answers(c)' <= Answers(c) + 1
        /\ Answers(c)' \in Nat /\ Answers(c) \in Nat
    BY <2>1, <1>1, <1>2, <1>6 DEF Answers, q, r
  <2>3. QED BY <2>2, <1>1, <1>2, <1>6, <1>7 DEF Owing
<1>11. Settled(c)'
  BY <1>1, <1>2, <1>6 DEF Settled
<1>12. Delivered(c)'
  <2>1. c \in Members => ~After(q, "SaveYourself", "SaveYourselfPhase2")
    BY <1>2, <1>6 DEF Delivered, LeftOver, q
  <2>2. QED BY <2>1, <1>1, <1>2, <1>6, <1>8 DEF Delivered, LeftOver, q, r
<1>13. Wanting(c)'
  BY <1>1, <1>2, <1>6 DEF Wanting
<1>14. Granting(c)'
  <2>1. /\ Has(r, "Interact") <=> Has(q, "Interact")
        /\ Once(q, "Interact") => Once(r, "Interact")
    BY <1>8
  <2>2. QED BY <2>1, <1>1, <1>2, <1>6 DEF Granting, AwaitsGrant, q, r
<1>15. QED
  BY <1>1, <1>5, <1>6, <1>9, <1>10, <1>11, <1>12, <1>13, <1>14, OneStepsCalm
  DEF ClientInv

\* The manager lets a client interact.
LEMMA GrantKeeps ==
    ASSUME SessionInv, SmGrantInteract
    PROVE  SessionInv'
<1>1. PICK c \in interactWanted :
         /\ interactor = {} /\ interactor' = {c}
         /\ interactWanted' = interactWanted \ {c}
         /\ ToAll({c}, Message("Interact"))
  BY DEF SmGrantInteract
<1>2. UNCHANGED <<priv, connection, link, properties, toSM, dialogs, told,
                  session, phase, shutdown, saved, owed, phase2Wanted>>
  BY DEF SmGrantInteract, ManagerOnly, application
<1> DEFINE q == toClient[c]  r == toClient'[c]
<1>3. c \in Clients
  BY DEF SessionInv, SessionType
<1>4. /\ SessionType
      /\ Sane(c) /\ Owing(c) /\ Settled(c)
      /\ Delivered(c) /\ Wanting(c) /\ Granting(c)
      /\ Pending(q, "SaveYourself") \in Nat
  BY <1>3, OneClient, PendingType
<1>5. /\ Message("Interact") \in FromManager
      /\ Message("Interact").type = "Interact"
  BY ManagersMessages DEF ManagersTypes
<1>6. /\ toClient' \in [Clients -> Seq(FromManager)]
      /\ c \in connection => Queued(q, r, "Interact")
      /\ c \notin connection => r = q
      /\ \A d \in Clients \ {c} : toClient'[d] = toClient[d]
  BY <1>1, <1>3, <1>4, <1>5, ToAllIs
<1> HIDE DEF q, r
<1>7. SessionType'
  BY <1>1, <1>2, <1>3, <1>4, <1>6 DEF SessionType
<1>8. Only(c)
  BY <1>1, <1>2, <1>6 DEF Only
<1>9. /\ State(c)' = State(c) /\ Granted(c)' = Granted(c)
      /\ c \in Members' <=> c \in Members
      /\ c \in interactor' /\ c \notin interactWanted'
      /\ phase # "cancelled" /\ c \notin interactor
  BY <1>1, <1>2 DEF State, Granted, Members, SessionInv
<1>10. /\ Pending(r, "SaveYourself") = Pending(q, "SaveYourself")
       /\ \A t : t # "Interact" =>
            /\ Has(r, t) <=> Has(q, t)
            /\ \A s : After(r, s, t) <=> After(q, s, t)
  BY <1>4, <1>6 DEF Queued
<1>11. Sane(c)'
  BY <1>1, <1>2, <1>4, <1>9 DEF Sane
<1>12. Owing(c)'
  <2>1. Answers(c)' = Answers(c)
    BY <1>2, <1>9, <1>10 DEF Answers, q, r
  <2>2. QED BY <2>1, <1>2, <1>4, <1>9 DEF Owing
<1>13. Settled(c)'
  BY <1>2, <1>4, <1>9 DEF Settled
<1>14. Delivered(c)'
  <2>1. Orderly(q) => Orderly(r)
    BY <1>10 DEF Orderly
  <2>2. QED BY <2>1, <1>2, <1>4, <1>9, <1>10 DEF Delivered, LeftOver, q, r
<1>15. Wanting(c)'
  BY <1>2, <1>4, <1>9 DEF Wanting
<1>16. Granting(c)'
  <2>1. SUFFICES ASSUME c \in link, phase \in Live PROVE Granting(c)'
    BY <1>2 DEF Granting
  <2>2. AwaitsGrant(c) /\ ~Has(q, "Interact")
    BY <2>1, <1>1, <1>4 DEF Granting, q
  <2>3. c \in connection
    BY <2>2, <1>4 DEF AwaitsGrant, Sane, Interacting
  <2>4. Has(r, "Interact") /\ Once(r, "Interact")
    BY <2>2, <2>3, <1>6, NoneOnce DEF Queued
  <2>5. QED BY <2>2, <2>4, <1>2, <1>9 DEF Granting, AwaitsGrant, r
<1>17. /\ InPhase2(c)' => InPhase2(c)
       /\ BeyondPhase1(c) => BeyondPhase1(c)'
  BY <1>9, <1>10 DEF InPhase2, BeyondPhase1, Orderly, q, r
<1>18. QED
  BY <1>2, <1>3, <1>7, <1>8, <1>9, <1>11, <1>12, <1>13, <1>14, <1>15, <1>16,
     <1>17, OneSteps
  DEF ClientInv

\* A client joins.
LEMMA JoinsKeeps ==
    ASSUME SessionInv, NEW c \in Clients, NEW known \in BOOLEAN,
           NEW initial \in BOOLEAN, Joins(c, known, initial)
    PROVE  SessionInv'
<1>1. /\ phase = "running" /\ c \notin connection \cup link
      /\ connection' = connection \cup {c} /\ link' = link \cup {c}
      /\ priv' = [priv EXCEPT ![c].state = "IDLE",
                              ![c].ignore_next_save = ~known]
      /\ toClient' = [toClient EXCEPT ![c] =
                        IF initial THEN <<InitialSave>> ELSE <<>>]
      /\ toSM' = [toSM EXCEPT ![c] =
                    IF properties[c] = <<>> THEN <<>>
                    ELSE <<SetProperties(properties[c])>>]
      /\ owed' = [owed EXCEPT ![c] = IF initial THEN 1 ELSE 0]
      /\ UNCHANGED <<properties, dialogs, told, session, phase, shutdown,
                     saved, phase2Wanted, interactWanted, interactor>>
  BY DEF Joins, Connect, application
<1> DEFINE r == toClient'[c]  b == toSM'[c]
<1>2. SessionType /\ Sane(c) /\ priv[c] \in Private
  BY OneClient
<1>3. /\ toClient' \in [Clients -> Seq(FromManager)]
      /\ \A d \in Clients \ {c} : toClient'[d] = toClient[d]
      /\ r = IF initial THEN <<InitialSave>> ELSE <<>>
  BY <1>1, <1>2, ManagersMessages DEF SessionType
<1>4. /\ toSM' \in [Clients -> Seq(FromClient)]
      /\ \A d \in Clients \ {c} : toSM'[d] = toSM[d]
      /\ \/ b = <<>>
         \/ b = <<SetProperties(properties[c])>>
  <2>1. SetProperties(properties[c]) \in FromClient
    BY <1>2 DEF SessionType, SetProperties, FromClient
  <2>2. QED BY <1>1, <1>2, <2>1 DEF SessionType
<1>5. /\ priv' \in [Clients -> Private]
      /\ \A d \in Clients \ {c} : priv'[d] = priv[d]
      /\ State(c)' = "IDLE" /\ Granted(c)' = Granted(c)
  BY <1>1, <1>2 DEF SessionType, Private, PrivateIn, States, State, Granted
<1>6. /\ owed' \in [Clients -> Nat]
      /\ owed'[c] = IF initial THEN 1 ELSE 0
      /\ \A d \in Clients \ {c} : owed'[d] = owed[d]
  BY <1>1, <1>2 DEF SessionType
<1> HIDE DEF r, b
<1>7. SessionType'
  BY <1>1, <1>2, <1>3, <1>4, <1>5, <1>6 DEF SessionType
<1>8. Only(c)
  BY <1>1, <1>3, <1>4, <1>5, <1>6 DEF Only
<1>9. /\ State(c) = "DISCONNECTED" /\ ~Granted(c)'
      /\ c \notin phase2Wanted /\ c \notin interactWanted /\ c \notin interactor
  BY <1>1, <1>2, <1>5 DEF Sane, Interacting
<1>10. \A t : t # "SetProperties" => ~Has(b, t) /\ Pending(b, t) = 0
  <2>1. \A t : t # "SetProperties" => ~Has(b, t)
    <3>1. b = <<>> => \A t : ~Has(b, t)
      BY DEF Has
    <3>2. b = <<SetProperties(properties[c])>> =>
             \A t : t # "SetProperties" => ~Has(b, t)
      BY DEF Has, SetProperties
    <3>3. QED BY <3>1, <3>2, <1>4
  <2>2. b \in Seq(FromClient)
    BY <1>4 DEF b
  <2>3. \A t : /\ Pending(b, t) \in Nat
               /\ Pending(b, t) > 0 <=> Has(b, t)
    BY <2>2, PendingType
  <2>4. QED BY <2>1, <2>3
<1>11. \A t : t # "SaveYourself" => ~Has(r, t)
  <2>1. InitialSave.type = "SaveYourself"
    BY ManagersMessages
  <2>2. r = <<>> => \A t : ~Has(r, t)
    BY DEF Has
  <2>3. r = <<InitialSave>> => \A t : t # "SaveYourself" => ~Has(r, t)
    BY <2>1 DEF Has
  <2>4. QED BY <2>2, <2>3, <1>3
<1>12. Pending(r, "SaveYourself") = IF initial THEN 1 ELSE 0
  <2>1. ASSUME NEW e \in Seq(FromManager), e = <<>>
        PROVE  /\ Pending(e, "SaveYourself") = 0
               /\ Pending(Append(e, InitialSave), "SaveYourself") = 1
    <3>1. ~Has(e, "SaveYourself")
      BY <2>1 DEF Has
    <3>2. Pending(e, "SaveYourself") = 0
      <4>1. /\ Pending(e, "SaveYourself") \in Nat
            /\ Pending(e, "SaveYourself") > 0 <=> Has(e, "SaveYourself")
        BY PendingType
      <4>2. QED BY <3>1, <4>1
    <3>3. Pending(Append(e, InitialSave), "SaveYourself")
             = Pending(e, "SaveYourself") + 1
      BY PendingAppend, ManagersMessages
    <3>4. QED BY <3>2, <3>3
  <2>2. <<>> \in Seq(FromManager) /\ Append(<<>>, InitialSave) = <<InitialSave>>
    OBVIOUS
  <2>3. PICK e \in Seq(FromManager) :
           e = <<>> /\ Append(e, InitialSave) = <<InitialSave>>
    BY <2>2
  <2>4. r = IF initial THEN Append(e, InitialSave) ELSE e
    BY <1>3, <2>3
  <2>5. QED BY <2>1, <2>3, <2>4
<1>13. c \in Members'
  BY <1>1 DEF Members
<1>14. Sane(c)'
  BY <1>1, <1>5, <1>9 DEF Sane
<1>15. Owing(c)'
  <2>1. Answers(c)' = owed'[c]
    BY <1>1, <1>5, <1>6, <1>10, <1>12 DEF Answers, r, b
  <2>2. QED BY <2>1, <1>6 DEF Owing
<1>16. Settled(c)'
  <2>1. \A t : t # "SetProperties" => Followed(b, t, "SaveYourselfDone")
    BY <1>10 DEF Followed, Has
  <2>2. QED BY <2>1, <1>1, <1>9 DEF Settled, b
<1>17. Delivered(c)'
  <2>1. \A t : t # "SaveYourself" => ~After(r, "SaveYourself", t)
    BY <1>11, AfterHas
  <2>2. QED BY <2>1, <1>5, <1>11 DEF Delivered, LeftOver, r
<1>18. Wanting(c)' /\ Granting(c)'
  BY <1>1, <1>9, <1>10 DEF Wanting, Granting, b
<1>19. phase \in Calm
  BY <1>1 DEF Calm
<1>20. QED
  BY <1>1, <1>7, <1>8, <1>14, <1>15, <1>16, <1>17, <1>18, <1>19, OneStepsCalm
  DEF ClientInv

-----------------------------------------------------------------------------
(* What the manager does to all clients.                                   *)

\* Nobody owes an answer: then nothing of a save is left.
LEMMA NobodyBusy ==
    ASSUME SessionInv, Busy = {}, NEW c \in Clients
    PROVE  /\ owed[c] = 0
           /\ c \in link =>
                 /\ ~Has(toSM[c], "SaveYourselfDone") /\ Answers(c) = 0
                 /\ State(c) \in {"IDLE", "DISCONNECTED"}
                 /\ ~Granted(c)
           /\ c \in Members =>
                 State(c) = "IDLE" /\ ~Has(toClient[c], "SaveYourself")
<1>1. /\ Sane(c) /\ Owing(c) /\ owed[c] \in Nat
      /\ toSM[c] \in Seq(FromClient) /\ toClient[c] \in Seq(FromManager)
  BY OneClient
<1>2. /\ Pending(toSM[c], "SaveYourselfDone") \in Nat
      /\ Pending(toSM[c], "SaveYourselfDone") > 0
            <=> Has(toSM[c], "SaveYourselfDone")
      /\ Pending(toClient[c], "SaveYourself") \in Nat
      /\ Pending(toClient[c], "SaveYourself") > 0
            <=> Has(toClient[c], "SaveYourself")
  BY <1>1, PendingType
<1>3. owed[c] = 0
  BY <1>1 DEF Busy
<1>4. c \in link => /\ Pending(toSM[c], "SaveYourselfDone") = 0
                    /\ c \in connection =>
                          /\ Pending(toClient[c], "SaveYourself") = 0
                          /\ State(c) = "IDLE"
                    /\ Answers(c) = 0
  BY <1>1, <1>2, <1>3 DEF Owing, Answers
<1>5. QED BY <1>1, <1>2, <1>3, <1>4 DEF Sane, Members, Interacting

\* What a step of the manager leaves alone.
LEMMA ManagerLeaves ==
    ASSUME ManagerOnly, NEW c \in Clients
    PROVE  /\ UNCHANGED <<priv, connection, link, properties, toSM, dialogs,
                          told, session>>
           /\ State(c)' = State(c) /\ Granted(c)' = Granted(c)
           /\ c \in Members' <=> c \in Members
BY DEF ManagerOnly, application, State, Granted, Members

\* The manager starts a save.
LEMMA SaveKeeps ==
    ASSUME SessionInv, NEW S, NEW kind \in Kinds, SmSave(S, kind)
    PROVE  SessionInv'
<1>1. /\ phase = "running" /\ Busy = {} /\ S \subseteq link
      /\ ToAll(S, kind)
      /\ owed' = [d \in Clients |-> IF d \in S THEN 1 ELSE 0]
      /\ phase' = "saving" /\ shutdown' = kind.shutdown /\ saved' = saved + 1
      /\ ManagerOnly
      /\ UNCHANGED <<phase2Wanted, interactWanted, interactor>>
  BY DEF SmSave
<1>2. SessionType
  BY DEF SessionInv
<1>3. /\ kind \in FromManager /\ kind.type = "SaveYourself"
      /\ kind.shutdown \in BOOLEAN
  BY KindsAssumption, ManagersMessages
<1>4. /\ toClient' \in [Clients -> Seq(FromManager)]
      /\ \A d \in Clients :
            /\ d \in S \cap connection =>
                  Queued(toClient[d], toClient'[d], "SaveYourself")
            /\ d \notin S \cap connection => toClient'[d] = toClient[d]
  BY <1>1, <1>2, <1>3, ToAllIs
<1>5. SessionType'
  BY <1>1, <1>2, <1>3, <1>4 DEF SessionType, ManagerOnly, application
<1>6. ASSUME NEW c \in Clients PROVE ClientInv(c)'
  <2> DEFINE q == toClient[c]  r == toClient'[c]
  <2>1. /\ UNCHANGED <<priv, connection, link, toSM, session>>
        /\ State(c)' = State(c) /\ Granted(c)' = Granted(c)
        /\ c \in Members' <=> c \in Members
    BY <1>1, ManagerLeaves
  <2>2. /\ Sane(c) /\ Owing(c) /\ Settled(c)
        /\ Delivered(c) /\ Wanting(c) /\ Granting(c)
        /\ Pending(toSM[c], "SaveYourselfDone") \in Nat
        /\ Pending(q, "SaveYourself") \in Nat
    BY OneClient, PendingType
  <2>3. /\ owed[c] = 0
        /\ c \in link => Answers(c) = 0
        /\ c \in Members => State(c) = "IDLE" /\ ~Has(q, "SaveYourself")
    BY <1>1, NobodyBusy
  <2>4. owed'[c] = IF c \in S THEN 1 ELSE 0
    BY <1>1
  <2> HIDE DEF q, r
  <2>5. \A t : t # "SaveYourself" =>
           /\ Has(r, t) <=> Has(q, t)
           /\ Once(q, t) => Once(r, t)
           /\ \A u : After(r, u, t) <=> After(q, u, t)
    <3>1. CASE c \in S \cap connection
      BY <3>1, <1>4 DEF Queued, q, r
    <3>2. CASE c \notin S \cap connection
      BY <3>2, <1>4 DEF q, r
    <3>3. QED BY <3>1, <3>2
  <2>6. phase \in Live /\ phase' \in Live /\ phase \in Calm /\ phase' \in Calm
    BY <1>1 DEF Live, Calm
  <2>7. Sane(c)'
    BY <1>1, <2>1, <2>2, <2>4 DEF Sane
  <2>8. Owing(c)'
    <3>1. CASE c \in S \cap connection
      <4>1. Pending(r, "SaveYourself") = Pending(q, "SaveYourself") + 1
        BY <3>1, <1>4 DEF Queued, q, r
      <4>2. Answers(c)' = Answers(c) + 1
        BY <4>1, <3>1, <2>1, <2>2 DEF Answers, q, r
      <4>3. Answers(c) = 0 /\ owed'[c] = 1
        BY <3>1, <1>1, <2>3, <2>4
      <4>4. QED BY <4>2, <4>3 DEF Owing
    <3>2. CASE c \notin S \cap connection
      <4>1. r = q
        BY <3>2, <1>4 DEF q, r
      <4>2. Answers(c)' = Answers(c)
        BY <4>1, <2>1 DEF Answers, q, r
      <4>3. c \in Members => owed'[c] = 0
        BY <3>2, <2>4 DEF Members
      <4>4. owed'[c] \in {0, 1}
        BY <2>4
      <4>5. QED BY <4>2, <4>3, <4>4, <2>1, <2>3 DEF Owing, Members
    <3>3. QED BY <3>1, <3>2
  <2>9. Settled(c)'
    BY <1>1, <2>1, <2>2 DEF Settled
  <2>10. Delivered(c)'
    <3>1. c \in Members => ~After(q, "SaveYourself", "SaveYourselfPhase2")
      BY <2>2, <2>6 DEF Delivered, LeftOver, q
    <3>2. QED
      BY <3>1, <1>1, <2>1, <2>2, <2>5, <2>6 DEF Delivered, LeftOver, q, r
  <2>11. Wanting(c)'
    BY <1>1, <2>1, <2>2, <2>6 DEF Wanting
  <2>12. Granting(c)'
    <3>1. /\ Has(r, "Interact") <=> Has(q, "Interact")
          /\ Once(q, "Interact") => Once(r, "Interact")
      BY <2>5
    <3>2. QED
      BY <3>1, <1>1, <2>1, <2>2, <2>6 DEF Granting, AwaitsGrant, q, r
  <2>13. QED
    BY <2>7, <2>8, <2>9, <2>10, <2>11, <2>12 DEF ClientInv
<1>7. Apart'
  BY <1>1, <1>5, <1>6, CalmApart DEF Calm
<1>8. QED BY <1>1, <1>5, <1>6, <1>7 DEF SessionInv

\* Phase 2 begins.
LEMMA Phase2Keeps ==
    ASSUME SessionInv, SmPhase2
    PROVE  SessionInv'
<1>1. /\ phase = "saving" /\ Busy \subseteq phase2Wanted
      /\ ToAll(Busy, Message("SaveYourselfPhase2"))
      /\ phase' = "phase2" /\ ManagerOnly
      /\ UNCHANGED <<shutdown, saved, owed, phase2Wanted, interactWanted,
                     interactor>>
  BY DEF SmPhase2, Tracking
<1>2. SessionType
  BY DEF SessionInv
<1>3. /\ Message("SaveYourselfPhase2") \in FromManager
      /\ Message("SaveYourselfPhase2").type = "SaveYourselfPhase2"
  BY ManagersMessages DEF ManagersTypes
<1>4. /\ toClient' \in [Clients -> Seq(FromManager)]
      /\ \A d \in Clients :
            /\ d \in Busy \cap connection =>
                  Queued(toClient[d], toClient'[d], "SaveYourselfPhase2")
            /\ d \notin Busy \cap connection => toClient'[d] = toClient[d]
  BY <1>1, <1>2, <1>3, ToAllIs
<1>5. SessionType'
  BY <1>1, <1>2, <1>4 DEF SessionType, ManagerOnly, application
<1>6. phase \in Live /\ phase' \in Live /\ phase \in Calm /\ phase' \notin Calm
  BY <1>1 DEF Live, Calm
<1>7. ASSUME NEW c \in Clients
      PROVE  /\ ClientInv(c)'
             /\ c \in Members => BeyondPhase1(c)'
  <2> DEFINE q == toClient[c]  r == toClient'[c]
  <2>1. /\ UNCHANGED <<priv, connection, link, toSM, session>>
        /\ State(c)' = State(c) /\ Granted(c)' = Granted(c)
        /\ c \in Members' <=> c \in Members
    BY <1>1, ManagerLeaves
  <2>2. /\ Sane(c) /\ Owing(c) /\ Settled(c)
        /\ Delivered(c) /\ Wanting(c) /\ Granting(c)
        /\ owed[c] \in Nat
        /\ Pending(toSM[c], "SaveYourselfDone") \in Nat
        /\ Pending(q, "SaveYourself") \in Nat
        /\ Pending(q, "SaveYourself") > 0 <=> Has(q, "SaveYourself")
    BY OneClient, PendingType
  <2> HIDE DEF q, r
  <2>3. c \in Busy =>
           /\ c \in Members /\ State(c) = "PHASE2_REQUESTED"
           /\ \A t \in {"ShutdownCancelled", "SaveYourselfPhase2", "Die"} :
                 ~Has(q, t)
    <3>1. SUFFICES ASSUME c \in Busy
                   PROVE  /\ c \in Members /\ State(c) = "PHASE2_REQUESTED"
                          /\ \A t \in {"ShutdownCancelled",
                                       "SaveYourselfPhase2", "Die"} : ~Has(q, t)
      OBVIOUS
    <3>2. c \in link /\ c \in phase2Wanted
      BY <3>1, <1>1, <2>2 DEF Sane, Busy
    <3>3. State(c) = "PHASE2_REQUESTED"
      BY <3>2, <1>6, <2>2 DEF Wanting
    <3>4. c \in Members
      BY <3>2, <3>3, <2>2 DEF Sane, Members
    <3>5. QED BY <3>3, <3>4, <1>1, <1>6, <2>2 DEF Delivered, LeftOver, q
  <2>4. c \notin Busy /\ c \in Members =>
           State(c) = "IDLE" /\ ~Has(q, "SaveYourself")
    <3>1. SUFFICES ASSUME c \notin Busy, c \in Members
                   PROVE  State(c) = "IDLE" /\ ~Has(q, "SaveYourself")
      OBVIOUS
    <3>2. owed[c] = 0
      BY <3>1, <2>2 DEF Busy
    <3>3. Answers(c) <= 0
      BY <3>1, <3>2, <2>2 DEF Owing, Members
    <3>4. QED BY <3>1, <3>3, <2>2 DEF Answers, Members, q
  <2>5. /\ \A t : t # "SaveYourselfPhase2" =>
              /\ Has(r, t) <=> Has(q, t)
              /\ Once(q, t) => Once(r, t)
              /\ Pending(r, t) = Pending(q, t)
              /\ \A u : After(r, u, t) <=> After(q, u, t)
    <3>1. CASE c \in Busy \cap connection
      <4>1. Queued(q, r, "SaveYourselfPhase2")
        BY <3>1, <1>4 DEF q, r
      <4>2. \A t : Pending(q, t) \in Nat
        BY OneClient, PendingType DEF q
      <4>3. QED BY <4>1, <4>2 DEF Queued
    <3>2. CASE c \notin Busy \cap connection
      BY <3>2, <1>4 DEF q, r
    <3>3. QED BY <3>1, <3>2
  <2>6. c \in Busy => State(c) = "PHASE2_REQUESTED" /\ Orderly(r)
    BY <2>3, <2>5, AfterHas DEF Orderly
  <2>7. Sane(c)'
    BY <1>1, <2>1, <2>2 DEF Sane
  <2>8. Owing(c)'
    <3>1. Answers(c)' = Answers(c)
      BY <2>1, <2>5 DEF Answers, q, r
    <3>2. QED BY <3>1, <1>1, <2>1, <2>2 DEF Owing
  <2>9. Settled(c)'
    BY <1>1, <2>1, <2>2 DEF Settled
  <2>10. Delivered(c)'
    <3>1. c \in Members /\ After(r, "SaveYourself", "SaveYourselfPhase2") =>
             State(c) = "PHASE2_REQUESTED" /\ Orderly(r)
      <4>1. CASE c \in Busy
        BY <4>1, <2>6
      <4>2. CASE c \notin Busy
        BY <4>2, <2>4, <2>5, AfterHas
      <4>3. QED BY <4>1, <4>2
    <3>2. QED
      BY <3>1, <1>1, <1>6, <2>1, <2>2, <2>5 DEF Delivered, LeftOver, q, r
  <2>11. Wanting(c)'
    BY <1>6 DEF Wanting
  <2>12. Granting(c)'
    <3>1. /\ Has(r, "Interact") <=> Has(q, "Interact")
          /\ Once(q, "Interact") => Once(r, "Interact")
      BY <2>5
    <3>2. QED
      BY <3>1, <1>1, <1>6, <2>1, <2>2 DEF Granting, AwaitsGrant, q, r
  <2>13. c \in Members => BeyondPhase1(c)'
    <3>1. CASE c \in Busy
      BY <3>1, <2>1, <2>6 DEF BeyondPhase1, r
    <3>2. CASE c \notin Busy
      BY <3>2, <2>1, <2>4, <2>5 DEF BeyondPhase1, r
    <3>3. QED BY <3>1, <3>2
  <2>14. QED
    BY <2>7, <2>8, <2>9, <2>10, <2>11, <2>12, <2>13 DEF ClientInv
<1>8. Apart'
  <2>1. Members' = Members /\ Members \subseteq Clients
    BY <1>1, <1>2 DEF Members, ManagerOnly, SessionType
  <2>2. QED BY <2>1, <1>7 DEF Apart
<1>9. QED BY <1>1, <1>5, <1>7, <1>8 DEF SessionInv

\* A save has ended, and the session with it if it was a shutdown.
LEMMA CompleteKeeps ==
    ASSUME SessionInv, SmComplete
    PROVE  SessionInv'
<1>1. /\ phase \in {"saving", "phase2", "cancelled"} /\ Busy = {}
      /\ ManagerOnly /\ shutdown' = FALSE
      /\ UNCHANGED <<saved, owed, phase2Wanted, interactWanted, interactor>>
  BY DEF SmComplete, Tracking
<1>2. PICK t \in {"Die", "SaveComplete"} :
         /\ ToAll(link, Message(t))
         /\ phase' = IF t = "Die" THEN "dying" ELSE "running"
  BY DEF SmComplete
<1>3. SessionType
  BY DEF SessionInv
<1>4. Message(t) \in FromManager /\ Message(t).type = t
  BY ManagersMessages DEF ManagersTypes
<1>5. /\ toClient' \in [Clients -> Seq(FromManager)]
      /\ \A d \in Clients :
            /\ d \in link \cap connection =>
                  Queued(toClient[d], toClient'[d], t)
            /\ d \notin link \cap connection => toClient'[d] = toClient[d]
  BY <1>2, <1>3, <1>4, ToAllIs
<1>6. SessionType'
  BY <1>1, <1>2, <1>3, <1>5 DEF SessionType, ManagerOnly, application
<1>7. ASSUME NEW c \in Clients
      PROVE  /\ ClientInv(c)'
             /\ c \in Members => ~InPhase2(c)'
  <2> DEFINE q == toClient[c]  r == toClient'[c]  a == toSM[c]
  <2>1. /\ UNCHANGED <<priv, connection, link, toSM, session>>
        /\ State(c)' = State(c) /\ Granted(c)' = Granted(c)
        /\ c \in Members' <=> c \in Members
    BY <1>1, ManagerLeaves
  <2>2. /\ Sane(c) /\ Owing(c) /\ Settled(c)
        /\ Delivered(c) /\ Wanting(c) /\ Granting(c)
        /\ Pending(a, "SaveYourselfDone") \in Nat
        /\ Pending(q, "SaveYourself") \in Nat
    BY OneClient, PendingType
  <2>3. /\ owed[c] = 0
        /\ c \in link =>
              /\ ~Has(a, "SaveYourselfDone") /\ Answers(c) = 0
              /\ State(c) \in {"IDLE", "DISCONNECTED"}
              /\ ~Granted(c)
        /\ c \in Members => State(c) = "IDLE" /\ ~Has(q, "SaveYourself")
    BY <1>1, NobodyBusy
  <2> HIDE DEF q, r, a
  <2>4. \A k : k # t =>
           /\ Has(r, k) <=> Has(q, k)
           /\ Pending(r, k) = Pending(q, k)
    <3>1. CASE c \in link \cap connection
      <4>1. Queued(q, r, t)
        BY <3>1, <1>5 DEF q, r
      <4>2. \A k : Pending(q, k) \in Nat
        BY OneClient, PendingType DEF q
      <4>3. QED BY <4>1, <4>2 DEF Queued
    <3>2. CASE c \notin link \cap connection
      BY <3>2, <1>5 DEF q, r
    <3>3. QED BY <3>1, <3>2
  <2>5. phase # "dying"
    BY <1>1
  <2>6. c \in link =>
           /\ ~Has(a, "Phase2Request") /\ c \notin phase2Wanted
           /\ ~Has(a, "InteractRequest") /\ ~Has(a, "InteractDone")
    BY <2>2, <2>3, <2>5, FollowedHas DEF Settled, Interacting, a
  <2>7. c \in link => c \notin interactWanted /\ c \notin interactor
    <3>1. CASE phase = "cancelled"
      BY <3>1 DEF SessionInv
    <3>2. CASE phase # "cancelled"
      BY <3>2, <1>1, <2>2, <2>3, <2>6
      DEF Granting, AwaitsGrant, Live, Interacting, a
    <3>3. QED BY <3>1, <3>2
  <2>8. Sane(c)'
    BY <1>1, <2>1, <2>2 DEF Sane
  <2>9. Owing(c)'
    <3>1. Answers(c)' = Answers(c)
      BY <2>1, <2>4 DEF Answers, q, r
    <3>2. QED BY <3>1, <1>1, <2>1, <2>3 DEF Owing, Members
  <2>10. Settled(c)'
    BY <1>1, <2>1, <2>2, <2>5 DEF Settled
  <2>11. c \in Members => ~Has(r, "SaveYourself")
    BY <2>3, <2>4
  <2>12. c \in Members /\ Has(r, "Die") => phase' = "dying"
    <3>1. c \in Members => ~Has(q, "Die")
      BY <2>2, <2>5 DEF Delivered, q
    <3>2. QED BY <3>1, <1>2, <2>4
  <2>13. Delivered(c)'
    <3>1. c \in Members => \A k : ~After(r, "SaveYourself", k)
      BY <2>11, AfterHas
    <3>2. QED BY <3>1, <2>1, <2>3, <2>12 DEF Delivered, LeftOver, r
  <2>14. Wanting(c)'
    BY <1>1, <2>1, <2>6 DEF Wanting, a
  <2>15. Granting(c)'
    BY <1>1, <2>1, <2>3, <2>6, <2>7 DEF Granting, a
  <2>16. c \in Members => ~InPhase2(c)'
    BY <2>1, <2>3 DEF InPhase2
  <2>17. QED
    BY <2>8, <2>9, <2>10, <2>13, <2>14, <2>15, <2>16 DEF ClientInv
<1>8. Apart'
  <2>1. Members' = Members /\ Members \subseteq Clients
    BY <1>1, <1>3 DEF Members, ManagerOnly, SessionType
  <2>2. QED BY <2>1, <1>7 DEF Apart
<1>9. phase' # "cancelled"
  BY <1>2
<1>10. QED BY <1>6, <1>7, <1>8, <1>9 DEF SessionInv

\* The shutdown is called off, or the session ends in the middle of a save.
LEMMA StopKeeps ==
    ASSUME SessionInv, SmCancel \/ SmDie
    PROVE  SessionInv'
<1>1. PICK t \in {"ShutdownCancelled", "Die"} :
         /\ ToAll(link, Message(t))
         /\ phase' = IF t = "Die" THEN "dying" ELSE "cancelled"
  BY DEF SmCancel, SmDie
<1>2. /\ phase \in Live /\ ManagerOnly
      /\ interactWanted' = {} /\ interactor' = {}
      /\ UNCHANGED <<shutdown, saved, owed, phase2Wanted>>
  BY DEF SmCancel, SmDie, Live
<1>3. SessionType
  BY DEF SessionInv
<1>4. Message(t) \in FromManager /\ Message(t).type = t
  BY ManagersMessages DEF ManagersTypes
<1>5. /\ toClient' \in [Clients -> Seq(FromManager)]
      /\ \A d \in Clients :
            /\ d \in link \cap connection =>
                  Queued(toClient[d], toClient'[d], t)
            /\ d \notin link \cap connection => toClient'[d] = toClient[d]
  BY <1>1, <1>3, <1>4, ToAllIs
<1>6. SessionType'
  BY <1>1, <1>2, <1>3, <1>5 DEF SessionType, ManagerOnly, application
<1>7. phase # "dying" /\ phase' \notin Live /\ phase' \notin Calm
  BY <1>1, <1>2 DEF Live, Calm
<1>8. ASSUME NEW c \in Clients
      PROVE  /\ ClientInv(c)'
             /\ InPhase2(c)' => InPhase2(c)
             /\ BeyondPhase1(c) => BeyondPhase1(c)'
  <2> DEFINE q == toClient[c]  r == toClient'[c]
  <2>1. /\ UNCHANGED <<priv, connection, link, toSM, session>>
        /\ State(c)' = State(c) /\ Granted(c)' = Granted(c)
        /\ c \in Members' <=> c \in Members
    BY <1>2, ManagerLeaves
  <2>2. /\ Sane(c) /\ Owing(c) /\ Settled(c) /\ Delivered(c)
        /\ Pending(q, "SaveYourself") \in Nat
    BY OneClient, PendingType
  <2> HIDE DEF q, r
  <2>3. \A k : k # t =>
           /\ Has(r, k) <=> Has(q, k)
           /\ Pending(r, k) = Pending(q, k)
           /\ \A u : After(r, u, k) <=> After(q, u, k)
    <3>1. CASE c \in link \cap connection
      <4>1. Queued(q, r, t)
        BY <3>1, <1>5 DEF q, r
      <4>2. \A k : Pending(q, k) \in Nat
        BY OneClient, PendingType DEF q
      <4>3. QED BY <4>1, <4>2 DEF Queued
    <3>2. CASE c \notin link \cap connection
      BY <3>2, <1>5 DEF q, r
    <3>3. QED BY <3>1, <3>2
  <2>4. Orderly(q) => Orderly(r)
    BY <2>3 DEF Orderly
  <2>5. Sane(c)'
    BY <1>2, <2>1, <2>2 DEF Sane
  <2>6. Owing(c)'
    <3>1. Answers(c)' = Answers(c)
      BY <2>1, <2>3 DEF Answers, q, r
    <3>2. QED BY <3>1, <1>2, <1>7, <2>1, <2>2 DEF Owing
  <2>7. Settled(c)'
    BY <1>2, <1>7, <2>1, <2>2 DEF Settled
  <2>8. Delivered(c)'
    <3>1. c \in Members /\ Has(r, "Die") => phase' = "dying"
      BY <1>1, <1>7, <2>2, <2>3 DEF Delivered, q
    <3>2. QED
      BY <3>1, <1>7, <2>1, <2>2, <2>3, <2>4 DEF Delivered, q, r
  <2>9. Wanting(c)' /\ Granting(c)'
    BY <1>7 DEF Wanting, Granting
  <2>10. /\ InPhase2(c)' => InPhase2(c)
         /\ BeyondPhase1(c) => BeyondPhase1(c)'
    BY <2>1, <2>3, <2>4 DEF InPhase2, BeyondPhase1, q, r
  <2>11. QED
    BY <2>5, <2>6, <2>7, <2>8, <2>9, <2>10 DEF ClientInv
<1>9. Apart'
  <2>1. Members' = Members /\ Members \subseteq Clients
    BY <1>2, <1>3 DEF Members, ManagerOnly, SessionType
  <2>2. QED BY <2>1, <1>8 DEF Apart, SessionInv
<1>10. QED BY <1>2, <1>6, <1>8, <1>9 DEF SessionInv

-----------------------------------------------------------------------------
(* The invariant is inductive.                                             *)

\* It holds at the start.
LEMMA InitSession == Init => SessionInv
<1> SUFFICES ASSUME Init PROVE SessionInv
  OBVIOUS
<1>1. /\ priv = [c \in Clients |->
                   [state |-> "DISCONNECTED", in_shutdown |-> FALSE,
                    interaction_granted |-> FALSE, errors_only |-> FALSE,
                    ignore_next_save |-> FALSE]]
      /\ connection = {} /\ link = {}
      /\ properties = [c \in Clients |-> InitialProps]
      /\ toClient = [c \in Clients |-> <<>>] /\ toSM = [c \in Clients |-> <<>>]
      /\ dialogs = [c \in Clients |-> {}] /\ told = [c \in Clients |-> FALSE]
      /\ session \in Sessions /\ phase = "running" /\ shutdown = FALSE
      /\ saved = 0 /\ owed = [c \in Clients |-> 0]
      /\ phase2Wanted = {} /\ interactWanted = {} /\ interactor = {}
  BY DEF Init, ClientInit
<1>2. SessionType
  <2>1. priv \in [Clients -> Private]
    BY <1>1 DEF Private, PrivateIn, States
  <2>2. /\ <<>> \in Seq(FromManager) /\ <<>> \in Seq(FromClient)
        /\ {} \in SUBSET {"current", "stale"}
    OBVIOUS
  <2>3. /\ properties \in [Clients -> Seq(Property)]
        /\ toClient \in [Clients -> Seq(FromManager)]
        /\ toSM \in [Clients -> Seq(FromClient)]
        /\ dialogs \in [Clients -> SUBSET {"current", "stale"}]
        /\ told \in [Clients -> BOOLEAN]
        /\ owed \in [Clients -> Nat]
    BY <1>1, <2>2, PropertiesAssumption
  <2>4. QED BY <1>1, <2>1, <2>3 DEF SessionType
<1>3. ASSUME NEW c \in Clients PROVE ClientInv(c)
  BY <1>1 DEF ClientInv, Sane, Owing, Settled, Delivered, Wanting, Granting,
              State, Granted, Members, Interacting
<1>4. Apart
  BY <1>1 DEF Apart, Members
<1>5. QED BY <1>1, <1>2, <1>3, <1>4 DEF SessionInv

\* Nothing happens.
LEMMA StutterSession == SessionInv /\ UNCHANGED vars => SessionInv'
<1> SUFFICES ASSUME SessionInv, UNCHANGED vars PROVE SessionInv'
  OBVIOUS
<1>1. UNCHANGED <<priv, connection, link, properties, toClient, toSM, dialogs,
                  told, session, phase, shutdown, saved, owed, phase2Wanted,
                  interactWanted, interactor>>
  BY DEF vars, clientVars, connections, application, managerVars
<1>2. SessionType'
  BY <1>1 DEF SessionInv, SessionType
<1>3. \A c \in Clients : /\ ClientInv(c)'
                         /\ InPhase2(c)' <=> InPhase2(c)
                         /\ BeyondPhase1(c)' <=> BeyondPhase1(c)
  BY <1>1, Untouched DEF SessionInv
<1>4. Members' = Members /\ Members \subseteq Clients
  BY <1>1 DEF Members, SessionInv, SessionType
<1>5. Apart'
  BY <1>3, <1>4 DEF Apart, SessionInv
<1>6. QED BY <1>1, <1>2, <1>3, <1>5 DEF SessionInv

\* The steps of a client's main loop.
LEMMA ClientKeeps ==
    ASSUME SessionInv, NEW c \in Clients, ClientStep(c)
    PROVE  SessionInv'
<1>1. UNCHANGED managerVars
  BY DEF ClientStep
<1>2. CASE \E choice \in HandlerChoices, set \in Handlings :
              SaveYourself(c, choice, set) \/ SavePhase2(c, choice, set)
  BY <1>1, <1>2, HandlerIs, SaveStepKeeps
<1>3. CASE SaveYourselfInitial(c)
  BY <1>1, <1>3, InitialIs, SaveStepKeeps
<1>4. CASE \/ SaveYourselfIgnored(c) \/ SavePhase2Ignored(c) \/ Interact(c)
           \/ SaveComplete(c)
  BY <1>1, <1>4, SilentIs, SilentKeeps
<1>5. CASE ShutdownCancelled(c)
  <2>1. CASE State(c) = "IDLE"
    BY <2>1, <1>1, <1>5, SilentIs, SilentKeeps
  <2>2. CASE State(c) # "IDLE"
    BY <2>2, <1>1, <1>5, EndedIs, EndedKeeps
  <2>3. QED BY <2>1, <2>2
<1>6. CASE Die(c)
  BY <1>1, <1>6, GoesIs, GoesKeeps
<1>7. QED BY <1>2, <1>3, <1>4, <1>5, <1>6 DEF ClientStep, Handles

\* The steps of its application.
LEMMA AppKeeps ==
    ASSUME SessionInv, NEW c \in Clients, AppStep(c)
    PROVE  SessionInv'
<1>1. /\ UNCHANGED <<session, phase, shutdown, saved, smProps>>
      /\ IF c \in link \ link' THEN Forget(c) ELSE UNCHANGED Tracking
  BY DEF AppStep
<1>2. link' = link => UNCHANGED managerVars
  BY <1>1 DEF Tracking, managerVars
<1>3. ASSUME NEW d \in dialogs[c], InteractionDone(c, d) PROVE SessionInv'
  <2>1. UNCHANGED managerVars
    BY <1>2, <1>3 DEF InteractionDone
  <2>2. CASE MayBeDone(c)
    BY <2>1, <2>2, <1>3, DoneIs, DoneKeeps
  <2>3. CASE ~MayBeDone(c)
    BY <2>1, <2>3, <1>3, DoneTooLateChats, ChatsKeeps
  <2>4. QED BY <2>2, <2>3
<1>4. CASE Leaves(c)
  <2>1. UNCHANGED managerVars
    BY <1>2, <1>4 DEF Leaves
  <2>2. QED BY <2>1, <1>4, GoesIs, GoesKeeps
<1>5. CASE LinkFails(c)
  <2>1. c \in link \ link'
    BY <1>5 DEF LinkFails
  <2>2. Drops(c)
    BY <2>1, <1>1, <1>5, LinkFailsDrops
  <2>3. QED BY <2>2, DropsKeeps
<1>6. CASE RequestSave(c)
  <2>1. UNCHANGED managerVars
    BY <1>2, <1>6 DEF RequestSave
  <2>2. QED BY <2>1, <1>6, RequestSaveChats, ChatsKeeps
<1>7. ASSUME NEW prop \in Settings, SetProperty(c, prop) PROVE SessionInv'
  <2>1. UNCHANGED managerVars
    BY <1>2, <1>7 DEF SetProperty
  <2>2. QED BY <2>1, <1>7, SetPropertyChats, ChatsKeeps
<1>8. QED
  BY <1>3, <1>4, <1>5, <1>6, <1>7 DEF AppStep, Calls, MoreCalls

\* All steps.
LEMMA SessionInductive ==
    /\ Init => SessionInv
    /\ SessionInv /\ [Next]_vars => SessionInv'
<1>1. ASSUME SessionInv, Next PROVE SessionInv'
  <2>1. ASSUME NEW c \in Clients, ClientStep(c) PROVE SessionInv'
    BY <1>1, <2>1, ClientKeeps
  <2>2. ASSUME NEW c \in Clients, AppStep(c) PROVE SessionInv'
    BY <1>1, <2>2, AppKeeps
  <2>3. ASSUME NEW c \in Clients, SmReceives(c) PROVE SessionInv'
    BY <1>1, <2>3, HeardIs, HearsKeeps, DropsKeeps
  <2>4. ASSUME NEW c \in Clients, NEW known \in BOOLEAN,
               NEW initial \in BOOLEAN, Joins(c, known, initial)
        PROVE  SessionInv'
    BY <1>1, <2>4, JoinsKeeps
  <2>5. ASSUME NEW c \in Clients, NEW kind \in Kinds, SmSaveAgain(c, kind)
        PROVE  SessionInv'
    BY <1>1, <2>5, SaveAgainKeeps
  <2>6. ASSUME NEW S, NEW kind \in Kinds, SmSave(S, kind) PROVE SessionInv'
    BY <1>1, <2>6, SaveKeeps
  <2>7. CASE ManagerStep
    BY <1>1, <2>7, GrantKeeps, Phase2Keeps, CompleteKeeps DEF ManagerStep
  <2>8. CASE SmCancel \/ SmDie
    BY <1>1, <2>8, StopKeeps
  <2>9. QED
    BY <1>1, <2>1, <2>2, <2>3, <2>4, <2>5, <2>6, <2>7, <2>8 DEF Next
<1>2. QED BY <1>1, InitSession, StutterSession

-----------------------------------------------------------------------------
(* Lists of properties, and what is said of them.                          *)

\* Where a list that has each name once has it.
LEMMA FindIs ==
    ASSUME NEW list \in Seq(Property), OneOfEach(list), NEW n
    PROVE  /\ \A i \in DOMAIN list : list[i].name = n =>
                 FindLink(list, n) = i /\ FindByName(list, n) = list[i]
           /\ n \notin NamesIn(list) =>
                 FindLink(list, n) = 0 /\ FindByName(list, n) = NoProp
<1> DEFINE I == {i \in 1..Len(list) : list[i].name = n}
<1>1. FindLink(list, n) = IF I # {} THEN Min(I) ELSE 0
  BY DEF FindLink, SelectInSeq
<1>2. DOMAIN list = 1..Len(list) /\ Len(list) \in Nat
  OBVIOUS
<1>3. ASSUME NEW i \in DOMAIN list, list[i].name = n
      PROVE  FindLink(list, n) = i /\ FindByName(list, n) = list[i]
  <2>1. I = {i}
    BY <1>2, <1>3 DEF OneOfEach
  <2>2. i \in Nat /\ i # 0
    BY <1>2
  <2>3. Min(I) = i
    BY <2>1, <2>2 DEF Min
  <2>4. FindLink(list, n) = i
    BY <1>1, <2>1, <2>3
  <2>5. QED BY <2>2, <2>4 DEF FindByName
<1>4. ASSUME n \notin NamesIn(list)
      PROVE  FindLink(list, n) = 0 /\ FindByName(list, n) = NoProp
  <2>1. I = {}
    BY <1>2, <1>4 DEF NamesIn
  <2>2. FindLink(list, n) = 0
    BY <1>1, <2>1
  <2>3. QED BY <2>2 DEF FindByName
<1>5. QED BY <1>3, <1>4

\* What replace_one_prop() does to it.
LEMMA ReplaceIs ==
    ASSUME NEW list \in Seq(Property), OneOfEach(list), NEW prop \in Property,
           NEW r, r = Replace(list, prop)
    PROVE  /\ r \in Seq(Property) /\ OneOfEach(r)
           /\ FindByName(r, prop.name) = prop
           /\ \A n : n # prop.name => FindByName(r, n) = FindByName(list, n)
<1>1. r \in Seq(Property)
  BY ReplaceType
<1>2. DOMAIN list = 1..Len(list) /\ Len(list) \in Nat
  OBVIOUS
<1>3. /\ OneOfEach(r)
      /\ \E i \in DOMAIN r : r[i] = prop
      /\ \A i \in DOMAIN r :
            r[i] = prop \/ \E j \in DOMAIN list : r[i] = list[j]
      /\ \A i \in DOMAIN list : list[i].name # prop.name =>
            \E j \in DOMAIN r : r[j] = list[i]
  <2>1. CASE prop.name \notin NamesIn(list)
    <3>1. r = <<prop>> \o list
      BY <2>1, FindIs DEF Replace
    <3>2. /\ DOMAIN r = 1..(Len(list) + 1) /\ r[1] = prop
          /\ \A i \in DOMAIN r :
                i = 1 \/ (i - 1 \in DOMAIN list /\ r[i] = list[i - 1])
          /\ \A i \in DOMAIN list : i + 1 \in DOMAIN r /\ r[i + 1] = list[i]
      BY <1>2, <3>1
    <3>3. 1 \in DOMAIN r
      BY <1>2, <3>2
    <3>4. \A i \in DOMAIN list : list[i].name # prop.name
      BY <2>1 DEF NamesIn
    <3>5. OneOfEach(r)
      <4>1. SUFFICES ASSUME NEW i \in DOMAIN r, NEW j \in DOMAIN r,
                            r[i].name = r[j].name
                     PROVE  i = j
        BY DEF OneOfEach
      <4>2. CASE i = 1 /\ j # 1
        BY <3>2, <3>4, <4>1, <4>2
      <4>3. CASE i # 1 /\ j = 1
        BY <3>2, <3>4, <4>1, <4>3
      <4>4. CASE i # 1 /\ j # 1
        <5>1. i - 1 = j - 1
          BY <3>2, <4>1, <4>4 DEF OneOfEach
        <5>2. i \in Nat /\ j \in Nat
          BY <3>2
        <5>3. QED BY <5>1, <5>2
      <4>5. QED BY <4>2, <4>3, <4>4
    <3>6. QED BY <3>2, <3>3, <3>5
  <2>2. CASE prop.name \in NamesIn(list)
    <3>1. PICK k \in DOMAIN list : list[k].name = prop.name
      BY <2>2 DEF NamesIn
    <3>2. k # 0
      BY <1>2
    <3>3. r = [list EXCEPT ![k] = prop]
      BY <3>1, <3>2, FindIs DEF Replace
    <3>4. /\ DOMAIN r = DOMAIN list /\ r[k] = prop
          /\ \A i \in DOMAIN list : i # k => r[i] = list[i]
      BY <3>3
    <3>5. \A i \in DOMAIN list : r[i].name = list[i].name
      BY <3>1, <3>4
    <3>6. OneOfEach(r)
      BY <3>4, <3>5 DEF OneOfEach
    <3>7. QED BY <3>1, <3>4, <3>6
  <2>3. QED BY <2>1, <2>2
<1>4. FindByName(r, prop.name) = prop
  BY <1>1, <1>3, FindIs
<1>5. ASSUME NEW n, n # prop.name
      PROVE  FindByName(r, n) = FindByName(list, n)
  <2>1. CASE n \in NamesIn(list)
    <3>1. PICK i \in DOMAIN list : list[i].name = n
      BY <2>1 DEF NamesIn
    <3>2. PICK j \in DOMAIN r : r[j] = list[i]
      BY <1>3, <1>5, <3>1
    <3>3. FindByName(list, n) = list[i]
      BY <3>1, FindIs
    <3>4. FindByName(r, n) = r[j]
      BY <1>1, <1>3, <3>1, <3>2, FindIs
    <3>5. QED BY <3>2, <3>3, <3>4
  <2>2. CASE n \notin NamesIn(list)
    <3>1. n \notin NamesIn(r)
      BY <1>3, <1>5, <2>2 DEF NamesIn
    <3>2. QED BY <1>1, <1>3, <2>2, <3>1, FindIs
  <2>3. QED BY <2>1, <2>2
<1>6. QED BY <1>1, <1>3, <1>4, <1>5

\* What the manager may know.
Known == [PropNames -> Property \cup {NoProp}]

\* It knows, or will, what the list has.
Agrees(q, known, list) == \A n \in PropNames : InStep(q, known, list, n)

\* Every message about properties has each name once.
Clean(q) == \A i \in DOMAIN q :
               q[i].type = "SetProperties" => OneOfEach(q[i].props)

\* A message that tells something about the property n.
Says(m, n) == m.type = "SetProperties" /\ n \in NamesIn(m.props)

\* r is q with m behind it, as far as the news of n goes.
OneMore(q, m, r, n) ==
    /\ r \in Seq(FromClient)
    /\ \A i \in DOMAIN r :
          (i \in DOMAIN q /\ r[i] = q[i]) \/ (i = Len(q) + 1 /\ r[i] = m)
    /\ Says(m, n) => News(r, n) = News(q, n) \cup {Len(q) + 1}
    /\ ~Says(m, n) => News(r, n) = News(q, n)
    /\ \A i \in News(q, n) : r[i] = q[i]
    /\ \A i \in News(q, n) : i \in Nat /\ i < Len(q) + 1
    /\ Len(q) + 1 \in Nat /\ r[Len(q) + 1] = m

\* One message more, and what the last news of a name is then.
LEMMA NewsAppend ==
    ASSUME NEW q \in Seq(FromClient), NEW m \in FromClient
    PROVE  \A n : OneMore(q, m, Append(q, m), n)
<1> DEFINE r == Append(q, m)
<1>1. Len(q) \in Nat /\ DOMAIN q = 1..Len(q)
  OBVIOUS
<1>2. /\ r \in Seq(FromClient) /\ DOMAIN r = 1..(Len(q) + 1)
      /\ r[Len(q) + 1] = m /\ \A i \in DOMAIN q : r[i] = q[i]
  BY <1>1
<1> HIDE DEF r
<1>3. \A i \in DOMAIN r :
         (i \in DOMAIN q /\ r[i] = q[i]) \/ (i = Len(q) + 1 /\ r[i] = m)
  <2>1. \A i \in DOMAIN r : i \in DOMAIN q \/ i = Len(q) + 1
    BY <1>1, <1>2
  <2>2. QED BY <1>2, <2>1
<1>4. Len(q) + 1 \in DOMAIN r /\ \A i \in DOMAIN q : i \in DOMAIN r
  BY <1>1, <1>2
<1>5. \A i \in DOMAIN q : i < Len(q) + 1 /\ i # Len(q) + 1
  BY <1>1
<1>6. ASSUME NEW n PROVE
      /\ Says(m, n) => News(r, n) = News(q, n) \cup {Len(q) + 1}
      /\ ~Says(m, n) => News(r, n) = News(q, n)
  BY <1>2, <1>3, <1>4 DEF News, Says
<1>7. ASSUME NEW n
      PROVE  /\ \A i \in News(q, n) : r[i] = q[i]
             /\ \A i \in News(q, n) : i \in Nat /\ i < Len(q) + 1
  BY <1>2, <1>5 DEF News
<1>8. Len(q) + 1 \in Nat
  BY <1>1
<1>9. QED BY <1>2, <1>3, <1>6, <1>7, <1>8 DEF OneMore, r

\* A message that is not about properties makes no difference.
LEMMA AgreesAppend ==
    ASSUME NEW q \in Seq(FromClient), NEW m \in FromClient,
           m.type # "SetProperties", NEW known, NEW list
    PROVE  /\ Agrees(q, known, list) => Agrees(Append(q, m), known, list)
           /\ Clean(q) => Clean(Append(q, m))
<1>0. PICK r : r = Append(q, m)
  OBVIOUS
<1>1. \A n : OneMore(q, m, r, n)
  BY <1>0, NewsAppend
<1>2. ASSUME NEW n PROVE InStep(q, known, list, n) => InStep(r, known, list, n)
  <2>1. ~Says(m, n)
    BY DEF Says
  <2>2. News(r, n) = News(q, n)
    BY <1>1, <2>1 DEF OneMore
  <2>3. \A i \in News(q, n) : r[i] = q[i]
    BY <1>1, <2>1 DEF OneMore
  <2>4. QED BY <2>2, <2>3 DEF InStep
<1>3. \A i \in DOMAIN r : (i \in DOMAIN q /\ r[i] = q[i]) \/ r[i] = m
  BY <1>1 DEF OneMore
<1>4. Clean(q) => Clean(r)
  BY <1>3 DEF Clean
<1>5. QED BY <1>0, <1>2, <1>4 DEF Agrees

\* One that tells a new value does, together with that value.
LEMMA AgreesSet ==
    ASSUME NEW q \in Seq(FromClient), NEW prop \in Property,
           NEW list \in Seq(Property), OneOfEach(list), NEW known,
           NEW m, m = SetProperties(<<prop>>)
    PROVE  /\ m \in FromClient
           /\ Agrees(q, known, list) =>
                 Agrees(Append(q, m), known, Replace(list, prop))
           /\ Clean(q) => Clean(Append(q, m))
<1>0. PICK r, new : r = Append(q, m) /\ new = Replace(list, prop)
  OBVIOUS
<1>1. <<prop>> \in Seq(Property) /\ OneOfEach(<<prop>>)
  BY DEF OneOfEach
<1>2. /\ m \in FromClient /\ m.type = "SetProperties" /\ m.props = <<prop>>
      /\ NamesIn(m.props) = {prop.name}
  BY <1>1 DEF SetProperties, FromClient, NamesIn
<1>3. FindByName(m.props, prop.name) = prop
  <2>1. 1 \in DOMAIN <<prop>> /\ <<prop>>[1] = prop
    OBVIOUS
  <2>2. FindByName(<<prop>>, prop.name) = <<prop>>[1]
    BY <1>1, <2>1, FindIs
  <2>3. QED BY <1>2, <2>1, <2>2
<1>4. /\ FindByName(new, prop.name) = prop
      /\ \A n : n # prop.name => FindByName(new, n) = FindByName(list, n)
  BY <1>0, ReplaceIs
<1>5. \A n : OneMore(q, m, r, n)
  BY <1>0, <1>2, NewsAppend
<1>6. ASSUME NEW n, InStep(q, known, list, n) PROVE InStep(r, known, new, n)
  <2>1. /\ n = prop.name => News(r, n) = News(q, n) \cup {Len(q) + 1}
        /\ n # prop.name => News(r, n) = News(q, n)
        /\ \A i \in News(q, n) : r[i] = q[i]
        /\ \A i \in News(q, n) : i \in Nat /\ i < Len(q) + 1
        /\ r[Len(q) + 1] = m /\ Len(q) + 1 \in Nat
    BY <1>2, <1>5 DEF Says, OneMore
  <2>2. CASE n # prop.name
    <3>1. News(r, n) = News(q, n) /\ FindByName(new, n) = FindByName(list, n)
      BY <1>4, <2>1, <2>2
    <3>2. QED BY <1>6, <2>1, <3>1 DEF InStep
  <2>3. CASE n = prop.name
    <3>1. PICK l \in Nat : l = Len(q) + 1
      BY <2>1
    <3>2. News(r, n) = News(q, n) \cup {l} /\ r[l] = m
      BY <2>1, <2>3, <3>1
    <3>3. \A i \in News(q, n) : ~(l <= i)
      <4>1. \A i \in News(q, n) : i \in Nat /\ i < l
        BY <2>1, <3>1
      <4>2. QED BY <4>1
    <3>4. QED BY <1>3, <1>4, <2>3, <3>2, <3>3 DEF InStep
  <2>4. QED BY <2>2, <2>3
<1>7. \A i \in DOMAIN r : (i \in DOMAIN q /\ r[i] = q[i]) \/ r[i] = m
  BY <1>2, <1>5 DEF OneMore
<1>8. Clean(q) => Clean(r)
  BY <1>1, <1>2, <1>7 DEF Clean
<1>9. QED BY <1>0, <1>2, <1>6, <1>8 DEF Agrees

\* What the manager learns from the message it handles.
Hearing(known, m) ==
    IF m.type = "SetProperties" THEN Learned(known, m.props) ELSE known

\* It then knows what it would have come to know.
LEMMA AgreesTail ==
    ASSUME NEW q \in Seq(FromClient), q # <<>>, Clean(q), NEW known \in Known
    PROVE  /\ Hearing(known, Head(q)) \in Known
           /\ Clean(Tail(q))
           /\ \A list : Agrees(q, known, list) =>
                 Agrees(Tail(q), Hearing(known, Head(q)), list)
<1>0. PICK m, r, k : m = Head(q) /\ r = Tail(q) /\ k = Hearing(known, m)
  OBVIOUS
<1>1. /\ m \in FromClient /\ r \in Seq(FromClient)
      /\ 1 \in DOMAIN q /\ q[1] = m
      /\ \A i \in DOMAIN r : i + 1 \in DOMAIN q /\ r[i] = q[i + 1]
      /\ \A i \in DOMAIN q : i = 1 \/ (i - 1 \in DOMAIN r /\ r[i - 1] = q[i])
      /\ DOMAIN q \subseteq Nat /\ DOMAIN r \subseteq Nat
  <2>1. /\ r \in Seq(FromClient) /\ m \in FromClient
        /\ Len(q) \in Nat /\ Len(q) >= 1
        /\ DOMAIN q = 1..Len(q) /\ DOMAIN r = 1..(Len(q) - 1) /\ q[1] = m
        /\ \A i \in DOMAIN r : r[i] = q[i + 1]
    BY <1>0, Shorter
  <2>2. /\ 1 \in DOMAIN q /\ \A i \in DOMAIN r : i + 1 \in DOMAIN q
        /\ \A i \in DOMAIN q : i = 1 \/ i - 1 \in DOMAIN r
    BY <2>1
  <2>3. \A i \in DOMAIN q : i - 1 \in DOMAIN r => r[i - 1] = q[i]
    BY <2>1
  <2>4. QED BY <2>1, <2>2, <2>3
<1>2. m.type = "SetProperties" =>
         /\ OneOfEach(m.props) /\ m.props \in Seq(Property)
  BY <1>1, FromClientTypes DEF Clean
<1>3. DOMAIN known = PropNames
  BY DEF Known
<1>4. \A n \in PropNames :
         k[n] = IF Says(m, n) THEN FindByName(m.props, n) ELSE known[n]
  BY <1>0, <1>3 DEF Hearing, Learned, Says
<1>5. k \in Known
  <2>1. ASSUME NEW n, Says(m, n) PROVE FindByName(m.props, n) \in Property
    <3>1. PICK i \in DOMAIN m.props : m.props[i].name = n
      BY <2>1 DEF Says, NamesIn
    <3>2. m.props[i] \in Property
      BY <1>2, <2>1, <3>1 DEF Says
    <3>3. FindByName(m.props, n) = m.props[i]
      BY <1>2, <2>1, <3>1, FindIs DEF Says
    <3>4. QED BY <3>2, <3>3
  <2>2. CASE m.type # "SetProperties"
    BY <2>2, <1>0 DEF Hearing
  <2>3. CASE m.type = "SetProperties"
    <3>1. k = [n \in PropNames |-> IF n \in NamesIn(m.props)
                                   THEN FindByName(m.props, n) ELSE known[n]]
      BY <2>3, <1>0, <1>3 DEF Hearing, Learned
    <3>2. \A n \in PropNames : n \in NamesIn(m.props) =>
             FindByName(m.props, n) \in Property
      BY <2>1, <2>3 DEF Says
    <3>3. \A n \in PropNames : known[n] \in Property \cup {NoProp}
      BY DEF Known
    <3>4. QED BY <3>1, <3>2, <3>3 DEF Known
  <2>4. QED BY <2>2, <2>3
<1>6. Clean(r)
  BY <1>1 DEF Clean
<1>7. ASSUME NEW n
      PROVE  /\ \A i \in News(r, n) : i + 1 \in News(q, n) /\ r[i] = q[i + 1]
             /\ \A i \in News(q, n) : i # 1 => i - 1 \in News(r, n)
             /\ 1 \in News(q, n) <=> Says(m, n)
             /\ News(r, n) \subseteq Nat /\ News(q, n) \subseteq Nat
  <2>1. \A i \in News(r, n) : i + 1 \in News(q, n) /\ r[i] = q[i + 1]
    BY <1>1 DEF News
  <2>2. \A i \in News(q, n) : i # 1 => i - 1 \in News(r, n)
    BY <1>1 DEF News
  <2>3. 1 \in News(q, n) <=> Says(m, n)
    BY <1>1 DEF News, Says
  <2>4. News(r, n) \subseteq Nat /\ News(q, n) \subseteq Nat
    BY <1>1 DEF News
  <2>5. QED BY <2>1, <2>2, <2>3, <2>4
<1>8. ASSUME NEW list, NEW n \in PropNames, InStep(q, known, list, n)
      PROVE  InStep(r, k, list, n)
  <2>1. CASE News(r, n) = {}
    <3>1. \A i \in News(q, n) : i = 1
      BY <1>7, <2>1
    <3>2. CASE Says(m, n)
      <4>1. 1 \in News(q, n) /\ \A i \in News(q, n) : i <= 1
        BY <1>7, <3>1, <3>2
      <4>2. FindByName(m.props, n) = FindByName(list, n)
        BY <4>1, <1>1, <1>8 DEF InStep
      <4>3. QED BY <4>2, <1>4, <2>1, <3>2 DEF InStep
    <3>3. CASE ~Says(m, n)
      <4>1. News(q, n) = {}
        BY <1>7, <3>1, <3>3
      <4>2. QED BY <4>1, <1>4, <1>8, <2>1, <3>3 DEF InStep
    <3>4. QED BY <3>2, <3>3
  <2>2. CASE News(r, n) # {}
    <3>1. SUFFICES ASSUME NEW i \in News(r, n),
                          \A j \in News(r, n) : j <= i
                   PROVE  FindByName(r[i].props, n) = FindByName(list, n)
      BY <2>2 DEF InStep
    <3>2. i \in Nat /\ i + 1 \in News(q, n) /\ r[i] = q[i + 1]
      BY <1>7, <3>1
    <3>3. \A j \in News(q, n) : j <= i + 1
      <4>1. SUFFICES ASSUME NEW j \in News(q, n), j # 1 PROVE j <= i + 1
        BY <3>2
      <4>2. j \in Nat /\ j - 1 \in News(r, n)
        BY <1>7, <4>1
      <4>3. j - 1 <= i
        BY <3>1, <4>2
      <4>4. QED BY <3>2, <4>2, <4>3
    <3>4. FindByName(q[i + 1].props, n) = FindByName(list, n)
      BY <1>8, <3>2, <3>3 DEF InStep
    <3>5. QED BY <3>2, <3>4
  <2>3. QED BY <2>1, <2>2
<1>9. QED BY <1>0, <1>5, <1>6, <1>8 DEF Agrees

\* What gsm_client_connect() sends is all there is to know.
LEMMA AgreesFirst ==
    ASSUME NEW list \in Seq(Property), OneOfEach(list),
           NEW q, q = IF list = <<>> THEN <<>> ELSE <<SetProperties(list)>>
    PROVE  Nothing \in Known /\ Clean(q) /\ Agrees(q, Nothing, list)
<1>1. Nothing \in Known
  BY DEF Nothing, Known
<1>2. ASSUME NEW n \in PropNames PROVE Nothing[n] = NoProp
  BY DEF Nothing
<1>3. CASE list = <<>>
  <2>1. q = <<>> /\ DOMAIN q = {} /\ NamesIn(list) = {}
    BY <1>3 DEF NamesIn
  <2>2. Clean(q) /\ \A n : News(q, n) = {}
    BY <2>1 DEF Clean, News
  <2>3. \A n : FindByName(list, n) = NoProp
    BY <2>1, FindIs
  <2>4. QED BY <1>1, <1>2, <2>2, <2>3 DEF Agrees, InStep
<1>4. CASE list # <<>>
  <2>1. PICK m : m = SetProperties(list)
    OBVIOUS
  <2>2. m.type = "SetProperties" /\ m.props = list
    BY <2>1 DEF SetProperties
  <2>3. q = <<m>>
    BY <1>4, <2>1
  <2>4. DOMAIN q = {1} /\ q[1] = m
    BY <2>3
  <2>5. Clean(q)
    BY <2>2, <2>4 DEF Clean
  <2>6. ASSUME NEW n \in PropNames PROVE InStep(q, Nothing, list, n)
    <3>1. CASE n \in NamesIn(list)
      <4>1. News(q, n) = {1}
        BY <2>2, <2>4, <3>1 DEF News
      <4>2. QED BY <4>1, <2>2, <2>4 DEF InStep
    <3>2. CASE n \notin NamesIn(list)
      <4>1. News(q, n) = {}
        BY <2>2, <2>4, <3>2 DEF News
      <4>2. FindByName(list, n) = NoProp
        BY <3>2, FindIs
      <4>3. QED BY <4>1, <4>2, <1>2 DEF InStep
    <3>3. QED BY <3>1, <3>2
  <2>7. QED BY <1>1, <2>5, <2>6 DEF Agrees
<1>5. QED BY <1>3, <1>4

-----------------------------------------------------------------------------
(* The manager is told of the properties.                                  *)

\* What the properties of a client, and what is known of them, satisfy.
PropsOf(c) ==
    /\ OneOfEach(properties[c]) /\ Clean(toSM[c])
    /\ c \in Members => Agrees(toSM[c], smProps[c], properties[c])

\* The second part of the inductive invariant, with SessionType.
PropsInv == smProps \in [Clients -> Known] /\ \A c \in Clients : PropsOf(c)

\* A step does nothing that concerns the properties of d.
PropsLeft(d) ==
    /\ properties'[d] = properties[d] /\ toSM'[d] = toSM[d]
    /\ smProps'[d] = smProps[d]
    /\ d \in connection' \cap link' => d \in Members

\* What is left alone stays as it was.
LEMMA PropsLeftKeeps ==
    ASSUME NEW d, PropsOf(d), PropsLeft(d)
    PROVE  PropsOf(d)'
BY DEF PropsOf, PropsLeft, Members

\* A client sends a message that is not about properties.
LEMMA PlainKeeps ==
    ASSUME NEW c, PropsOf(c), toSM[c] \in Seq(FromClient),
           NEW m \in FromClient, m.type # "SetProperties",
           toSM'[c] = Append(toSM[c], m),
           properties' = properties, smProps' = smProps,
           c \in connection' \cap link' => c \in Members
    PROVE  PropsOf(c)'
<1>1. Clean(toSM'[c]) /\ OneOfEach(properties'[c])
  BY AgreesAppend DEF PropsOf
<1>2. c \in Members => Agrees(toSM'[c], smProps'[c], properties'[c])
  BY AgreesAppend DEF PropsOf
<1>3. QED BY <1>1, <1>2 DEF PropsOf, Members

\* A step of c alone.
LEMMA PropsStep ==
    ASSUME PropsInv, NEW c \in Clients, PropsOf(c)',
           smProps' \in [Clients -> Known],
           \A d \in Clients \ {c} : PropsLeft(d)
    PROVE  PropsInv'
<1>1. \A d \in Clients \ {c} : PropsOf(d)'
  BY PropsLeftKeeps DEF PropsInv
<1>2. QED BY <1>1 DEF PropsInv

\* Such a message keeps the invariant.
LEMMA OnePlain ==
    ASSUME SessionType, PropsInv, NEW c \in Clients,
           NEW m \in FromClient, m.type # "SetProperties", Send(c, <<m>>),
           properties' = properties, smProps' = smProps,
           connection' \subseteq connection, link' \subseteq link
    PROVE  PropsInv'
<1>1. /\ toSM' = [toSM EXCEPT ![c] = Append(toSM[c], m)]
      /\ toSM[c] \in Seq(FromClient)
  BY SendOne DEF SessionType
<1>2. /\ toSM'[c] = Append(toSM[c], m)
      /\ \A d \in Clients \ {c} : toSM'[d] = toSM[d]
  BY <1>1 DEF SessionType
<1>3. \A d : d \in connection' \cap link' => d \in Members
  BY DEF Members
<1>4. PropsOf(c) /\ smProps' \in [Clients -> Known]
  BY DEF PropsInv
<1>5. PropsOf(c)'
  BY <1>1, <1>2, <1>3, <1>4, PlainKeeps
<1>6. \A d \in Clients \ {c} : PropsLeft(d)
  BY <1>2, <1>3 DEF PropsLeft
<1>7. QED BY <1>4, <1>5, <1>6, PropsStep

\* So does none.
LEMMA NonePlain ==
    ASSUME PropsInv, toSM' = toSM, properties' = properties,
           smProps' = smProps, connection' \subseteq connection,
           link' \subseteq link
    PROVE  PropsInv'
<1>1. \A d \in Clients : PropsLeft(d)
  BY DEF PropsLeft, Members
<1>2. \A d \in Clients : PropsOf(d)'
  BY <1>1, PropsLeftKeeps DEF PropsInv
<1>3. QED BY <1>2 DEF PropsInv

\* And so do two, InteractDone and SaveYourselfDone.
LEMMA TwoPlain ==
    ASSUME SessionType, PropsInv, NEW c \in Clients,
           NEW m \in FromClient, m.type # "SetProperties",
           NEW n \in FromClient, n.type # "SetProperties", Send(c, <<m, n>>),
           properties' = properties, smProps' = smProps,
           connection' \subseteq connection, link' \subseteq link
    PROVE  PropsInv'
<1> DEFINE u == Append(toSM[c], m)
<1>1. /\ toSM' = [toSM EXCEPT ![c] = Append(u, n)]
      /\ toSM[c] \in Seq(FromClient)
  BY SendTwo DEF SessionType
<1>2. /\ toSM'[c] = Append(u, n)
      /\ \A d \in Clients \ {c} : toSM'[d] = toSM[d]
  BY <1>1 DEF SessionType
<1>3. u \in Seq(FromClient)
  BY <1>1
<1>4. \A d : d \in connection' \cap link' => d \in Members
  BY DEF Members
<1>5. PropsOf(c) /\ smProps' \in [Clients -> Known]
  BY DEF PropsInv
<1>6. Clean(u) /\ (c \in Members => Agrees(u, smProps[c], properties[c]))
  BY <1>1, <1>5, AgreesAppend DEF PropsOf
<1> HIDE DEF u
<1>7. /\ Clean(toSM'[c])
      /\ c \in Members => Agrees(toSM'[c], smProps'[c], properties'[c])
  BY <1>2, <1>3, <1>6, AgreesAppend
<1>8. PropsOf(c)'
  BY <1>4, <1>5, <1>7 DEF PropsOf, Members
<1>9. \A d \in Clients \ {c} : PropsLeft(d)
  BY <1>2, <1>4 DEF PropsLeft
<1>10. QED BY <1>5, <1>8, <1>9, PropsStep

\* replace_one_prop() keeps each name once, and tells what has changed.
LEMMA SetOne ==
    ASSUME SessionType, NEW c \in Clients, PropsOf(c), NEW set \in Handlings
    PROVE  \E q \in Seq(FromClient) :
              /\ \A m \in FromClient :
                    toSM[c] \o (SetMessages(set) \o <<m>>) = Append(q, m)
              /\ toSM[c] \o SetMessages(set) = q
              /\ OneOfEach(Replaced(c, set)) /\ Clean(q)
              /\ c \in Members => Agrees(q, smProps[c], Replaced(c, set))
<1>1. toSM[c] \in Seq(FromClient) /\ properties[c] \in Seq(Property)
  BY DEF SessionType
<1>2. CASE set = <<>>
  <2>1. /\ \A m \in FromClient : <<>> \o <<m>> = <<m>>
        /\ \A m \in FromClient : toSM[c] \o <<m>> = Append(toSM[c], m)
        /\ toSM[c] \o <<>> = toSM[c]
    BY <1>1, PairFacts
  <2>2. SetMessages(set) = <<>> /\ Replaced(c, set) = properties[c]
    BY <1>2 DEF SetMessages, Replaced
  <2>3. QED BY <1>1, <2>1, <2>2 DEF PropsOf
<1>3. CASE set # <<>>
  <2>1. PICK prop \in Settings : set = <<prop>>
    BY <1>3 DEF Handlings
  <2>2. prop \in Property /\ set[1] = prop
    BY <2>1, PropertiesAssumption
  <2>3. Replaced(c, set) = Replace(properties[c], prop)
    BY <1>3, <2>2 DEF Replaced
  <2>4. PICK p : p = SetProperties(<<prop>>)
    OBVIOUS
  <2>5. SetMessages(set) = <<p>>
    BY <1>3, <2>1, <2>4 DEF SetMessages
  <2>6. PICK q : q = Append(toSM[c], p)
    OBVIOUS
  <2>7. /\ p \in FromClient /\ Clean(q)
        /\ c \in Members => Agrees(q, smProps[c], Replaced(c, set))
    BY <1>1, <2>2, <2>3, <2>4, <2>6, AgreesSet DEF PropsOf
  <2>8. OneOfEach(Replaced(c, set))
    BY <1>1, <2>2, <2>3, ReplaceIs DEF PropsOf
  <2>9. q \in Seq(FromClient) /\ toSM[c] \o <<p>> = q
    BY <1>1, <2>6, <2>7
  <2>10. ASSUME NEW m \in FromClient
         PROVE  toSM[c] \o (<<p>> \o <<m>>) = Append(q, m)
    <3>1. <<p>> \o <<m>> = <<p, m>>
      BY <2>7, PairFacts
    <3>2. toSM[c] \o <<p, m>> = Append(q, m)
      BY <1>1, <2>6, <2>7
    <3>3. QED BY <3>1, <3>2
  <2>11. QED BY <2>5, <2>7, <2>8, <2>9, <2>10
<1>4. QED BY <1>2, <1>3

\* What a "save" handler does.
LEMMA HandlerTells ==
    ASSUME SessionType, PropsInv, NEW c \in Clients, NEW p,
           NEW choice \in HandlerChoices, NEW set \in Handlings,
           SaveHandler(c, p, choice, set), smProps' = smProps,
           connection' = connection, link' = link
    PROVE  PropsInv'
<1>1. PropsOf(c)
  BY DEF PropsInv
<1>2. PICK q \in Seq(FromClient) :
         /\ \A m \in FromClient :
               toSM[c] \o (SetMessages(set) \o <<m>>) = Append(q, m)
         /\ OneOfEach(Replaced(c, set)) /\ Clean(q)
         /\ c \in Members => Agrees(q, smProps[c], Replaced(c, set))
  BY <1>1, SetOne
<1>3. PICK m : m = SaveMessage(p, choice)
  OBVIOUS
<1>4. m \in FromClient /\ m.type # "SetProperties"
  BY <1>3, SaveMessageType
<1>5. /\ properties' = [properties EXCEPT ![c] = Replaced(c, set)]
      /\ toSM' = [toSM EXCEPT ![c] =
                     toSM[c] \o (SetMessages(set) \o <<m>>)]
  BY <1>3 DEF SaveHandler, Send
<1>6. /\ properties'[c] = Replaced(c, set) /\ toSM'[c] = Append(q, m)
      /\ \A d \in Clients \ {c} : properties'[d] = properties[d]
                                 /\ toSM'[d] = toSM[d]
  BY <1>2, <1>4, <1>5 DEF SessionType
<1>7. /\ Clean(toSM'[c])
      /\ c \in Members => Agrees(toSM'[c], smProps[c], properties'[c])
  BY <1>2, <1>4, <1>6, AgreesAppend
<1>8. PropsOf(c)'
  BY <1>2, <1>6, <1>7 DEF PropsOf, Members
<1>9. \A d \in Clients \ {c} : PropsLeft(d)
  BY <1>6 DEF PropsLeft, Members
<1>10. smProps' \in [Clients -> Known]
  BY DEF PropsInv
<1>11. QED BY <1>8, <1>9, <1>10, PropsStep

\* gsm_client_disconnect() tells nothing about properties.
LEMMA DisconnectTells ==
    ASSUME SessionType, PropsInv, NEW c \in Clients, NEW p, Disconnect(c, p),
           properties' = properties, smProps' = smProps, link' = link
    PROVE  PropsInv'
<1>1. Message("Close") \in FromClient /\ Message("Close").type # "SetProperties"
  BY DEF Message, FromClient
<1>2. CASE p.state = "IDLE"
  BY <1>1, <1>2, OnePlain DEF Disconnect
<1>3. CASE p.state # "IDLE"
  BY <1>3, NonePlain DEF Disconnect
<1>4. QED BY <1>2, <1>3

\* The steps of a client's main loop.
LEMMA ClientTells ==
    ASSUME SessionType, PropsInv, NEW c \in Clients, ClientStep(c)
    PROVE  PropsInv'
<1>1. smProps' = smProps
  BY DEF ClientStep, managerVars
<1>2. ASSUME NEW choice \in HandlerChoices, NEW set \in Handlings,
             SaveYourself(c, choice, set) \/ SavePhase2(c, choice, set)
      PROVE  PropsInv'
  <2>1. PICK p : SaveHandler(c, p, choice, set)
    BY <1>2 DEF SaveYourself, SavePhase2
  <2>2. connection' = connection /\ link' = link
    BY <1>2 DEF SaveYourself, SavePhase2
  <2>3. QED BY <1>1, <2>1, <2>2, HandlerTells
<1>3. /\ Message("SaveYourselfDone") \in FromClient
      /\ Message("SaveYourselfDone").type # "SetProperties"
  BY DEF Message, FromClient
<1>4. CASE SaveYourselfInitial(c)
  BY <1>1, <1>3, <1>4, OnePlain DEF SaveYourselfInitial
<1>5. CASE \/ SaveYourselfIgnored(c) \/ SavePhase2Ignored(c)
           \/ Interact(c) \/ SaveComplete(c)
  BY <1>1, <1>5, NonePlain
  DEF SaveYourselfIgnored, SavePhase2Ignored, Interact, SaveComplete
<1>6. CASE ShutdownCancelled(c)
  <2>1. UNCHANGED <<connection, link, properties>>
    BY <1>6 DEF ShutdownCancelled
  <2>2. CASE priv[c].state = "IDLE"
    <3>1. toSM' = toSM
      BY <1>6, <2>2, SendNone DEF ShutdownCancelled
    <3>2. QED BY <1>1, <2>1, <3>1, NonePlain
  <2>3. CASE priv[c].state # "IDLE"
    <3>1. Send(c, <<Message("SaveYourselfDone")>>)
      BY <1>6, <2>3 DEF ShutdownCancelled
    <3>2. QED BY <1>1, <1>3, <2>1, <3>1, OnePlain
  <2>4. QED BY <2>2, <2>3
<1>7. CASE Die(c)
  BY <1>1, <1>7, DisconnectTells DEF Die
<1>8. QED BY <1>2, <1>4, <1>5, <1>6, <1>7 DEF ClientStep, Handles

\* gsm_client_set_*_property().
LEMMA SetTells ==
    ASSUME SessionType, PropsInv, NEW c \in Clients, NEW prop \in Settings,
           SetProperty(c, prop), smProps' = smProps
    PROVE  PropsInv'
<1>1. PropsOf(c) /\ <<prop>> \in Handlings
  BY DEF PropsInv, Handlings
<1>2. PICK set : set = <<prop>>
  OBVIOUS
<1>3. PICK q \in Seq(FromClient) :
         /\ toSM[c] \o SetMessages(set) = q
         /\ OneOfEach(Replaced(c, set)) /\ Clean(q)
         /\ c \in Members => Agrees(q, smProps[c], Replaced(c, set))
  BY <1>1, <1>2, SetOne
<1>4. /\ properties' = [properties EXCEPT ![c] = Replaced(c, set)]
      /\ IF c \in connection
         THEN toSM' = [toSM EXCEPT ![c] = toSM[c] \o SetMessages(set)]
         ELSE toSM' = toSM
      /\ UNCHANGED <<connection, link>>
  BY <1>2 DEF SetProperty, Send
<1>5. /\ properties'[c] = Replaced(c, set)
      /\ toSM'[c] = IF c \in connection THEN q ELSE toSM[c]
      /\ \A d \in Clients \ {c} : properties'[d] = properties[d]
                                 /\ toSM'[d] = toSM[d]
  BY <1>3, <1>4 DEF SessionType
<1>6. PropsOf(c)'
  BY <1>1, <1>3, <1>4, <1>5 DEF PropsOf, Members
<1>7. \A d \in Clients \ {c} : PropsLeft(d)
  BY <1>4, <1>5 DEF PropsLeft, Members
<1>8. smProps' \in [Clients -> Known]
  BY DEF PropsInv
<1>9. QED BY <1>6, <1>7, <1>8, PropsStep

\* The steps of its application.
LEMMA AppTells ==
    ASSUME SessionType, PropsInv, NEW c \in Clients, AppStep(c)
    PROVE  PropsInv'
<1>1. smProps' = smProps
  BY DEF AppStep
<1>2. \A t \in {"InteractDone", "SaveYourselfDone", "RequestSave"} :
         Message(t) \in FromClient /\ Message(t).type # "SetProperties"
  BY DEF Message, FromClient
<1>3. ASSUME NEW d \in dialogs[c], InteractionDone(c, d) PROVE PropsInv'
  <2>1. UNCHANGED <<connection, link, properties>>
    BY <1>3 DEF InteractionDone
  <2>2. CASE MayBeDone(c)
    <3>1. Send(c, <<Message("InteractDone"), Message("SaveYourselfDone")>>)
      BY <1>3, <2>2 DEF InteractionDone
    <3>2. QED BY <1>1, <1>2, <2>1, <3>1, TwoPlain
  <2>3. CASE ~MayBeDone(c)
    <3>1. toSM' = toSM
      BY <1>3, <2>3 DEF InteractionDone
    <3>2. QED BY <1>1, <2>1, <3>1, NonePlain
  <2>4. QED BY <2>2, <2>3
<1>4. CASE Leaves(c)
  BY <1>1, <1>4, DisconnectTells DEF Leaves
<1>5. CASE LinkFails(c)
  <2>1. /\ link' = link \ {c} /\ toSM' = [toSM EXCEPT ![c] = <<>>]
        /\ UNCHANGED <<connection, properties>>
    BY <1>5 DEF LinkFails
  <2>2. /\ toSM'[c] = <<>>
        /\ \A d \in Clients \ {c} : toSM'[d] = toSM[d]
    BY <2>1 DEF SessionType
  <2>3. Clean(toSM'[c])
    BY <2>2 DEF Clean
  <2>4. PropsOf(c)'
    BY <2>1, <2>3 DEF PropsInv, PropsOf, Members
  <2>5. \A d \in Clients \ {c} : PropsLeft(d)
    BY <1>1, <2>1, <2>2 DEF PropsLeft, Members
  <2>6. smProps' \in [Clients -> Known]
    BY <1>1 DEF PropsInv
  <2>7. QED BY <2>4, <2>5, <2>6, PropsStep
<1>6. CASE RequestSave(c)
  BY <1>1, <1>2, <1>6, OnePlain DEF RequestSave
<1>7. ASSUME NEW prop \in Settings, SetProperty(c, prop) PROVE PropsInv'
  BY <1>1, <1>7, SetTells
<1>8. QED
  BY <1>3, <1>4, <1>5, <1>6, <1>7 DEF AppStep, Calls, MoreCalls

\* The manager learns what it is sent, or forgets a client that is gone.
LEMMA HearsTells ==
    ASSUME SessionType, PropsInv, NEW c \in Clients, SmReceives(c)
    PROVE  PropsInv'
<1> DEFINE m == Head(toSM[c])
<1>1. /\ toSM[c] \in Seq(FromClient) /\ toSM[c] # <<>>
      /\ toSM' = [toSM EXCEPT ![c] = Tail(toSM[c])]
      /\ UNCHANGED <<connection, properties>>
  BY DEF SmReceives, SessionType
<1>2. /\ toSM'[c] = Tail(toSM[c])
      /\ \A d \in Clients \ {c} : toSM'[d] = toSM[d]
  BY <1>1 DEF SessionType
<1>3. m \in FromClient
  BY <1>1, Shorter
<1>4. /\ PropsOf(c) /\ smProps[c] \in Known
      /\ smProps \in [Clients -> Known]
  BY DEF PropsInv
<1>5. /\ Hearing(smProps[c], m) \in Known
      /\ Clean(Tail(toSM[c]))
      /\ c \in Members =>
            Agrees(Tail(toSM[c]), Hearing(smProps[c], m), properties[c])
  BY <1>1, <1>4, AgreesTail DEF PropsOf
<1> HIDE DEF m
<1>6. /\ link' \subseteq link
      /\ \/ smProps' = [smProps EXCEPT ![c] = Hearing(smProps[c], m)]
         \/ c \notin link' /\ smProps' = smProps
  <2>1. m.type \in {"SaveYourselfDone", "Phase2Request", "InteractRequest",
                    "InteractDone", "RequestSave", "Close", "SetProperties"}
    BY <1>3, FromClientTypes
  <2>2. CASE m.type = "SetProperties"
    <3>1. smProps' = [smProps EXCEPT ![c] = Learned(smProps[c], m.props)]
      BY <2>2 DEF SmReceives, m
    <3>2. link' = link
      BY <2>2 DEF SmReceives, m
    <3>3. QED BY <2>2, <3>1, <3>2 DEF Hearing
  <2>3. CASE m.type = "Close"
    <3>1. link' = link \ {c} /\ smProps' = smProps
      BY <2>3 DEF SmReceives, m
    <3>2. QED BY <3>1
  <2>4. CASE m.type \notin {"SetProperties", "Close"}
    <3>1. link' = link /\ smProps' = smProps
      BY <2>1, <2>4 DEF SmReceives, m
    <3>2. smProps = [smProps EXCEPT ![c] = smProps[c]]
      BY <1>4
    <3>3. QED BY <2>4, <3>1, <3>2 DEF Hearing
  <2>5. QED BY <2>2, <2>3, <2>4
<1>7. /\ smProps' \in [Clients -> Known]
      /\ \A d \in Clients \ {c} : smProps'[d] = smProps[d]
      /\ c \in link' => smProps'[c] = Hearing(smProps[c], m)
  BY <1>4, <1>5, <1>6
<1>8. PropsOf(c)'
  BY <1>1, <1>2, <1>4, <1>5, <1>6, <1>7 DEF PropsOf, Members
<1>9. \A d \in Clients \ {c} : PropsLeft(d)
  BY <1>1, <1>2, <1>6, <1>7 DEF PropsLeft, Members
<1>10. QED BY <1>7, <1>8, <1>9, PropsStep

\* A client joins, and says what it has.
LEMMA JoinsTells ==
    ASSUME SessionType, PropsInv, NEW c \in Clients, NEW known \in BOOLEAN,
           NEW initial \in BOOLEAN, Joins(c, known, initial)
    PROVE  PropsInv'
<1> DEFINE q == IF properties[c] = <<>> THEN <<>>
                ELSE <<SetProperties(properties[c])>>
<1>1. /\ toSM' = [toSM EXCEPT ![c] = q]
      /\ smProps' = [smProps EXCEPT ![c] = Nothing]
      /\ connection' = connection \cup {c} /\ link' = link \cup {c}
      /\ properties' = properties
  BY DEF Joins, Connect
<1>2. OneOfEach(properties[c]) /\ properties[c] \in Seq(Property)
  BY DEF PropsInv, PropsOf, SessionType
<1>3. Nothing \in Known /\ Clean(q) /\ Agrees(q, Nothing, properties[c])
  BY <1>2, AgreesFirst
<1> HIDE DEF q
<1>4. /\ toSM'[c] = q /\ \A d \in Clients \ {c} : toSM'[d] = toSM[d]
      /\ smProps' \in [Clients -> Known] /\ smProps'[c] = Nothing
      /\ \A d \in Clients \ {c} : smProps'[d] = smProps[d]
  BY <1>1, <1>3 DEF SessionType, PropsInv
<1>5. PropsOf(c)'
  BY <1>1, <1>2, <1>3, <1>4 DEF PropsOf
<1>6. \A d \in Clients \ {c} : PropsLeft(d)
  BY <1>1, <1>4 DEF PropsLeft, Members
<1>7. QED BY <1>4, <1>5, <1>6, PropsStep

\* Everything keeps what is known of the properties in step.
LEMMA PropsInductive ==
    /\ Init => PropsInv
    /\ SessionType /\ PropsInv /\ [Next]_vars => PropsInv'
<1>1. ASSUME Init PROVE PropsInv
  <2>1. /\ connection = {} /\ toSM = [c \in Clients |-> <<>>]
        /\ properties = [c \in Clients |-> InitialProps]
        /\ smProps = [c \in Clients |-> Nothing]
    BY <1>1 DEF Init, ClientInit
  <2>2. Nothing \in Known
    BY DEF Nothing, Known
  <2>3. Clean(<<>>)
    BY DEF Clean
  <2>4. QED
    BY <2>1, <2>2, <2>3, InitialPropsAssumption DEF PropsInv, PropsOf, Members
<1>2. ASSUME SessionType, PropsInv, [Next]_vars PROVE PropsInv'
  <2>1. ASSUME NEW c \in Clients, ClientStep(c) PROVE PropsInv'
    BY <1>2, <2>1, ClientTells
  <2>2. ASSUME NEW c \in Clients, AppStep(c) PROVE PropsInv'
    BY <1>2, <2>2, AppTells
  <2>3. ASSUME NEW c \in Clients, SmReceives(c) PROVE PropsInv'
    BY <1>2, <2>3, HearsTells
  <2>4. ASSUME NEW c \in Clients, NEW known \in BOOLEAN,
               NEW initial \in BOOLEAN, Joins(c, known, initial)
        PROVE  PropsInv'
    BY <1>2, <2>4, JoinsTells
  <2>5. ASSUME NEW c \in Clients, NEW kind \in Kinds, SmSaveAgain(c, kind)
        PROVE  PropsInv'
    BY <1>2, <2>5, NonePlain DEF SmSaveAgain, ManagerOnly
  <2>6. ASSUME NEW S, NEW kind \in Kinds, SmSave(S, kind) PROVE PropsInv'
    BY <1>2, <2>6, NonePlain DEF SmSave, ManagerOnly
  <2>7. CASE ManagerStep \/ SmCancel \/ SmDie
    <3>1. ManagerOnly /\ smProps' = smProps
      BY <2>7
      DEF ManagerStep, SmGrantInteract, SmPhase2, SmComplete, SmCancel, SmDie
    <3>2. QED BY <1>2, <3>1, NonePlain DEF ManagerOnly
  <2>8. CASE UNCHANGED vars
    BY <1>2, <2>8, NonePlain DEF vars, clientVars, connections, managerVars
  <2>9. QED
    BY <1>2, <2>1, <2>2, <2>3, <2>4, <2>5, <2>6, <2>7, <2>8 DEF Next
<1>3. QED BY <1>1, <1>2

-----------------------------------------------------------------------------
(* Theorems.                                                               *)

\* The types of the clients' and the manager's variables.
THEOREM SessionTypeCorrect ==
    Spec => [](SessionType /\ smProps \in [Clients -> Known])
<1>1. /\ SessionInv => SessionType
      /\ PropsInv => smProps \in [Clients -> Known]
  BY DEF SessionInv, PropsInv
<1>2. QED BY <1>1, SessionInductive, PropsInductive, PTL DEF Spec

\* Every SaveYourself is answered by one SaveYourselfDone, however the save
\* ends (the callbacks of gsmclient.c and gsm_client_end_save()), as long as
\* the manager waits for one answer before it asks again.
THEOREM AnsweredOnce == Spec => []OneAnswerEach
<1>1. SessionInv => OneAnswerEach
  <2>1. SUFFICES ASSUME SessionInv, ~session.overlap, phase # "dying",
                        NEW c \in connection \cap link
                 PROVE  owed[c] = Pending(toClient[c], "SaveYourself")
                                  + Pending(toSM[c], "SaveYourselfDone")
                                  + (IF priv[c].state = "IDLE" THEN 0 ELSE 1)
    BY DEF OneAnswerEach, AnswersAgree
  <2>2. c \in Clients /\ c \in Members
    BY <2>1 DEF SessionInv, SessionType, Members
  <2>3. Answers(c) = owed[c]
    BY <2>1, <2>2, OneClient DEF Owing
  <2>4. /\ Pending(toClient[c], "SaveYourself") \in Nat
        /\ Pending(toSM[c], "SaveYourselfDone") \in Nat
    BY <2>1, <2>2, OneClient, PendingType
  <2>5. QED BY <2>2, <2>3, <2>4 DEF Answers, Members, State
<1>2. QED BY <1>1, SessionInductive, PTL DEF Spec

\* Whatever saves overlap: the manager never gets more answers than it has
\* asked for.
NoSpareAnswer ==
    \A c \in link : Pending(toSM[c], "SaveYourselfDone") <= owed[c]

THEOREM NeverTooManyAnswers == Spec => []NoSpareAnswer
<1>1. SessionInv => NoSpareAnswer
  <2>1. SUFFICES ASSUME SessionInv, NEW c \in link
                 PROVE  Pending(toSM[c], "SaveYourselfDone") <= owed[c]
    BY DEF NoSpareAnswer
  <2>2. c \in Clients
    BY <2>1 DEF SessionInv, SessionType
  <2>3. Answers(c) <= owed[c] /\ owed[c] \in Nat
    BY <2>1, <2>2, OneClient DEF Owing
  <2>4. /\ Pending(toClient[c], "SaveYourself") \in Nat
        /\ Pending(toSM[c], "SaveYourselfDone") \in Nat
    BY <2>1, <2>2, OneClient, PendingType
  <2>5. /\ Pending(toSM[c], "SaveYourselfDone") <= Answers(c)
        /\ Answers(c) \in Nat
    BY <2>4 DEF Answers
  <2>6. QED BY <2>3, <2>4, <2>5
<1>2. QED BY <1>1, SessionInductive, PTL DEF Spec

\* InteractDone comes only from the client that the manager has let interact
\* (gsm_client_interaction_done()), unless the shutdown was called off.
THEOREM OnlyTheInteractorIsDone == Spec => []InteractDoneExpected
<1>1. SessionInv => InteractDoneExpected
  <2>1. SUFFICES ASSUME SessionInv, phase \notin {"cancelled", "dying"},
                        NEW c \in link, Pending(toSM[c], "InteractDone") > 0
                 PROVE  c \in interactor
    BY DEF InteractDoneExpected
  <2>2. c \in Clients /\ phase \in Live
    BY <2>1 DEF SessionInv, SessionType, Live
  <2>3. Has(toSM[c], "InteractDone")
    BY <2>1, <2>2, OneClient, PendingType
  <2>4. QED BY <2>1, <2>2, <2>3, OneClient DEF Granting
<1>2. QED BY <1>1, SessionInductive, PTL DEF Spec

\* While a client is in phase 2, no other interacts for phase 1 any more
\* (client_save_phase_2_callback(), gsm_client_request_phase2_save()).
THEOREM Phase2ComesAfterPhase1 == Spec => []Phase2Alone
<1>1. SessionInv => Phase2Alone
  <2>1. SUFFICES ASSUME SessionInv, NEW c \in Members, NEW d \in Members,
                        priv[c].state \in {"SAVING_PHASE2",
                                           "INTERACT_REQUESTED_PHASE2"}
                 PROVE  priv[d].state # "INTERACT_REQUESTED"
    BY DEF Phase2Alone, Members
  <2>2. priv[c] \in Private
    BY <2>1 DEF SessionInv, SessionType, Members
  <2>3. State(c) = "INTERACT_REQUESTED_PHASE2"
    BY <2>1, <2>2 DEF State, Private, PrivateIn, States, Interacting
  <2>4. InPhase2(c)
    BY <2>3 DEF InPhase2
  <2>5. BeyondPhase1(d)
    BY <2>1, <2>4 DEF SessionInv, Apart
  <2>6. QED BY <2>5 DEF BeyondPhase1, State
<1>2. QED BY <1>1, SessionInductive, PTL DEF Spec

\* What the manager knows of the properties, and will know once it has read
\* what is on its way, is what the client has: replace_one_prop() and
\* gsm_client_connect() leave nothing out and tell it in order.
THEOREM PropertiesAreTold == Spec => []PropertiesInStep
<1>1. SessionInv => SessionType
  BY DEF SessionInv
<1>2. SessionType /\ PropsInv => PropertiesInStep
  <2>1. SUFFICES ASSUME SessionType, PropsInv, NEW c \in Members,
                        NEW n \in PropNames
                 PROVE  InStep(toSM[c], smProps[c], properties[c], n)
    BY DEF PropertiesInStep, Members
  <2>2. c \in Clients
    BY <2>1 DEF SessionType, Members
  <2>3. QED BY <2>1, <2>2 DEF PropsInv, PropsOf, Agrees
<1>3. QED BY <1>1, <1>2, SessionInductive, PropsInductive, PTL DEF Spec
==============================================================================
