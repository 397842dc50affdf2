-------------------------- MODULE SessionServerProofs --------------------------
(***************************************************************************)
(* The registry of sessions, the reference count of the socket runtime and *)
(* the end of main are right for any number of connections and any limit   *)
(* on them.                                                                *)
(***************************************************************************)
EXTENDS SessionServer, FiniteSetTheorems, TLAPS

MainStages ==
  {"accepting", "selecting", "stopping", "interrupting", "joining", "closing", "returning", "returned"}

ThreadStages ==
  {"none", "started", "looping", "receiving", "serving", "answering", "halting", "replying",
   "raising", "closing", "ending", "leaving", "ended"}

TypeOK ==
  /\ peer \in [Connections -> {"away", "queued", "connected", "gone"}]
  /\ main \in MainStages
  /\ stopping \in BOOLEAN /\ listening \in BOOLEAN
  /\ thread \in [Connections -> ThreadStages]
  /\ socket \in [Connections -> {"none", "open", "interrupted", "closed"}]
  /\ sessions \in SUBSET Connections
  /\ governor \in {"running", "shutdown", "destroyed"}
  /\ users \in Int

\* Threads are all joined where main goes on from joining them.
MainIsLast ==
  /\ main \in {"closing", "returning", "returned"} =>
       \A c \in Connections : thread[c] \in {"none", "ended"}
  /\ governor = "destroyed" <=> main = "returned"

OpenSockets == {c \in Connections : socket[c] \in Open}

\* Every reference to the runtime that has not been released is counted.
ReferencesCounted ==
  /\ listening <=> main \notin {"returning", "returned"}
  /\ Cardinality(OpenSockets) + (IF listening THEN 1 ELSE 0) + (IF governor = "running" THEN 1 ELSE 0)
       <= users

\* Types are kept by every step.
LEMMA StepTypes == ASSUME TypeOK, [Next]_vars PROVE TypeOK'
<1> USE DEF TypeOK, MainStages, ThreadStages
<1>1. ASSUME NEW c \in Connections, Connect(c) \/ Leave(c) PROVE TypeOK'
  BY <1>1 DEF Connect, Leave, processVars
<1>2. CASE MainStep
  <2>1. CASE Poll \/ PollAgain \/ AcceptFails \/ Stop \/ Join \/ Return
    BY <2>1 DEF Poll, PollAgain, AcceptFails, Stop, Join, Return
  <2>2. ASSUME NEW c \in Connections, Accept(c) \/ Refuse(c) PROVE TypeOK'
    BY <2>2 DEF Accept, Refuse, WithReference
  <2>3. CASE Interrupt
    BY <2>3 DEF Interrupt
  <2>4. CASE CloseListener
    <3>1. peer' \in [Connections -> {"away", "queued", "connected", "gone"}]
      BY <2>4 DEF CloseListener
    <3>2. listening' \in BOOLEAN /\ UNCHANGED stopping
      BY <2>4 DEF CloseListener
    <3>3. main' \in MainStages /\ users' \in Int
      BY <2>4 DEF CloseListener
    <3>4. QED
      BY <2>4, <3>1, <3>2, <3>3 DEF CloseListener
  <2>5. QED
    BY <1>2, <2>1, <2>2, <2>3, <2>4 DEF MainStep
<1>3. ASSUME NEW c \in Connections, Receive(c) \/ Send(c) \/ SessionStep(c) PROVE TypeOK'
  <2>1. CASE Register(c) \/ Unregister(c)
    BY <2>1 DEF Register, Unregister, Goes
  <2>2. CASE Look(c) \/ Receive(c) \/ ReceiveNothing(c) \/ Serve(c) \/ Send(c) \/ SendFails(c)
    BY <2>2 DEF Look, Receive, ReceiveNothing, Serve, Send, SendFails, Goes
  <2>3. CASE Halt(c) \/ RaiseFlag(c)
    <3>1. thread' \in [Connections -> ThreadStages]
      BY <2>3 DEF Halt, RaiseFlag, Goes
    <3>2. stopping' \in BOOLEAN
      BY <2>3 DEF Halt, RaiseFlag
    <3>3. governor' \in {"running", "shutdown", "destroyed"} /\ users' \in Int
      BY <2>3 DEF Halt, RaiseFlag
    <3>4. UNCHANGED <<peer, main, listening, socket, sessions>>
      BY <2>3 DEF Halt, RaiseFlag
    <3>5. QED
      BY <3>1, <3>2, <3>3, <3>4
  <2>4. CASE CloseOwn(c) \/ End(c)
    BY <2>4 DEF CloseOwn, End, Closes, Goes
  <2>5. QED
    BY <1>3, <2>1, <2>2, <2>3, <2>4 DEF SessionStep
<1>4. CASE UNCHANGED vars
  BY <1>4 DEF vars, processVars
<1>5. QED
  BY <1>1, <1>2, <1>3, <1>4 DEF Next

\* Types, for every value of the constants.
THEOREM TypeCorrect == Spec => []TypeOK
<1>1. Init => TypeOK
  <2> SUFFICES ASSUME Init PROVE TypeOK
    OBVIOUS
  <2>1. stopping \in BOOLEAN /\ listening \in BOOLEAN
    BY DEF Init
  <2>2. QED
    BY <2>1 DEF Init, TypeOK, MainStages, ThreadStages
<1>2. QED
  BY <1>1, StepTypes, PTL DEF Spec

\* A thread leaves the stages that have an entry by way of Unregister only.
LEMMA StepKeepsRegistry ==
  ASSUME TypeOK, RegistryHasNoDeadSocket, [Next]_vars
  PROVE  RegistryHasNoDeadSocket'
<1> USE DEF TypeOK, RegistryHasNoDeadSocket
<1>1. ASSUME NEW c \in Connections, Connect(c) \/ Leave(c) PROVE RegistryHasNoDeadSocket'
  BY <1>1 DEF Connect, Leave, processVars
<1>2. CASE MainStep
  BY <1>2 DEF MainStep, Poll, PollAgain, AcceptFails, Accept, Refuse, Stop, Interrupt, Join,
              CloseListener, Return
<1>3. ASSUME NEW c \in Connections, Receive(c) \/ Send(c) \/ SessionStep(c)
      PROVE  RegistryHasNoDeadSocket'
  <2>1. CASE Register(c) \/ Unregister(c)
    BY <2>1 DEF Register, Unregister, Goes
  <2>2. CASE Look(c) \/ Receive(c) \/ ReceiveNothing(c) \/ Serve(c) \/ Send(c) \/ SendFails(c)
    BY <2>2 DEF Look, Receive, ReceiveNothing, Serve, Send, SendFails, Goes
  <2>3. CASE Halt(c) \/ RaiseFlag(c) \/ CloseOwn(c)
    BY <2>3 DEF Halt, RaiseFlag, CloseOwn, Goes
  <2>4. CASE End(c)
    BY <2>4 DEF End, Goes
  <2>5. QED
    BY <1>3, <2>1, <2>2, <2>3, <2>4 DEF SessionStep
<1>4. CASE UNCHANGED vars
  BY <1>4 DEF vars, processVars
<1>5. QED
  BY <1>1, <1>2, <1>3, <1>4 DEF Next

\* What main may interrupt is always the socket of a thread that has not ended.
THEOREM NoDeadSocketRegistered == Spec => []RegistryHasNoDeadSocket
<1>1. Init => RegistryHasNoDeadSocket
  BY DEF Init, RegistryHasNoDeadSocket
<1>2. QED
  BY <1>1, StepKeepsRegistry, TypeCorrect, PTL DEF Spec

\* No session's thread takes a step, and none is started, once main has joined them.
LEMMA StepKeepsMainLast == ASSUME TypeOK, MainIsLast, [Next]_vars PROVE MainIsLast'
<1> USE DEF TypeOK, MainIsLast
<1>1. ASSUME NEW c \in Connections, Connect(c) \/ Leave(c) PROVE MainIsLast'
  BY <1>1 DEF Connect, Leave, processVars
<1>2. CASE MainStep
  <2>1. CASE Poll \/ PollAgain \/ AcceptFails \/ Stop \/ Interrupt \/ CloseListener \/ Return
    BY <2>1 DEF Poll, PollAgain, AcceptFails, Stop, Interrupt, CloseListener, Return
  <2>2. ASSUME NEW c \in Connections, Accept(c) \/ Refuse(c) PROVE MainIsLast'
    BY <2>2 DEF Accept, Refuse
  <2>3. CASE Join
    BY <2>3 DEF Join, Joined, Spawned
  <2>4. QED
    BY <1>2, <2>1, <2>2, <2>3 DEF MainStep
<1>3. ASSUME NEW c \in Connections, Receive(c) \/ Send(c) \/ SessionStep(c) PROVE MainIsLast'
  <2>1. thread[c] \notin {"none", "ended"} /\ UNCHANGED main
    BY <1>3 DEF SessionStep, Receive, Send, Register, Look, ReceiveNothing, Serve, SendFails, Halt,
                RaiseFlag, CloseOwn, Unregister, End, Goes
  <2>2. main \notin {"closing", "returning", "returned"} /\ governor # "destroyed"
    BY <2>1
  <2>3. governor' # "destroyed"
    BY <1>3, <2>2 DEF SessionStep, Receive, Send, Register, Look, ReceiveNothing, Serve, SendFails,
                      Halt, RaiseFlag, CloseOwn, Unregister, End
  <2>4. QED
    BY <2>1, <2>2, <2>3
<1>4. CASE UNCHANGED vars
  BY <1>4 DEF vars, processVars
<1>5. QED
  BY <1>1, <1>2, <1>3, <1>4 DEF Next

THEOREM MainEndsLast == Spec => []MainIsLast
<1>1. Init => MainIsLast
  BY DEF Init, MainIsLast
<1>2. QED
  BY <1>1, StepKeepsMainLast, TypeCorrect, PTL DEF Spec

\* No session is left to serve a request when main lets go of the governor.
THEOREM NoSessionWithoutGovernor == Spec => []GovernorOutlivesSessions
<1>1. MainIsLast => GovernorOutlivesSessions
  BY DEF MainIsLast, GovernorOutlivesSessions
<1>2. QED
  BY <1>1, MainEndsLast, PTL

--------------------------------------------------------------------------------
(* The reference count *)

LEMMA SomeAreOpen ==
  ASSUME NEW S \in SUBSET Connections
  PROVE  IsFiniteSet(S) /\ Cardinality(S) \in Nat
BY SessionAssumption, FS_Subset, FS_CardinalityType

\* Closing a socket gives up the reference that it holds, and no other.
LEMMA ClosesGivesUpItsOwn ==
  ASSUME TypeOK, NEW c \in Connections, Closes(c), UNCHANGED <<listening, governor, main>>,
         ReferencesCounted
  PROVE  ReferencesCounted'
<1>1. CASE socket[c] \in Open
  <2>1. OpenSockets' = OpenSockets \ {c} /\ c \in OpenSockets
    BY <1>1 DEF Closes, OpenSockets, Open, TypeOK
  <2>2. Cardinality(OpenSockets') = Cardinality(OpenSockets) - 1
    BY <2>1, SomeAreOpen, FS_RemoveElement DEF OpenSockets
  <2>3. Cardinality(OpenSockets) \in Nat
    BY SomeAreOpen DEF OpenSockets
  <2>4. QED
    BY <1>1, <2>2, <2>3 DEF Closes, ReferencesCounted, TypeOK
<1>2. CASE socket[c] \notin Open
  BY <1>2 DEF Closes, ReferencesCounted, OpenSockets
<1>3. QED
  BY <1>1, <1>2

LEMMA StepKeepsReferences ==
  ASSUME TypeOK, MainIsLast, ReferencesCounted, [Next]_vars
  PROVE  ReferencesCounted'
<1>0. Cardinality(OpenSockets) \in Nat
  BY SomeAreOpen DEF OpenSockets
<1>1. CASE UNCHANGED <<main, listening, socket, governor, users>>
  BY <1>1 DEF ReferencesCounted, OpenSockets
<1>2. CASE MainStep
  <2>1. CASE Poll \/ PollAgain \/ AcceptFails \/ Stop \/ Join \/ \E c \in Connections : Refuse(c)
    BY <2>1 DEF Poll, PollAgain, AcceptFails, Stop, Join, Refuse, ReferencesCounted, OpenSockets
  <2>2. ASSUME NEW c \in Connections, Accept(c) PROVE ReferencesCounted'
    <3>1. OpenSockets' = OpenSockets \cup {c}
      BY <2>2 DEF Accept, OpenSockets, Open, TypeOK
    <3>2. Cardinality(OpenSockets') \in {Cardinality(OpenSockets), Cardinality(OpenSockets) + 1}
      BY <3>1, SomeAreOpen, FS_AddElement DEF OpenSockets
    <3>3. users' = users + 1 /\ listening' = listening /\ governor' = governor
          /\ main = "selecting" /\ main' = "accepting"
      BY <2>2 DEF Accept, WithReference
    <3>4. QED
      BY <1>0, <3>2, <3>3 DEF ReferencesCounted, TypeOK
  <2>3. CASE Interrupt
    <3>1. OpenSockets' = OpenSockets
      BY <2>3 DEF Interrupt, OpenSockets, Open
    <3>2. QED
      BY <2>3, <3>1 DEF Interrupt, ReferencesCounted
  <2>4. CASE CloseListener
    BY <1>0, <2>4 DEF CloseListener, ReferencesCounted, OpenSockets, TypeOK
  <2>5. CASE Return
    BY <1>0, <2>5 DEF Return, ReferencesCounted, OpenSockets, TypeOK
  <2>6. QED
    BY <1>2, <2>1, <2>2, <2>3, <2>4, <2>5 DEF MainStep
<1>3. ASSUME NEW c \in Connections, Halt(c) PROVE ReferencesCounted'
  BY <1>0, <1>3 DEF Halt, ReferencesCounted, OpenSockets, TypeOK
<1>4. ASSUME NEW c \in Connections, CloseOwn(c) \/ End(c) PROVE ReferencesCounted'
  <2>1. Closes(c) /\ UNCHANGED <<listening, governor, main>>
    BY <1>4 DEF CloseOwn, End
  <2>2. QED
    BY <2>1, ClosesGivesUpItsOwn
<1>5. ASSUME NEW c \in Connections,
             Connect(c) \/ Leave(c) \/ Receive(c) \/ Send(c) \/ Register(c) \/ Look(c)
               \/ ReceiveNothing(c) \/ Serve(c) \/ SendFails(c) \/ RaiseFlag(c) \/ Unregister(c)
      PROVE  UNCHANGED <<main, listening, socket, governor, users>>
  BY <1>5 DEF Connect, Leave, Receive, Send, Register, Look, ReceiveNothing, Serve, SendFails,
              RaiseFlag, Unregister, processVars
<1>6. QED
  BY <1>1, <1>2, <1>3, <1>4, <1>5 DEF Next, SessionStep, vars, processVars

\* The socket runtime outlives every open socket.
THEOREM RuntimeOutlivesSockets == Spec => []RuntimeIsHeld
<1>1. Init => ReferencesCounted
  <2> SUFFICES ASSUME Init PROVE ReferencesCounted
    OBVIOUS
  <2>1. OpenSockets = {}
    BY DEF Init, OpenSockets, Open
  <2>2. QED
    BY <2>1, FS_EmptySet DEF Init, ReferencesCounted
<1>2. TypeOK /\ ReferencesCounted => RuntimeIsHeld
  BY SomeAreOpen DEF TypeOK, ReferencesCounted, RuntimeIsHeld, OpenSockets
<1>3. QED
  BY <1>1, <1>2, StepKeepsReferences, TypeCorrect, MainEndsLast, PTL DEF Spec

\* Nothing main and the sessions share is freed while one of them uses it.
THEOREM SharedIsFreedLast == Spec => []NothingFreedInUse
<1>1. RuntimeIsHeld /\ GovernorOutlivesSessions => NothingFreedInUse
  BY DEF NothingFreedInUse
<1>2. QED
  BY <1>1, NoSessionWithoutGovernor, RuntimeOutlivesSockets, PTL
================================================================================
