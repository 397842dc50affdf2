----------------------------- MODULE SessionServer -----------------------------
(***************************************************************************)
(* The threads of the coordinator process (src/tools/tg_coordinator.cpp,   *)
(* main): the accept loop, a thread per accepted connection with its entry *)
(* in the registry of live sessions, and the shutdown that one of the      *)
(* sessions is asked for.  Sockets and the reference count of the socket   *)
(* runtime are those of src/src/transport.cpp.                             *)
(*                                                                         *)
(* What a request does to the governor is the business of the other        *)
(* modules: here it is a use of the governor.  Clients do as they like.    *)
(***************************************************************************)
EXTENDS Naturals, FiniteSets

CONSTANTS
  Connections,     \* the connections clients may make
  MaxConnections   \* options.max_connections

ASSUME SessionAssumption == MaxConnections \in Nat /\ IsFiniteSet(Connections)

VARIABLES
  peer,       \* of each connection, the client's end
  main,       \* where main stands
  stopping,   \* the stop flag
  listening,  \* the listener is open
  thread,     \* of each connection, where its session thread stands
  socket,     \* of each connection, the coordinator's end
  sessions,   \* the registry: connections whose socket main may interrupt
  governor,   \* "running", "shutdown", or "destroyed" when main has returned
  users       \* users of the socket runtime

processVars == <<main, stopping, listening, thread, socket, sessions, governor, users>>
vars == <<peer, processVars>>

Open == {"open", "interrupted"}

Spawned == {c \in Connections : thread[c] # "none"}

Init ==
  /\ peer = [c \in Connections |-> "away"]
  /\ main = "accepting"
  /\ stopping = FALSE
  /\ listening = TRUE
  /\ thread = [c \in Connections |-> "none"]
  /\ socket = [c \in Connections |-> "none"]
  /\ sessions = {}
  /\ governor = "running"
  /\ users = 2

--------------------------------------------------------------------------------
(* Clients *)

Connect(c) ==
  /\ peer[c] = "away" /\ listening
  /\ peer' = [peer EXCEPT ![c] = "queued"]
  /\ UNCHANGED processVars

Leave(c) ==
  /\ peer[c] \in {"queued", "connected"}
  /\ peer' = [peer EXCEPT ![c] = "gone"]
  /\ UNCHANGED processVars

--------------------------------------------------------------------------------
(* The accept loop *)

\* accept_one looks at the stop flag before every select.
Poll ==
  /\ main = "accepting"
  /\ main' = IF stopping THEN "stopping" ELSE "selecting"
  /\ UNCHANGED <<peer, stopping, listening, thread, socket, sessions, governor, users>>

\* select times out.
PollAgain ==
  /\ main = "selecting"
  /\ \A c \in Connections : peer[c] # "queued"
  /\ main' = "accepting"
  /\ UNCHANGED <<peer, stopping, listening, thread, socket, sessions, governor, users>>

\* select or accept fails, or the runtime cannot be referenced: the loop ends.
AcceptFails ==
  /\ main = "selecting"
  /\ main' = "stopping"
  /\ UNCHANGED <<peer, stopping, listening, thread, socket, sessions, governor, users>>

WithReference(n) == n + 1

\* An accepted socket holds a reference of its own to the runtime.
Accept(c) ==
  /\ main = "selecting"
  /\ peer[c] = "queued"
  /\ Cardinality(Spawned) < MaxConnections
  /\ peer' = [peer EXCEPT ![c] = "connected"]
  /\ socket' = [socket EXCEPT ![c] = "open"]
  /\ users' = WithReference(users)
  /\ thread' = [thread EXCEPT ![c] = "started"]
  /\ main' = "accepting"
  /\ UNCHANGED <<stopping, listening, sessions, governor>>

\* Threads are counted that have ended as well: they are joined at the end only.
Refuse(c) ==
  /\ main = "selecting"
  /\ peer[c] = "queued"
  /\ Cardinality(Spawned) >= MaxConnections
  /\ peer' = [peer EXCEPT ![c] = "gone"]
  /\ main' = "accepting"
  /\ UNCHANGED <<stopping, listening, thread, socket, sessions, governor, users>>

--------------------------------------------------------------------------------
(* A session *)

Goes(c, from, to) ==
  /\ thread[c] = from
  /\ thread' = [thread EXCEPT ![c] = to]

Register(c) ==
  /\ Goes(c, "started", "looping")
  /\ sessions' = sessions \cup {c}
  /\ UNCHANGED <<peer, main, stopping, listening, socket, governor, users>>

\* Mutation: the stop flag is looked at before the session is registered only.
NeverStops == FALSE

Stops == stopping

Look(c) ==
  /\ Goes(c, "looping", IF Stops THEN "ending" ELSE "receiving")
  /\ UNCHANGED <<peer, main, stopping, listening, socket, sessions, governor, users>>

\* recv_frame returns a frame the client has sent, perhaps before it left or before
\* the socket was shut down.  DISCONNECT ends the session.
Receive(c) ==
  /\ socket[c] \in Open
  /\ \E next \in {"serving", "halting", "ending"} : Goes(c, "receiving", next)
  /\ UNCHANGED <<peer, main, stopping, listening, socket, sessions, governor, users>>

\* recv_frame fails: the client is gone, or the socket was shut down under it.
ReceiveNothing(c) ==
  /\ Goes(c, "receiving", "ending")
  /\ peer[c] = "gone" \/ socket[c] = "interrupted"
  /\ UNCHANGED <<peer, main, stopping, listening, socket, sessions, governor, users>>

Serve(c) ==
  /\ Goes(c, "serving", "answering")
  /\ UNCHANGED <<peer, main, stopping, listening, socket, sessions, governor, users>>

\* governor.shutdown, whatever comes of it: the first one releases the governor's
\* reference to the runtime.
Halt(c) ==
  /\ Goes(c, "halting", "replying")
  /\ IF governor = "running"
     THEN governor' = "shutdown" /\ users' = users - 1
     ELSE UNCHANGED <<governor, users>>
  /\ UNCHANGED <<peer, main, stopping, listening, socket, sessions>>

\* send_bytes returns: there was room for the answer, or the client made some.
Send(c) ==
  /\ Goes(c, "answering", "looping") \/ Goes(c, "replying", "raising")
  /\ UNCHANGED <<peer, main, stopping, listening, socket, sessions, governor, users>>

\* send_bytes fails; the failure to answer a shutdown is of no consequence.
SendFails(c) ==
  /\ peer[c] = "gone" \/ socket[c] = "interrupted"
  /\ Goes(c, "answering", "ending") \/ Goes(c, "replying", "raising")
  /\ UNCHANGED <<peer, main, stopping, listening, socket, sessions, governor, users>>

RaiseFlag(c) ==
  /\ Goes(c, "raising", "closing")
  /\ stopping' = TRUE
  /\ UNCHANGED <<peer, main, listening, socket, sessions, governor, users>>

\* TcpSocket::close
Closes(c) ==
  IF socket[c] \in Open
  THEN socket' = [socket EXCEPT ![c] = "closed"] /\ users' = users - 1
  ELSE UNCHANGED <<socket, users>>

CloseOwn(c) ==
  /\ Goes(c, "closing", "ending")
  /\ Closes(c)
  /\ UNCHANGED <<peer, main, stopping, listening, sessions, governor>>

\* Mutation: an early return that leaves the entry in the registry.
EndRegistered(c) ==
  /\ Goes(c, "ending", "leaving")
  /\ \E entries \in {sessions, sessions \ {c}} : sessions' = entries
  /\ UNCHANGED <<peer, main, stopping, listening, socket, governor, users>>

\* ~SessionGuard, on every way out
Unregister(c) ==
  /\ Goes(c, "ending", "leaving")
  /\ sessions' = sessions \ {c}
  /\ UNCHANGED <<peer, main, stopping, listening, socket, governor, users>>

\* The thread ends with its socket.
End(c) ==
  /\ Goes(c, "leaving", "ended")
  /\ Closes(c)
  /\ UNCHANGED <<peer, main, stopping, listening, sessions, governor>>

\* What a session does of itself; Receive and Send wait for the client.
SessionStep(c) ==
  \/ Register(c) \/ Look(c) \/ ReceiveNothing(c) \/ Serve(c) \/ SendFails(c) \/ Halt(c)
  \/ RaiseFlag(c) \/ CloseOwn(c) \/ Unregister(c) \/ End(c)

--------------------------------------------------------------------------------
(* The end of main *)

Stop ==
  /\ main = "stopping"
  /\ stopping' = TRUE
  /\ main' = "interrupting"
  /\ UNCHANGED <<peer, listening, thread, socket, sessions, governor, users>>

\* interrupt_sessions, under the registry's mutex
Interrupt ==
  /\ main = "interrupting"
  /\ socket' = [c \in Connections |->
       IF c \in sessions /\ socket[c] = "open" THEN "interrupted" ELSE socket[c]]
  /\ main' = "joining"
  /\ UNCHANGED <<peer, stopping, listening, thread, sessions, governor, users>>

\* Mutation: the threads that still have an entry are joined.
Registered == sessions

Joined == Spawned

Join ==
  /\ main = "joining"
  /\ \A c \in Joined : thread[c] = "ended"
  /\ main' = "closing"
  /\ UNCHANGED <<peer, stopping, listening, thread, socket, sessions, governor, users>>

\* The listener is closed, the connections that wait for it with it.
CloseListener ==
  /\ main = "closing"
  /\ listening' = FALSE
  /\ users' = users - 1
  /\ peer' = [c \in Connections |-> IF peer[c] = "queued" THEN "gone" ELSE peer[c]]
  /\ main' = "returning"
  /\ UNCHANGED <<stopping, thread, socket, sessions, governor>>

\* main returns and the governor with it, without releasing its reference.
Return ==
  /\ main = "returning"
  /\ main' = "returned"
  /\ governor' = "destroyed"
  /\ UNCHANGED <<peer, stopping, listening, thread, socket, sessions, users>>

MainStep ==
  \/ Poll \/ PollAgain \/ AcceptFails
  \/ \E c \in Connections : Accept(c) \/ Refuse(c)
  \/ Stop \/ Interrupt \/ Join \/ CloseListener \/ Return

Next ==
  \/ \E c \in Connections : Connect(c) \/ Leave(c) \/ Receive(c) \/ Send(c)
  \/ MainStep
  \/ \E c \in Connections : SessionStep(c)

Spec == Init /\ [][Next]_vars

\* Every thread of the coordinator is scheduled; clients need not
\* send a request, take an answer or leave.
Fairness == WF_vars(MainStep) /\ \A c \in Connections : WF_vars(SessionStep(c))
FairSpec == Spec /\ Fairness

--------------------------------------------------------------------------------
(* Properties *)

\* tg_coordinator.cpp, "so a retired session can never leave a dangling pointer
\* behind": what main may interrupt is the socket of a thread that has not ended.
RegistryHasNoDeadSocket ==
  \A c \in sessions : thread[c] \notin {"none", "leaving", "ended"}

\* transport.cpp, accept_one: the socket runtime is not torn down underneath the
\* listener or a session that is still open, however connections come and go and
\* whoever shuts the governor down.
RuntimeIsHeld ==
  Cardinality({c \in Connections : socket[c] \in Open}) + (IF listening THEN 1 ELSE 0) <= users

\* Sessions hold a reference to the governor main owns: none is left, and no
\* request is served, once main has let go of it.
GovernorOutlivesSessions ==
  governor = "destroyed" => \A c \in Connections : thread[c] \in {"none", "ended"}

\* Whichever of main, the sessions and the clients ends first, nothing shared is
\* freed in use: neither the socket runtime nor the governor.
NothingFreedInUse == RuntimeIsHeld /\ GovernorOutlivesSessions

\* README, concurrency model: shutdown unblocks idle sessions before it joins their
\* threads, "rather than waiting on a client that has nothing more to say": once the
\* stop flag is raised or the accept loop has ended, the process ends, whatever
\* clients do or leave undone.
CoordinatorStops ==
  stopping \/ main = "stopping" ~> main = "returned"
================================================================================
