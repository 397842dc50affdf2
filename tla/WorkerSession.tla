---------------------------- MODULE WorkerSession ----------------------------
(***************************************************************************)
(* The framed conversation between the coordinator's session threads       *)
(* (src/tools/tg_coordinator.cpp) and its clients: worker processes        *)
(* (src/tools/tg_worker.cpp), each one incarnation of a worker, and        *)
(* drivers (src/tools/tg_cli.cpp) that send one request and leave.  Every  *)
(* client closes its request with RESPONSE_END and reads frames up to the  *)
(* next RESPONSE_END; the coordinator takes frames one by one and answers  *)
(* each of them, the RESPONSE_END included, with a group of its own.       *)
(*                                                                         *)
(* A channel is one direction of one TCP connection, a sequence of whole   *)
(* frames bounded by what the two socket buffers hold.  Of the governor    *)
(* the model keeps the worker registry and the last reading of each        *)
(* worker's device; the epoch is constant while a connection lasts.        *)
(***************************************************************************)
EXTENDS Integers, Sequences, FiniteSets

CONSTANTS
  Processes,    \* worker processes
  Drivers,      \* command line clients
  Workers,
  WorkerOf,     \* --worker-id of each process
  BootOf,       \* --boot of each process
  Rounds,       \* scripted observations of each process: repeat times the temperatures
  DriverKinds,  \* the requests a driver may send
  RequestRoom,  \* bound: frames the buffers towards the coordinator hold
  AnswerRoom    \* bound: frames the buffers towards a client hold

Clients == Processes \cup Drivers
RequestKinds == {"QUERY_REQUEST", "INTENT_ACK", "INTENT_RESULT", "HEARTBEAT", "DISCONNECT"}

ASSUME SessionAssumption ==
  /\ Processes \cap Drivers = {}
  /\ WorkerOf \in [Processes -> Workers] /\ BootOf \in [Processes -> Nat \ {0}]
  /\ Rounds \in [Processes -> Nat] /\ RequestRoom \in Nat \ {0} /\ AnswerRoom \in Nat \ {0}
  /\ DriverKinds \subseteq RequestKinds
  /\ "shutdown" \notin Workers

Verbs == Workers \cup {"shutdown"}  \* worker-death of a worker, or shutdown

VARIABLES
  stage,         \* "new", "hello", "publishing", "asking", "telling", "ready", "left"
  outbox,        \* frames of the current request the client has yet to send
  published,     \* sequence: observations a process has put in its outbox
  group,         \* answers read since the last RESPONSE_END
  groups,        \* RESPONSE_ENDs read by read_group
  readyFile,     \* processes that have written their ready file
  acknowledged,  \* the frames whose PUBLISH_ACK the process has read
  toServer, toClient,
  session,       \* "none", "open", "halting" (answering shutdown), "closed"
  handled,       \* frames taken by the session
  reply,         \* answers the session has yet to send
  boot, alive,   \* the governor's worker registry
  held, usable,  \* last reading of each worker's device; whether it is not invalidated
  down,          \* governor.shutdown() was called
  stopping       \* the coordinator's cooperative stop flag

clientVars == <<stage, outbox, published, group, groups, readyFile, acknowledged>>
sessionVars == <<session, handled, reply>>
governorVars == <<boot, alive, held, usable, down>>
vars == <<clientVars, toServer, toClient, sessionVars, governorVars, stopping>>

\* A request names its observation or verb; an answer names (for the properties
\* only) the frame it answers, frames being numbered from 1 on a connection.
Request(kind, n, verb) == [kind |-> kind, n |-> n, verb |-> verb]
Answer(kind, accepted, to) == [kind |-> kind, accepted |-> accepted, to |-> to]

Init ==
  /\ stage = [c \in Clients |-> "new"] /\ outbox = [c \in Clients |-> <<>>]
  /\ published = [c \in Clients |-> 0]
  /\ group = [c \in Clients |-> <<>>] /\ groups = [c \in Clients |-> 0]
  /\ readyFile = {} /\ acknowledged = [c \in Clients |-> {}]
  /\ toServer = [c \in Clients |-> <<>>] /\ toClient = [c \in Clients |-> <<>>]
  /\ session = [c \in Clients |-> "none"] /\ handled = [c \in Clients |-> 0]
  /\ reply = [c \in Clients |-> <<>>]
  /\ boot = [w \in Workers |-> 0] /\ alive = [w \in Workers |-> FALSE]
  /\ held = [w \in Workers |-> [boot |-> 0, n |-> 0]] /\ usable = [w \in Workers |-> FALSE]
  /\ down = FALSE /\ stopping = FALSE

Gone(c) == stage[c] = "left"
Engaged(c) == stage[c] \in {"hello", "publishing", "asking", "telling", "ready"}

-----------------------------------------------------------------------------
(* Clients *)

\* send_bytes followed by send_end
Closed(request) == <<request, Request("RESPONSE_END", 0, "none")>>

\* connect_to and the first request of main.  A coordinator that is stopping
\* refuses the connection or never serves it.
Connect(c, s, request) ==
  /\ stage[c] = "new"
  /\ IF stopping
     THEN /\ stage' = [stage EXCEPT ![c] = "left"]
          /\ UNCHANGED <<outbox, session>>
     ELSE /\ stage' = [stage EXCEPT ![c] = s]
          /\ outbox' = [outbox EXCEPT ![c] = Closed(request)]
          /\ session' = [session EXCEPT ![c] = "open"]
  /\ UNCHANGED <<published, group, groups, readyFile, acknowledged, toServer, toClient,
                 handled, reply, governorVars, stopping>>

StartWorker(c) == Connect(c, "hello", Request("HELLO", 0, "none"))

\* The command line client reads no answer to a shutdown.
StartDriver(c, k, v) ==
  Connect(c, IF k = "QUERY_REQUEST" /\ v = "shutdown" THEN "telling" ELSE "asking",
          Request(k, 0, v))

\* The process ends: its memory and its end of the socket are gone.
Leave(c) ==
  /\ stage' = [stage EXCEPT ![c] = "left"]
  /\ outbox' = [outbox EXCEPT ![c] = <<>>]
  /\ group' = [group EXCEPT ![c] = <<>>]
  /\ toClient' = [toClient EXCEPT ![c] = <<>>]
  /\ published' = [published EXCEPT ![c] = 0]
  /\ groups' = [groups EXCEPT ![c] = 0]

\* send_frame blocks while the buffers are full: of frames, those that fit.
Fit(frames, channel, room) ==
  IF Len(frames) + Len(channel) <= room THEN Len(frames) ELSE room - Len(channel)

Put(c) ==
  LET n == Fit(outbox[c], toServer[c], RequestRoom)
  IN /\ Engaged(c) /\ session[c] # "closed" /\ n > 0
     /\ toServer' = [toServer EXCEPT ![c] = @ \o SubSeq(outbox[c], 1, n)]
     /\ IF stage[c] = "telling" /\ n = Len(outbox[c])
        THEN Leave(c)
        ELSE /\ outbox' = [outbox EXCEPT ![c] = SubSeq(@, n + 1, Len(@))]
             /\ UNCHANGED <<stage, published, group, groups, toClient>>
     /\ UNCHANGED <<readyFile, acknowledged, sessionVars, governorVars, stopping>>

Reading(c) == Engaged(c) /\ outbox[c] = <<>> /\ toClient[c] # <<>>
Ends(f) == f.kind = "RESPONSE_END"
\* Mutation: everything up to the last RESPONSE_END received is one group.
LastEnd(c) ==
  CHOOSE i \in DOMAIN toClient[c] :
    Ends(toClient[c][i]) /\ \A j \in (i + 1)..Len(toClient[c]) : ~Ends(toClient[c][j])
Complete(c) == \E i \in DOMAIN toClient[c] : Ends(toClient[c][i])
FirstEnd(c) ==
  CHOOSE i \in DOMAIN toClient[c] :
    Ends(toClient[c][i]) /\ \A j \in 1..(i - 1) : ~Ends(toClient[c][j])

\* recv_frame inside a read_group that cannot return yet, or in the hold loop,
\* which drops what it gets.
Get(c) ==
  /\ Reading(c)
  /\ \/ stage[c] # "ready" /\ ~Complete(c) /\ group' = [group EXCEPT ![c] = @ \o toClient[c]]
     \/ stage[c] = "ready" /\ UNCHANGED group
  /\ toClient' = [toClient EXCEPT ![c] = <<>>]
  /\ UNCHANGED <<stage, outbox, published, groups, readyFile, acknowledged, toServer,
                 sessionVars, governorVars, stopping>>

Frames(s) == {s[i] : i \in DOMAIN s}

\* Mutation: the scripted observations are counted from one.
OneShort(c) ==
  \/ /\ published[c] + 1 < Rounds[c]
     /\ published' = [published EXCEPT ![c] = @ + 1]
     /\ outbox' = [outbox EXCEPT ![c] = Closed(Request("PUBLISH_EVIDENCE", published[c] + 1, "none"))]
     /\ stage' = [stage EXCEPT ![c] = "publishing"]
     /\ UNCHANGED readyFile
  \/ /\ published[c] + 1 >= Rounds[c]
     /\ readyFile' = readyFile \cup {c}
     /\ stage' = [stage EXCEPT ![c] = "ready"]
     /\ UNCHANGED <<outbox, published>>

\* The publish loop: the next observation, or the ready file and then the hold
\* loop.
NextObservation(c) ==
  \/ /\ published[c] < Rounds[c]
     /\ published' = [published EXCEPT ![c] = @ + 1]
     /\ outbox' = [outbox EXCEPT ![c] = Closed(Request("PUBLISH_EVIDENCE", published[c] + 1, "none"))]
     /\ stage' = [stage EXCEPT ![c] = "publishing"]
     /\ UNCHANGED readyFile
  \/ /\ published[c] = Rounds[c]
     /\ readyFile' = readyFile \cup {c}
     /\ stage' = [stage EXCEPT ![c] = "ready"]
     /\ UNCHANGED <<outbox, published>>

\* read_group returns with the frames before the first RESPONSE_END and its
\* caller goes through them.  A group without the answer looked for passes like
\* one with it.
ReadGroup(c) ==
  LET end == FirstEnd(c)
      collected == group[c] \o SubSeq(toClient[c], 1, end - 1)
      refused == \E f \in Frames(collected) : f.kind = "HELLO_ACK" /\ ~f.accepted
  IN /\ Reading(c) /\ stage[c] # "ready" /\ Complete(c)
     /\ acknowledged' = [acknowledged EXCEPT ![c] = @ \cup
          {f.to : f \in {g \in Frames(collected) : g.kind = "PUBLISH_ACK"}}]
     /\ IF c \in Drivers \/ (stage[c] = "hello" /\ refused)
        THEN Leave(c) /\ UNCHANGED readyFile
        ELSE /\ NextObservation(c)
             /\ toClient' = [toClient EXCEPT ![c] = SubSeq(@, end + 1, Len(@))]
             /\ group' = [group EXCEPT ![c] = <<>>]
             /\ groups' = [groups EXCEPT ![c] = @ + 1]
     /\ UNCHANGED <<toServer, sessionVars, governorVars, stopping>>

\* A process is killed at any point, or comes to the end of main when it does
\* not hold; a send or a receive on a connection the coordinator has closed
\* fails, at the latest once everything sent has been read, and every caller
\* then leaves.
Exit(c) ==
  /\ Engaged(c)
  /\ Leave(c)
  /\ UNCHANGED <<readyFile, acknowledged, toServer, sessionVars, governorVars, stopping>>

Break(c) == session[c] = "closed" /\ Exit(c)

-----------------------------------------------------------------------------
(* The governor behind the sessions *)

\* Mutation: a reincarnation leaves what the boot before it published.
RegisterWithoutRetiring(c) ==
  LET w == WorkerOf[c]
  IN /\ boot' = [boot EXCEPT ![w] = BootOf[c]]
     /\ alive' = [alive EXCEPT ![w] = TRUE]
     /\ UNCHANGED <<held, usable, down>>

\* register_worker for a boot that is not behind, and the device registration.
Register(c) ==
  LET w == WorkerOf[c]
  IN /\ boot' = [boot EXCEPT ![w] = BootOf[c]]
     /\ alive' = [alive EXCEPT ![w] = TRUE]
     /\ usable' = [usable EXCEPT ![w] = @ /\ boot[w] = BootOf[c]]
     /\ UNCHANGED <<held, down>>

\* Mutation: the boot of a reading is not compared with the registered one.
AdmittedFromAnyBoot(c) == ~down /\ boot[WorkerOf[c]] > 0 /\ alive[WorkerOf[c]]

\* The worker fence of publish_impl.
Admitted(c) == ~down /\ boot[WorkerOf[c]] = BootOf[c] /\ alive[WorkerOf[c]]

\* compare_evidence against the reading held, within one incarnation only.
Advances(c, n) == held[WorkerOf[c]].boot = BootOf[c] => n > held[WorkerOf[c]].n
Repeats(c, n) == held[WorkerOf[c]] = [boot |-> BootOf[c], n |-> n]

Hold(c, n) ==
  /\ held' = [held EXCEPT ![WorkerOf[c]] = [boot |-> BootOf[c], n |-> n]]
  /\ usable' = [usable EXCEPT ![WorkerOf[c]] = TRUE]
  /\ UNCHANGED <<boot, alive, down>>

\* note_worker_death
NoteDeath(w) ==
  /\ alive' = [alive EXCEPT ![w] = FALSE]
  /\ usable' = [usable EXCEPT ![w] = FALSE]
  /\ UNCHANGED <<boot, held, down>>

-----------------------------------------------------------------------------
(* Sessions *)

\* The session thread returns; its end of the socket is closed.
Close(c) ==
  /\ session' = [session EXCEPT ![c] = "closed"]
  /\ handled' = [handled EXCEPT ![c] = 0]
  /\ reply' = [reply EXCEPT ![c] = <<>>]
  /\ toServer' = [toServer EXCEPT ![c] = <<>>]

\* The top of the session loop: the stop flag, then recv_frame.
CanTake(c) ==
  session[c] = "open" /\ ~stopping /\ reply[c] = <<>> /\ toServer[c] # <<>>

Taking(c, kind) ==
  /\ CanTake(c) /\ Head(toServer[c]).kind = kind
  /\ toServer' = [toServer EXCEPT ![c] = Tail(@)]
  /\ handled' = [handled EXCEPT ![c] = @ + 1]
  /\ UNCHANGED <<clientVars, toClient, stopping>>

\* Mutation: a refusal is sent without its RESPONSE_END.
RefusesWithoutEnd(c, kinds, accepted) ==
  reply' = [reply EXCEPT ![c] =
    [i \in DOMAIN kinds |-> Answer(kinds[i], accepted, handled[c] + 1)] \o
    IF accepted THEN <<Answer("RESPONSE_END", TRUE, handled[c] + 1)>> ELSE <<>>]

Answers(c, kinds, accepted) ==
  reply' = [reply EXCEPT ![c] =
    [i \in DOMAIN kinds |-> Answer(kinds[i], accepted, handled[c] + 1)] \o
    <<Answer("RESPONSE_END", TRUE, handled[c] + 1)>>]

ServeHello(c) ==
  /\ Taking(c, "HELLO")
  /\ \/ /\ BootOf[c] >= boot[WorkerOf[c]]
        /\ Register(c) /\ Answers(c, <<"HELLO_ACK">>, TRUE)
     \/ /\ BootOf[c] < boot[WorkerOf[c]]
        /\ Answers(c, <<"HELLO_ACK">>, FALSE)
        /\ UNCHANGED governorVars
  /\ UNCHANGED session

\* An accepted reading is followed by a summary when it affects a domain that
\* evaluates; a repeated one is answered with success, or refused when its
\* content differs.
ServePublication(c) ==
  LET n == Head(toServer[c]).n
  IN /\ Taking(c, "PUBLISH_EVIDENCE")
     /\ \/ /\ Admitted(c) /\ Advances(c, n) /\ Hold(c, n)
           /\ \E kinds \in {<<"PUBLISH_ACK", "EVALUATE_RESPONSE">>, <<"PUBLISH_ACK">>} :
                Answers(c, kinds, TRUE)
        \/ /\ ~(Admitted(c) /\ Advances(c, n))
           /\ \E accepted \in {FALSE, Admitted(c) /\ Repeats(c, n)} :
                Answers(c, <<"PUBLISH_ACK">>, accepted)
           /\ UNCHANGED governorVars
     /\ UNCHANGED session

\* worker-death (refused when the worker is unknown or the notice names another
\* boot), or shutdown: the governor goes first, the flag after the answer.
ServeQuery(c) ==
  LET v == Head(toServer[c]).verb
  IN /\ Taking(c, "QUERY_REQUEST")
     /\ \/ /\ v = "shutdown"
           /\ down' = TRUE /\ UNCHANGED <<boot, alive, held, usable>>
           /\ session' = [session EXCEPT ![c] = "halting"]
           /\ Answers(c, <<"QUERY_RESPONSE">>, TRUE)
        \/ /\ v # "shutdown"
           /\ \/ boot[v] > 0 /\ NoteDeath(v) /\ Answers(c, <<"QUERY_RESPONSE">>, TRUE)
              \/ UNCHANGED governorVars /\ Answers(c, <<"QUERY_RESPONSE">>, FALSE)
           /\ UNCHANGED session

\* A report or a heartbeat is answered in kind and moves nothing kept here (a
\* HEARTBEAT frame does not reach the governor); any other kind, the
\* RESPONSE_END of each request included, is a protocol error.
AnswerTo ==
  [INTENT_ACK |-> "INTENT_RESULT", INTENT_RESULT |-> "INTENT_RESULT",
   HEARTBEAT |-> "HEARTBEAT", RESPONSE_END |-> "ERROR_RESPONSE"]
Verdicts ==
  [INTENT_ACK |-> BOOLEAN, INTENT_RESULT |-> BOOLEAN, HEARTBEAT |-> {TRUE}, RESPONSE_END |-> {FALSE}]

ServeOther(c) ==
  /\ \E k \in DOMAIN AnswerTo : \E accepted \in Verdicts[k] :
       Taking(c, k) /\ Answers(c, <<AnswerTo[k]>>, accepted)
  /\ UNCHANGED <<session, governorVars>>

ServeDisconnect(c) ==
  /\ CanTake(c) /\ Head(toServer[c]).kind = "DISCONNECT"
  /\ Close(c)
  /\ UNCHANGED <<clientVars, toClient, governorVars, stopping>>

\* send_frame of the answers.  What is sent to a client that is gone is lost.
Reply(c) ==
  LET n == Fit(reply[c], toClient[c], AnswerRoom)
  IN /\ session[c] \in {"open", "halting"} /\ reply[c] # <<>>
     /\ \/ /\ ~Gone(c) /\ n > 0
           /\ toClient' = [toClient EXCEPT ![c] = @ \o SubSeq(reply[c], 1, n)]
           /\ reply' = [reply EXCEPT ![c] = SubSeq(@, n + 1, Len(@))]
        \/ /\ Gone(c)
           /\ reply' = [reply EXCEPT ![c] = <<>>]
           /\ UNCHANGED toClient
     /\ UNCHANGED <<clientVars, toServer, session, handled, governorVars, stopping>>

\* The shutdown has been answered, or could not be: the flag, then the socket.
RaiseFlag(c) ==
  /\ session[c] = "halting" /\ reply[c] = <<>>
  /\ stopping' = TRUE
  /\ Close(c)
  /\ UNCHANGED <<clientVars, toClient, governorVars>>

\* Mutation: an interrupted session waits for its client all the same.
EndSessionIfGone(c) ==
  /\ session[c] = "open" /\ Gone(c)
  /\ Close(c)
  /\ UNCHANGED <<clientVars, toClient, governorVars, stopping>>

\* A session ends when its client is gone (the connection may be reset before
\* what is buffered has been read, or a send fail) and when it is interrupted.
EndSession(c) ==
  /\ session[c] = "open" /\ (Gone(c) \/ stopping)
  /\ Close(c)
  /\ UNCHANGED <<clientVars, toClient, governorVars, stopping>>

-----------------------------------------------------------------------------
ClientStep(c) ==
  Put(c) \/ Get(c) \/ ReadGroup(c) \/ Break(c)

SessionStep(c) ==
  \/ c \in Processes /\ (ServeHello(c) \/ ServePublication(c))  \* no driver sends these
  \/ ServeQuery(c) \/ ServeOther(c) \/ ServeDisconnect(c)
  \/ Reply(c) \/ RaiseFlag(c) \/ EndSession(c)

Next ==
  \/ \E c \in Processes : StartWorker(c)
  \/ \E c \in Drivers, k \in DriverKinds, v \in Verbs \cup {"none"} :
       (v = "none" <=> k # "QUERY_REQUEST") /\ StartDriver(c, k, v)
  \/ \E c \in Clients : ClientStep(c) \/ SessionStep(c)
  \/ \E c \in Processes : Exit(c)

Spec == Init /\ [][Next]_vars

\* While some process or session thread can go on, one of them does; nobody has
\* to start a client, and nothing has to be killed.  (Every behaviour comes to an
\* end, so that nobody can be passed over for ever and this is all that is needed
\* of the scheduler.)
Fairness == WF_vars(\E c \in Clients : ClientStep(c) \/ SessionStep(c))
FairSpec == Spec /\ Fairness

-----------------------------------------------------------------------------
(* Properties *)

Stages == {"new", "hello", "publishing", "asking", "telling", "ready", "left"}
RequestFrames ==
  [kind : RequestKinds \cup {"HELLO", "PUBLISH_EVIDENCE", "RESPONSE_END"}, n : Nat,
   verb : Verbs \cup {"none"}]
AnswerKinds ==
  {"HELLO_ACK", "PUBLISH_ACK", "EVALUATE_RESPONSE", "QUERY_RESPONSE", "INTENT_RESULT", "HEARTBEAT",
   "ERROR_RESPONSE", "RESPONSE_END"}
AnswerFrames == [kind : AnswerKinds, accepted : BOOLEAN, to : Nat]

\* Every variable stays in its set.
TypeOK ==
  /\ stage \in [Clients -> Stages]
  /\ outbox \in [Clients -> Seq(RequestFrames)] /\ toServer \in [Clients -> Seq(RequestFrames)]
  /\ published \in [Clients -> Nat] /\ groups \in [Clients -> Nat]
  /\ handled \in [Clients -> Nat]
  /\ group \in [Clients -> Seq(AnswerFrames)] /\ toClient \in [Clients -> Seq(AnswerFrames)]
  /\ reply \in [Clients -> Seq(AnswerFrames)]
  /\ readyFile \subseteq Processes /\ acknowledged \in [Clients -> SUBSET Nat]
  /\ session \in [Clients -> {"none", "open", "halting", "closed"}]
  /\ boot \in [Workers -> Nat] /\ alive \in [Workers -> BOOLEAN] /\ usable \in [Workers -> BOOLEAN]
  /\ held \in [Workers -> [boot : Nat, n : Nat]]
  /\ down \in BOOLEAN /\ stopping \in BOOLEAN

\* A group read by a client holds the answers to one frame only, the one after
\* those of the groups read before: however the sessions, the senders and the
\* readers interleave, two answers never run together and none is skipped.
AnswersInStep ==
  \A c \in Clients :
    /\ \A f \in Frames(group[c]) : f.to = groups[c] + 1
    /\ \A i \in DOMAIN toClient[c] :
         (\A j \in 1..(i - 1) : ~Ends(toClient[c][j])) /\ stage[c] # "ready"
           => toClient[c][i].to = groups[c] + 1

\* The frame that carries the k-th observation of a process: HELLO and each
\* publication are followed by a RESPONSE_END, which is answered as well.
PublicationFrame(k) == 2 * k + 1

\* A process that has written its ready file has read the outcome of the first
\* half of its observations.  Not of the second half, although a comment at the
\* ready file says so: each request draws two groups and the process reads one.
ReadyHasHalf ==
  \A c \in readyFile : \A k \in 1..Rounds[c] : 2 * k <= Rounds[c] => PublicationFrame(k) \in acknowledged[c]

\* A reading the governor still trusts comes from the registered, live
\* incarnation, whatever is still buffered of the incarnations before it.
TrustedIsCurrent ==
  \A w \in Workers : usable[w] => alive[w] /\ held[w].boot = boot[w]

Newer(r, s) == r.boot > s.boot \/ (r.boot = s.boot /\ r.n > s.n)

\* The reading held of a worker's device only moves forward, by incarnation and
\* then by observation: frames a dead process left in a socket buffer are taken
\* late and never undo what its successor published.
HeldMovesForward == [][\A w \in Workers : held'[w] # held[w] => Newer(held'[w], held[w])]_vars

\* While a process sends its last observation it has read as many groups as it
\* has observations, one for each request before; the session may have answered
\* every frame but the last and those that still fill the buffers.
Unread(c) == (Rounds[c] + 1)..(2 * Rounds[c] + 1 - RequestRoom)

\* The answers to these frames do not fit the buffers: two frames each, and three
\* for a publication (an odd number) that is followed by a summary.
Outgrown(c) == 2 * Cardinality(Unread(c)) + Cardinality({k \in Unread(c) : k % 2 = 1}) > AnswerRoom

\* Both ends wait in a send for the other to read.
Jammed(c) ==
  /\ outbox[c] # <<>> /\ Len(toServer[c]) = RequestRoom
  /\ reply[c] # <<>> /\ Len(toClient[c]) = AnswerRoom

\* Every process that connects becomes ready or leaves, and stays so, provided
\* its script is short enough for the answers it falls behind with to fit the
\* socket buffers.  A longer script can stop in one way only: the worker and its
\* session are both in send_all, each waiting for the other to read.  Nobody waits
\* for an answer that is not given.
ProcessesSettle ==
  <>[](\A c \in Processes :
         stage[c] \in {"new", "ready", "left"} \/ (Outgrown(c) /\ Jammed(c)))

\* Once the coordinator stops, every client that is connected leaves, the
\* workers idling in their hold loop included.
StopReachesAll == stopping ~> \A c \in Clients : ~Engaged(c)

=============================================================================
