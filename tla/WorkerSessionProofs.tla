-------------------------- MODULE WorkerSessionProofs --------------------------
(***************************************************************************)
(* For any number of workers, incarnations, drivers and rounds, and any    *)
(* room in the buffers: what the governor holds of a worker's device only  *)
(* moves forward and is trusted of the registered incarnation only, the    *)
(* answers a client reads keep step with its frames, and a process that is *)
(* ready has read the outcome of half of what it published.                *)
(***************************************************************************)
EXTENDS WorkerSession, SequenceTheorems, WellFoundedInduction, TLAPS

ClientTypes ==
  /\ stage \in [Clients -> Stages]
  /\ outbox \in [Clients -> Seq(RequestFrames)]
  /\ published \in [Clients -> Nat] /\ groups \in [Clients -> Nat]
  /\ group \in [Clients -> Seq(AnswerFrames)]
  /\ readyFile \subseteq Processes /\ acknowledged \in [Clients -> SUBSET Nat]

ChannelTypes ==
  toServer \in [Clients -> Seq(RequestFrames)] /\ toClient \in [Clients -> Seq(AnswerFrames)]

SessionTypes ==
  /\ session \in [Clients -> {"none", "open", "halting", "closed"}]
  /\ handled \in [Clients -> Nat] /\ reply \in [Clients -> Seq(AnswerFrames)]

GovernorTypes ==
  /\ boot \in [Workers -> Nat] /\ alive \in [Workers -> BOOLEAN] /\ usable \in [Workers -> BOOLEAN]
  /\ held \in [Workers -> [boot : Nat, n : Nat]]
  /\ down \in BOOLEAN

LEMMA TypeParts ==
  /\ TypeOK <=> ClientTypes /\ ChannelTypes /\ SessionTypes /\ GovernorTypes /\ stopping \in BOOLEAN
  /\ TypeOK' <=> ClientTypes' /\ ChannelTypes' /\ SessionTypes' /\ GovernorTypes' /\ stopping' \in BOOLEAN
BY DEF TypeOK, ClientTypes, ChannelTypes, SessionTypes, GovernorTypes

--------------------------------------------------------------------------------
(* Frames *)

\* A part of a sequence is a sequence of the same things.
LEMMA PartIsSeq ==
  ASSUME NEW S, NEW s \in Seq(S), NEW m \in Nat \ {0}, NEW n \in Nat, n <= Len(s)
  PROVE  /\ SubSeq(s, m, n) \in Seq(S)
         /\ Len(SubSeq(s, m, n)) = IF m <= n THEN n - m + 1 ELSE 0
         /\ \A i \in 1..(n - m + 1) : SubSeq(s, m, n)[i] = s[m + i - 1]
<1>1. \A i \in m..n : s[i] \in S
  BY ElementOfSeq
<1>2. QED
  BY <1>1, SubSeqProperties

\* One sequence after another, by their lengths.
LEMMA Joined ==
  ASSUME NEW S, NEW s \in Seq(S), NEW t \in Seq(S), NEW m, NEW n, Len(s) = m, Len(t) = n
  PROVE  /\ s \o t \in Seq(S) /\ Len(s \o t) = m + n
         /\ \A i \in 1..(m + n) : (s \o t)[i] = IF i <= m THEN s[i] ELSE t[i - m]
BY ConcatProperties

LEMMA FitIsPart ==
  ASSUME NEW S, NEW T, NEW s \in Seq(S), NEW t \in Seq(T), NEW room \in Nat \ {0},
         Fit(s, t, room) > 0
  PROVE  Fit(s, t, room) \in Nat \ {0} /\ Fit(s, t, room) <= Len(s)
BY LenProperties DEF Fit

LEMMA RequestIsFrame ==
  ASSUME NEW k \in RequestKinds \cup {"HELLO", "PUBLISH_EVIDENCE", "RESPONSE_END"}, NEW n \in Nat,
         NEW v \in Verbs \cup {"none"}
  PROVE  Closed(Request(k, n, v)) \in Seq(RequestFrames)
<1>1. Request(k, n, v) \in RequestFrames
  BY DEF Request, RequestFrames
<1>2. Request("RESPONSE_END", 0, "none") \in RequestFrames
  BY DEF Request, RequestFrames
<1>3. QED
  BY <1>1, <1>2 DEF Closed

LEMMA AnswersAreFrames ==
  ASSUME SessionTypes, NEW c \in Clients, NEW kinds \in Seq(AnswerKinds), NEW accepted \in BOOLEAN,
         Answers(c, kinds, accepted)
  PROVE  reply' \in [Clients -> Seq(AnswerFrames)]
<1> DEFINE s == [i \in DOMAIN kinds |-> Answer(kinds[i], accepted, handled[c] + 1)]
           e == Answer("RESPONSE_END", TRUE, handled[c] + 1)
<1>1. DOMAIN kinds = 1..Len(kinds) /\ Len(kinds) \in Nat
  BY LenProperties
<1>2. handled[c] + 1 \in Nat
  BY DEF SessionTypes
<1>3. \A i \in DOMAIN kinds : s[i] \in AnswerFrames
  BY <1>1, <1>2, ElementOfSeq DEF Answer, AnswerFrames
<1>4. s \in Seq(AnswerFrames)
  BY <1>1, <1>3, SeqDef
<1>5. e \in AnswerFrames
  BY <1>2 DEF Answer, AnswerFrames, AnswerKinds
<1>6. reply' = [reply EXCEPT ![c] = s \o <<e>>]
  BY DEF Answers
<1> HIDE DEF s, e
<1>7. <<e>> \in Seq(AnswerFrames)
  BY <1>5
<1>8. s \o <<e>> \in Seq(AnswerFrames)
  BY <1>4, <1>7, ConcatProperties
<1>9. QED
  BY <1>6, <1>8 DEF SessionTypes

--------------------------------------------------------------------------------
(* What the actions do to the types *)

LEMMA LeaveTypes ==
  ASSUME TypeOK, NEW c \in Clients, Leave(c)
  PROVE  /\ stage' \in [Clients -> Stages] /\ outbox' \in [Clients -> Seq(RequestFrames)]
         /\ published' \in [Clients -> Nat] /\ groups' \in [Clients -> Nat]
         /\ group' \in [Clients -> Seq(AnswerFrames)]
         /\ toClient' \in [Clients -> Seq(AnswerFrames)]
<1>1. <<>> \in Seq(RequestFrames) /\ <<>> \in Seq(AnswerFrames)
  BY EmptySeq
<1>2. QED
  BY <1>1 DEF TypeOK, Leave, Stages

LEMMA CloseTypes ==
  ASSUME TypeOK, NEW c \in Clients, Close(c)
  PROVE  SessionTypes' /\ toServer' \in [Clients -> Seq(RequestFrames)]
<1>1. <<>> \in Seq(RequestFrames) /\ <<>> \in Seq(AnswerFrames)
  BY EmptySeq
<1>2. QED
  BY <1>1 DEF TypeOK, SessionTypes, Close

LEMMA ConnectTypes ==
  ASSUME TypeOK, NEW c \in Clients, NEW s \in Stages, NEW r, Closed(r) \in Seq(RequestFrames),
         Connect(c, s, r)
  PROVE  TypeOK'
<1> USE DEF TypeOK
<1>1. stage' \in [Clients -> Stages]
  <2>1. "left" \in Stages
    BY DEF Stages
  <2>2. stage' = [stage EXCEPT ![c] = "left"] \/ stage' = [stage EXCEPT ![c] = s]
    BY DEF Connect
  <2>3. QED
    BY <2>1, <2>2
<1>2. outbox' \in [Clients -> Seq(RequestFrames)]
  BY DEF Connect
<1>3. session' \in [Clients -> {"none", "open", "halting", "closed"}]
  BY DEF Connect
<1>4. UNCHANGED <<published, group, groups, readyFile, acknowledged, toServer, toClient, handled,
                  reply, governorVars, stopping>>
  BY DEF Connect
<1>5. QED
  BY <1>1, <1>2, <1>3, <1>4 DEF governorVars

LEMMA PutTypes == ASSUME TypeOK, NEW c \in Clients, Put(c) PROVE TypeOK'
<1> DEFINE n == Fit(outbox[c], toServer[c], RequestRoom)
<1>1. outbox[c] \in Seq(RequestFrames) /\ toServer[c] \in Seq(RequestFrames)
  BY DEF TypeOK
<1>2. n \in Nat \ {0} /\ n <= Len(outbox[c])
  BY <1>1, SessionAssumption, FitIsPart DEF Put
<1>3. UNCHANGED <<readyFile, acknowledged, sessionVars, governorVars, stopping>>
  BY DEF Put
<1>4. toServer' = [toServer EXCEPT ![c] = @ \o SubSeq(outbox[c], 1, n)]
  BY DEF Put
<1>5. \/ Leave(c)
      \/ /\ outbox' = [outbox EXCEPT ![c] = SubSeq(@, n + 1, Len(@))]
         /\ UNCHANGED <<stage, published, group, groups, toClient>>
  BY DEF Put
<1> HIDE DEF n
<1>6. Len(outbox[c]) \in Nat
  BY <1>1, LenProperties
<1>7. SubSeq(outbox[c], 1, n) \in Seq(RequestFrames)
  BY <1>1, <1>2, PartIsSeq
<1>8. SubSeq(outbox[c], n + 1, Len(outbox[c])) \in Seq(RequestFrames)
  BY <1>1, <1>2, <1>6, PartIsSeq
<1>9. toServer[c] \o SubSeq(outbox[c], 1, n) \in Seq(RequestFrames)
  BY <1>1, <1>7, ConcatProperties
<1>10. toServer' \in [Clients -> Seq(RequestFrames)]
  BY <1>4, <1>9 DEF TypeOK
<1>11. CASE Leave(c)
  BY <1>3, <1>10, <1>11, LeaveTypes DEF TypeOK, sessionVars, governorVars
<1>12. CASE /\ outbox' = [outbox EXCEPT ![c] = SubSeq(@, n + 1, Len(@))]
            /\ UNCHANGED <<stage, published, group, groups, toClient>>
  <2>1. outbox' \in [Clients -> Seq(RequestFrames)]
    BY <1>8, <1>12 DEF TypeOK
  <2>2. QED
    BY <1>3, <1>10, <1>12, <2>1 DEF TypeOK, sessionVars, governorVars
<1>13. QED
  BY <1>5, <1>11, <1>12

LEMMA GetTypes == ASSUME TypeOK, NEW c \in Clients, Get(c) PROVE TypeOK'
<1>1. group[c] \in Seq(AnswerFrames) /\ toClient[c] \in Seq(AnswerFrames)
  BY DEF TypeOK
<1>2. group[c] \o toClient[c] \in Seq(AnswerFrames) /\ <<>> \in Seq(AnswerFrames)
  BY <1>1, ConcatProperties, EmptySeq
<1>3. toClient' \in [Clients -> Seq(AnswerFrames)]
  BY <1>2 DEF TypeOK, Get
<1>4. group' \in [Clients -> Seq(AnswerFrames)]
  BY <1>2 DEF TypeOK, Get
<1>5. QED
  BY <1>3, <1>4 DEF TypeOK, Get, sessionVars, governorVars

LEMMA ObservationTypes ==
  ASSUME TypeOK, NEW c \in Processes, NextObservation(c)
  PROVE  /\ stage' \in [Clients -> Stages] /\ outbox' \in [Clients -> Seq(RequestFrames)]
         /\ published' \in [Clients -> Nat] /\ readyFile' \subseteq Processes
<1>1. c \in Clients /\ published[c] + 1 \in Nat
  BY DEF Clients, TypeOK
<1>2. Closed(Request("PUBLISH_EVIDENCE", published[c] + 1, "none")) \in Seq(RequestFrames)
  BY <1>1, RequestIsFrame
<1>3. stage' \in [Clients -> Stages]
  BY <1>1 DEF TypeOK, NextObservation, Stages
<1>4. outbox' \in [Clients -> Seq(RequestFrames)]
  BY <1>2 DEF TypeOK, NextObservation
<1>5. published' \in [Clients -> Nat]
  BY <1>1 DEF TypeOK, NextObservation
<1>6. readyFile' \subseteq Processes
  BY DEF TypeOK, NextObservation
<1>7. QED
  BY <1>3, <1>4, <1>5, <1>6

\* The frame of an answer names a frame of the client.
LEMMA AnswersNameFrames ==
  ASSUME NEW s \in Seq(AnswerFrames)
  PROVE  {f.to : f \in {g \in Frames(s) : g.kind = "PUBLISH_ACK"}} \subseteq Nat
<1>1. \A i \in DOMAIN s : s[i] \in AnswerFrames
  BY LenProperties, ElementOfSeq
<1>2. \A f \in Frames(s) : f \in AnswerFrames
  BY <1>1 DEF Frames
<1>3. \A f \in Frames(s) : f.to \in Nat
  BY <1>2 DEF AnswerFrames
<1>4. QED
  BY <1>3

LEMMA SomeAreLeast ==
  ASSUME NEW E \in SUBSET Nat, E # {}
  PROVE  \E x \in E : \A y \in E : x <= y
<1> DEFINE R == OpToRel(<, Nat)
<1>1. IsWellFoundedOn(R, Nat)
  BY NatLessThanWellFounded
<1> HIDE DEF R
<1>2. PICK x \in E : \A y \in E : ~ (<<y, x>> \in R)
  BY <1>1, WFMin
<1>3. \A y \in E : ~ (y < x)
  BY <1>2 DEF R, OpToRel
<1>4. QED
  BY <1>3

LEMMA FirstEndIsFirst ==
  ASSUME NEW c \in Clients, toClient[c] \in Seq(AnswerFrames), Complete(c)
  PROVE  /\ FirstEnd(c) \in 1..Len(toClient[c]) /\ Ends(toClient[c][FirstEnd(c)])
         /\ \A j \in 1..(FirstEnd(c) - 1) : ~Ends(toClient[c][j])
<1> DEFINE s == toClient[c]
           E == {i \in 1..Len(s) : Ends(s[i])}
<1>1. DOMAIN s = 1..Len(s) /\ Len(s) \in Nat
  BY LenProperties
<1>2. E # {} /\ E \subseteq Nat
  BY <1>1 DEF Complete
<1>3. PICK i \in E : \A j \in E : i <= j
  BY <1>2, SomeAreLeast
<1>4. i \in DOMAIN toClient[c] /\ Ends(toClient[c][i])
  BY <1>1, <1>3
<1>5. \A j \in 1..(i - 1) : ~Ends(toClient[c][j])
  BY <1>1, <1>3
<1>6. /\ FirstEnd(c) \in DOMAIN toClient[c] /\ Ends(toClient[c][FirstEnd(c)])
      /\ \A j \in 1..(FirstEnd(c) - 1) : ~Ends(toClient[c][j])
  BY <1>4, <1>5, Zenon DEF FirstEnd
<1>7. QED
  BY <1>1, <1>6

LEMMA ReadGroupTypes == ASSUME TypeOK, NEW c \in Clients, ReadGroup(c) PROVE TypeOK'
<1> DEFINE end == FirstEnd(c)
           before == SubSeq(toClient[c], 1, end - 1)
           after == SubSeq(toClient[c], end + 1, Len(toClient[c]))
           named == {f.to : f \in {g \in Frames(group[c] \o before) : g.kind = "PUBLISH_ACK"}}
<1>1. group[c] \in Seq(AnswerFrames) /\ toClient[c] \in Seq(AnswerFrames) /\ Complete(c)
  BY DEF TypeOK, ReadGroup
<1>2. end \in 1..Len(toClient[c]) /\ Len(toClient[c]) \in Nat
  BY <1>1, FirstEndIsFirst, LenProperties
<1>3. acknowledged' = [acknowledged EXCEPT ![c] = @ \cup named]
  BY DEF ReadGroup
<1>4. \/ Leave(c) /\ UNCHANGED readyFile
      \/ /\ NextObservation(c) /\ c \in Processes
         /\ toClient' = [toClient EXCEPT ![c] = after]
         /\ group' = [group EXCEPT ![c] = <<>>]
         /\ groups' = [groups EXCEPT ![c] = @ + 1]
  BY DEF ReadGroup, Clients
<1>5. UNCHANGED <<toServer, sessionVars, governorVars, stopping>>
  BY DEF ReadGroup
<1> HIDE DEF end
<1>6. before \in Seq(AnswerFrames)
  BY <1>1, <1>2, PartIsSeq
<1>7. after \in Seq(AnswerFrames)
  BY <1>1, <1>2, PartIsSeq
<1>8. named \subseteq Nat
  BY <1>1, <1>6, ConcatProperties, AnswersNameFrames
<1> HIDE DEF before, after, named
<1>9. acknowledged' \in [Clients -> SUBSET Nat]
  BY <1>3, <1>8 DEF TypeOK
<1>10. CASE Leave(c) /\ UNCHANGED readyFile
  BY <1>5, <1>9, <1>10, LeaveTypes DEF TypeOK, sessionVars, governorVars
<1>11. CASE /\ NextObservation(c) /\ c \in Processes
            /\ toClient' = [toClient EXCEPT ![c] = after]
            /\ group' = [group EXCEPT ![c] = <<>>]
            /\ groups' = [groups EXCEPT ![c] = @ + 1]
  <2>1. toClient' \in [Clients -> Seq(AnswerFrames)]
    BY <1>7, <1>11 DEF TypeOK
  <2>2. group' \in [Clients -> Seq(AnswerFrames)]
    BY <1>11, EmptySeq DEF TypeOK
  <2>3. groups' \in [Clients -> Nat]
    BY <1>11 DEF TypeOK
  <2>4. QED
    BY <1>5, <1>9, <1>11, <2>1, <2>2, <2>3, ObservationTypes DEF TypeOK, sessionVars, governorVars
<1>12. QED
  BY <1>4, <1>10, <1>11

LEMMA RegisterTypes == ASSUME TypeOK, NEW c \in Processes, Register(c) PROVE GovernorTypes'
<1> DEFINE w == WorkerOf[c]
           keeps == usable[w] /\ boot[w] = BootOf[c]
<1>1. w \in Workers /\ BootOf[c] \in Nat
  BY SessionAssumption
<1>2. boot' = [boot EXCEPT ![w] = BootOf[c]] /\ alive' = [alive EXCEPT ![w] = TRUE]
      /\ UNCHANGED <<held, down>>
  BY DEF Register
<1>3. usable' = [usable EXCEPT ![w] = keeps]
  BY DEF Register
<1>4. keeps \in BOOLEAN
  OBVIOUS
<1> HIDE DEF w, keeps
<1>5. usable' \in [Workers -> BOOLEAN]
  BY <1>3, <1>4 DEF TypeOK
<1>6. QED
  BY <1>1, <1>2, <1>5 DEF TypeOK, GovernorTypes

LEMMA HoldTypes ==
  ASSUME TypeOK, NEW c \in Processes, NEW n \in Nat, Hold(c, n) PROVE GovernorTypes'
<1>1. WorkerOf[c] \in Workers /\ BootOf[c] \in Nat
  BY SessionAssumption
<1>2. [boot |-> BootOf[c], n |-> n] \in [boot : Nat, n : Nat]
  BY <1>1
<1>3. held' \in [Workers -> [boot : Nat, n : Nat]]
  BY <1>2 DEF TypeOK, Hold
<1>4. QED
  BY <1>3 DEF TypeOK, Hold, GovernorTypes

LEMMA TakingTypes ==
  ASSUME TypeOK, NEW c \in Clients, NEW k, Taking(c, k)
  PROVE  /\ Head(toServer[c]).n \in Nat
         /\ toServer' \in [Clients -> Seq(RequestFrames)] /\ handled' \in [Clients -> Nat]
<1>1. toServer[c] \in Seq(RequestFrames) /\ toServer[c] # <<>>
  BY DEF TypeOK, Taking, CanTake
<1>2. Head(toServer[c]) \in RequestFrames /\ Tail(toServer[c]) \in Seq(RequestFrames)
  BY <1>1, HeadTailProperties
<1>3. Head(toServer[c]).n \in Nat
  BY <1>2 DEF RequestFrames
<1>4. QED
  BY <1>2, <1>3 DEF TypeOK, Taking

LEMMA ServeHelloTypes == ASSUME TypeOK, NEW c \in Processes, ServeHello(c) PROVE TypeOK'
<1>1. c \in Clients /\ WorkerOf[c] \in Workers
  BY SessionAssumption DEF Clients
<1>2. toServer' \in [Clients -> Seq(RequestFrames)] /\ handled' \in [Clients -> Nat]
  BY <1>1, TakingTypes DEF ServeHello
<1>3. <<"HELLO_ACK">> \in Seq(AnswerKinds)
  BY DEF AnswerKinds
<1>4. PICK accepted \in BOOLEAN :
        Answers(c, <<"HELLO_ACK">>, accepted) /\ (Register(c) \/ UNCHANGED governorVars)
  BY DEF ServeHello
<1>5. reply' \in [Clients -> Seq(AnswerFrames)]
  BY <1>1, <1>3, <1>4, TypeParts, AnswersAreFrames
<1>6. GovernorTypes'
  BY <1>4, TypeParts, RegisterTypes DEF governorVars, GovernorTypes
<1>7. UNCHANGED <<clientVars, toClient, session, stopping>>
  BY DEF ServeHello, Taking
<1>8. ClientTypes' /\ ChannelTypes' /\ SessionTypes' /\ stopping' \in BOOLEAN
  BY <1>2, <1>5, <1>7 DEF TypeOK, ClientTypes, ChannelTypes, SessionTypes, clientVars
<1>9. QED
  BY <1>6, <1>8, TypeParts

LEMMA ServePublicationTypes ==
  ASSUME TypeOK, NEW c \in Processes, ServePublication(c) PROVE TypeOK'
<1> DEFINE n == Head(toServer[c]).n
<1>1. c \in Clients
  BY DEF Clients
<1>2. toServer' \in [Clients -> Seq(RequestFrames)] /\ handled' \in [Clients -> Nat] /\ n \in Nat
  BY <1>1, TakingTypes DEF ServePublication
<1>3. <<"PUBLISH_ACK">> \in Seq(AnswerKinds) /\ <<"PUBLISH_ACK", "EVALUATE_RESPONSE">> \in Seq(AnswerKinds)
  BY DEF AnswerKinds
<1>4. PICK kinds \in Seq(AnswerKinds), accepted \in BOOLEAN :
        Answers(c, kinds, accepted) /\ (Hold(c, n) \/ UNCHANGED governorVars)
  <2>1. (Admitted(c) /\ Repeats(c, n)) \in BOOLEAN
    BY DEF Admitted, Repeats
  <2>2. \A a \in {FALSE, Admitted(c) /\ Repeats(c, n)} : a \in BOOLEAN
    BY <2>1
  <2>3. CASE \E kinds \in {<<"PUBLISH_ACK", "EVALUATE_RESPONSE">>, <<"PUBLISH_ACK">>} :
               Answers(c, kinds, TRUE) /\ Hold(c, n)
    BY <1>3, <2>3
  <2>4. CASE \E a \in {FALSE, Admitted(c) /\ Repeats(c, n)} :
               Answers(c, <<"PUBLISH_ACK">>, a) /\ UNCHANGED governorVars
    BY <1>3, <2>2, <2>4
  <2>5. QED
    BY <2>3, <2>4 DEF ServePublication
<1> HIDE DEF n
<1>5. reply' \in [Clients -> Seq(AnswerFrames)]
  BY <1>1, <1>4, TypeParts, AnswersAreFrames
<1>6. GovernorTypes'
  BY <1>2, <1>4, TypeParts, HoldTypes DEF governorVars, GovernorTypes
<1>7. UNCHANGED <<clientVars, toClient, session, stopping>>
  BY DEF ServePublication, Taking
<1>8. ClientTypes' /\ ChannelTypes' /\ SessionTypes' /\ stopping' \in BOOLEAN
  BY <1>2, <1>5, <1>7 DEF TypeOK, ClientTypes, ChannelTypes, SessionTypes, clientVars
<1>9. QED
  BY <1>6, <1>8, TypeParts

LEMMA ServeQueryTypes == ASSUME TypeOK, NEW c \in Clients, ServeQuery(c) PROVE TypeOK'
<1> DEFINE v == Head(toServer[c]).verb
<1>1. toServer' \in [Clients -> Seq(RequestFrames)] /\ handled' \in [Clients -> Nat]
  BY TakingTypes DEF ServeQuery
<1>2. <<"QUERY_RESPONSE">> \in Seq(AnswerKinds)
  BY DEF AnswerKinds
<1>3. PICK accepted \in BOOLEAN : Answers(c, <<"QUERY_RESPONSE">>, accepted)
  BY DEF ServeQuery
<1>4. reply' \in [Clients -> Seq(AnswerFrames)]
  BY <1>2, <1>3, TypeParts, AnswersAreFrames
<1>5. \/ down' = TRUE /\ UNCHANGED <<boot, alive, held, usable>>
      \/ NoteDeath(v)
      \/ UNCHANGED governorVars
  BY DEF ServeQuery
<1>6. session' \in [Clients -> {"none", "open", "halting", "closed"}]
  BY DEF ServeQuery, TypeOK
<1> HIDE DEF v
<1>7. GovernorTypes'
  BY <1>5, TypeParts DEF GovernorTypes, NoteDeath, governorVars
<1>8. UNCHANGED <<clientVars, toClient, stopping>>
  BY DEF ServeQuery, Taking
<1>9. ClientTypes' /\ ChannelTypes' /\ SessionTypes' /\ stopping' \in BOOLEAN
  BY <1>1, <1>4, <1>6, <1>8 DEF TypeOK, ClientTypes, ChannelTypes, SessionTypes, clientVars
<1>10. QED
  BY <1>7, <1>9, TypeParts

LEMMA VerdictsAreBoolean ==
  \A k \in DOMAIN AnswerTo : \A accepted \in Verdicts[k] : accepted \in BOOLEAN
<1>1. DOMAIN AnswerTo = {"INTENT_ACK", "INTENT_RESULT", "HEARTBEAT", "RESPONSE_END"}
  BY DEF AnswerTo
<1>2. /\ Verdicts["INTENT_ACK"] = BOOLEAN /\ Verdicts["INTENT_RESULT"] = BOOLEAN
      /\ Verdicts["HEARTBEAT"] = {TRUE} /\ Verdicts["RESPONSE_END"] = {FALSE}
  BY DEF Verdicts
<1>3. QED
  BY <1>1, <1>2

LEMMA ServeOtherTypes == ASSUME TypeOK, NEW c \in Clients, ServeOther(c) PROVE TypeOK'
<1>1. PICK k \in DOMAIN AnswerTo, accepted \in BOOLEAN :
        Taking(c, k) /\ Answers(c, <<AnswerTo[k]>>, accepted)
  BY VerdictsAreBoolean, Zenon DEF ServeOther
<1>2. toServer' \in [Clients -> Seq(RequestFrames)] /\ handled' \in [Clients -> Nat]
  BY <1>1, TakingTypes
<1>3. AnswerTo[k] \in AnswerKinds
  BY DEF AnswerTo, AnswerKinds
<1>4. <<AnswerTo[k]>> \in Seq(AnswerKinds)
  BY <1>3
<1>5. reply' \in [Clients -> Seq(AnswerFrames)]
  BY <1>1, <1>4, TypeParts, AnswersAreFrames
<1>6. UNCHANGED <<clientVars, toClient, session, governorVars, stopping>>
  BY <1>1 DEF ServeOther, Taking
<1>7. QED
  BY <1>2, <1>5, <1>6 DEF TypeOK, clientVars, governorVars

LEMMA ReplyTypes == ASSUME TypeOK, NEW c \in Clients, Reply(c) PROVE TypeOK'
<1> DEFINE n == Fit(reply[c], toClient[c], AnswerRoom)
<1>1. reply[c] \in Seq(AnswerFrames) /\ toClient[c] \in Seq(AnswerFrames)
  BY DEF TypeOK
<1>2. UNCHANGED <<clientVars, toServer, session, handled, governorVars, stopping>>
  BY DEF Reply
<1>3. CASE /\ n > 0
           /\ toClient' = [toClient EXCEPT ![c] = @ \o SubSeq(reply[c], 1, n)]
           /\ reply' = [reply EXCEPT ![c] = SubSeq(@, n + 1, Len(@))]
  <2>1. n \in Nat \ {0} /\ n <= Len(reply[c]) /\ Len(reply[c]) \in Nat
    BY <1>1, <1>3, SessionAssumption, FitIsPart, LenProperties
  <2> HIDE DEF n
  <2>2. SubSeq(reply[c], 1, n) \in Seq(AnswerFrames)
    BY <1>1, <2>1, PartIsSeq
  <2>3. SubSeq(reply[c], n + 1, Len(reply[c])) \in Seq(AnswerFrames)
    BY <1>1, <2>1, PartIsSeq
  <2>4. toClient[c] \o SubSeq(reply[c], 1, n) \in Seq(AnswerFrames)
    BY <1>1, <2>2, ConcatProperties
  <2>5. toClient' \in [Clients -> Seq(AnswerFrames)]
    BY <1>3, <2>4 DEF TypeOK
  <2>6. reply' \in [Clients -> Seq(AnswerFrames)]
    BY <1>3, <2>3 DEF TypeOK
  <2>7. QED
    BY <1>2, <2>5, <2>6 DEF TypeOK, clientVars, governorVars
<1>4. CASE reply' = [reply EXCEPT ![c] = <<>>] /\ UNCHANGED toClient
  <2>1. reply' \in [Clients -> Seq(AnswerFrames)]
    BY <1>4, EmptySeq DEF TypeOK
  <2>2. QED
    BY <1>2, <1>4, <2>1 DEF TypeOK, clientVars, governorVars
<1>5. QED
  BY <1>3, <1>4 DEF Reply

--------------------------------------------------------------------------------
LEMMA StepTypes == ASSUME TypeOK, [Next]_vars PROVE TypeOK'
<1>1. ASSUME NEW c \in Processes, StartWorker(c) PROVE TypeOK'
  <2>1. c \in Clients /\ "hello" \in Stages
    BY DEF Clients, Stages
  <2>2. Closed(Request("HELLO", 0, "none")) \in Seq(RequestFrames)
    BY RequestIsFrame
  <2>3. QED
    BY <1>1, <2>1, <2>2, ConnectTypes DEF StartWorker
<1>2. ASSUME NEW c \in Drivers, NEW k \in DriverKinds, NEW v \in Verbs \cup {"none"}, StartDriver(c, k, v)
      PROVE  TypeOK'
  <2>1. c \in Clients /\ k \in RequestKinds
    BY SessionAssumption DEF Clients
  <2>2. Closed(Request(k, 0, v)) \in Seq(RequestFrames)
    BY <2>1, RequestIsFrame
  <2>3. (IF k = "QUERY_REQUEST" /\ v = "shutdown" THEN "telling" ELSE "asking") \in Stages
    BY DEF Stages
  <2>4. QED
    BY <1>2, <2>1, <2>2, <2>3, ConnectTypes DEF StartDriver
<1>3. ASSUME NEW c \in Clients, Exit(c) PROVE TypeOK'
  BY <1>3, LeaveTypes DEF Exit, TypeOK, sessionVars, governorVars
<1>4. ASSUME NEW c \in Clients, ClientStep(c) PROVE TypeOK'
  BY <1>3, <1>4, PutTypes, GetTypes, ReadGroupTypes DEF ClientStep, Break
<1>5. ASSUME NEW c \in Clients, SessionStep(c) PROVE TypeOK'
  <2>1. CASE c \in Processes /\ (ServeHello(c) \/ ServePublication(c))
    BY <2>1, ServeHelloTypes, ServePublicationTypes
  <2>2. CASE ServeQuery(c) \/ ServeOther(c) \/ Reply(c)
    BY <2>2, ServeQueryTypes, ServeOtherTypes, ReplyTypes
  <2>3. CASE ServeDisconnect(c) \/ RaiseFlag(c) \/ EndSession(c)
    <3>1. SessionTypes' /\ toServer' \in [Clients -> Seq(RequestFrames)]
      BY <2>3, CloseTypes DEF ServeDisconnect, RaiseFlag, EndSession
    <3>2. UNCHANGED <<clientVars, toClient, governorVars>>
      BY <2>3 DEF ServeDisconnect, RaiseFlag, EndSession
    <3>3. stopping' \in BOOLEAN
      BY <2>3 DEF ServeDisconnect, RaiseFlag, EndSession, TypeOK
    <3>4. ClientTypes' /\ ChannelTypes' /\ GovernorTypes'
      BY <3>1, <3>2 DEF TypeOK, ClientTypes, ChannelTypes, GovernorTypes, clientVars, governorVars
    <3>5. QED
      BY <3>1, <3>3, <3>4, TypeParts
  <2>4. QED
    BY <1>5, <2>1, <2>2, <2>3 DEF SessionStep
<1>6. CASE UNCHANGED vars
  BY <1>6 DEF vars, clientVars, sessionVars, governorVars, TypeOK
<1>7. QED
  BY <1>1, <1>2, <1>3, <1>4, <1>5, <1>6 DEF Next, Clients

\* Every variable stays in its set, for every value of the constants.
THEOREM TypeCorrect == Spec => []TypeOK
<1>1. Init => TypeOK
  <2> SUFFICES ASSUME Init PROVE TypeOK
    OBVIOUS
  <2>1. <<>> \in Seq(RequestFrames) /\ <<>> \in Seq(AnswerFrames) /\ "new" \in Stages
    BY EmptySeq DEF Stages
  <2>2. ClientTypes
    BY <2>1 DEF Init, ClientTypes
  <2>3. ChannelTypes /\ SessionTypes
    BY <2>1 DEF Init, ChannelTypes, SessionTypes
  <2>4. GovernorTypes /\ stopping \in BOOLEAN
    BY DEF Init, GovernorTypes
  <2>5. QED
    BY <2>2, <2>3, <2>4, TypeParts
<1>2. QED
  BY <1>1, StepTypes, PTL DEF Spec

--------------------------------------------------------------------------------
(* What is held of a device *)

\* The steps that touch the registry or a reading.
LEMMA RegistrySteps ==
  ASSUME TypeOK, [Next]_vars
  PROVE  \/ UNCHANGED <<boot, alive, held, usable>>
         \/ \E c \in Processes : Register(c) /\ BootOf[c] >= boot[WorkerOf[c]]
         \/ \E c \in Processes : \E n \in Nat : Admitted(c) /\ Advances(c, n) /\ Hold(c, n)
         \/ \E w : NoteDeath(w)
<1>1. ASSUME NEW c \in Clients, ClientStep(c) \/ Exit(c) PROVE UNCHANGED <<boot, alive, held, usable>>
  BY <1>1 DEF ClientStep, Put, Get, ReadGroup, Break, Exit, governorVars
<1>2. ASSUME NEW c \in Clients, NEW s, NEW r, Connect(c, s, r)
      PROVE  UNCHANGED <<boot, alive, held, usable>>
  BY <1>2 DEF Connect, governorVars
<1>3. ASSUME NEW c \in Clients,
             ServeOther(c) \/ ServeDisconnect(c) \/ Reply(c) \/ RaiseFlag(c) \/ EndSession(c)
      PROVE  UNCHANGED <<boot, alive, held, usable>>
  BY <1>3 DEF ServeOther, ServeDisconnect, Reply, RaiseFlag, EndSession, governorVars
<1>4. ASSUME NEW c \in Clients, ServeQuery(c)
      PROVE  UNCHANGED <<boot, alive, held, usable>> \/ \E w : NoteDeath(w)
  BY <1>4 DEF ServeQuery, governorVars
<1>5. ASSUME NEW c \in Processes, ServeHello(c)
      PROVE  \/ UNCHANGED <<boot, alive, held, usable>>
             \/ Register(c) /\ BootOf[c] >= boot[WorkerOf[c]]
  BY <1>5 DEF ServeHello, governorVars
<1>6. ASSUME NEW c \in Processes, ServePublication(c)
      PROVE  \/ UNCHANGED <<boot, alive, held, usable>>
             \/ \E n \in Nat : Admitted(c) /\ Advances(c, n) /\ Hold(c, n)
  <2>1. Head(toServer[c]).n \in Nat
    BY <1>6, TakingTypes DEF ServePublication, Clients
  <2>2. QED
    BY <1>6, <2>1 DEF ServePublication, governorVars
<1>7. QED
  BY <1>1, <1>2, <1>3, <1>4, <1>5, <1>6
     DEF Next, SessionStep, StartWorker, StartDriver, Clients, vars, governorVars

LEMMA StepKeepsTrust ==
  ASSUME TypeOK, TrustedIsCurrent, [Next]_vars PROVE TrustedIsCurrent'
<1> USE DEF TypeOK, TrustedIsCurrent
<1>1. CASE UNCHANGED <<boot, alive, held, usable>>
  BY <1>1
<1>2. ASSUME NEW c \in Processes, Register(c) PROVE TrustedIsCurrent'
  <2>1. ASSUME NEW w \in Workers, w # WorkerOf[c], usable'[w] PROVE alive'[w] /\ held'[w].boot = boot'[w]
    BY <1>2, <2>1 DEF Register
  <2>2. ASSUME usable'[WorkerOf[c]], WorkerOf[c] \in Workers
        PROVE  alive'[WorkerOf[c]] /\ held'[WorkerOf[c]].boot = boot'[WorkerOf[c]]
    <3>1. usable[WorkerOf[c]] /\ boot[WorkerOf[c]] = BootOf[c]
      BY <1>2, <2>2 DEF Register
    <3>2. boot'[WorkerOf[c]] = BootOf[c] /\ alive'[WorkerOf[c]] /\ held' = held
      BY <1>2, <2>2 DEF Register
    <3>3. QED
      BY <2>2, <3>1, <3>2
  <2>3. QED
    BY <2>1, <2>2
<1>3. ASSUME NEW c \in Processes, NEW n \in Nat, Admitted(c), Hold(c, n) PROVE TrustedIsCurrent'
  BY <1>3 DEF Admitted, Hold
<1>4. ASSUME NEW v, NoteDeath(v) PROVE TrustedIsCurrent'
  BY <1>4 DEF NoteDeath
<1>5. QED
  BY <1>1, <1>2, <1>3, <1>4, RegistrySteps

\* A reading that is trusted comes from the registered, live incarnation, for any
\* number of workers and incarnations and any room in the buffers.
THEOREM OnlyTheCurrentIsTrusted == Spec => []TrustedIsCurrent
<1>1. Init => TrustedIsCurrent
  BY DEF Init, TrustedIsCurrent
<1>2. QED
  BY <1>1, StepKeepsTrust, TypeCorrect, PTL DEF Spec

\* Nothing is held of an incarnation the registry has not reached.
HeldIsRegistered == \A w \in Workers : held[w].boot <= boot[w]

LEMMA StepKeepsRegistered ==
  ASSUME TypeOK, HeldIsRegistered, [Next]_vars PROVE HeldIsRegistered'
<1> USE DEF TypeOK, HeldIsRegistered
<1>1. CASE UNCHANGED <<boot, alive, held, usable>>
  BY <1>1
<1>2. ASSUME NEW c \in Processes, Register(c), BootOf[c] >= boot[WorkerOf[c]] PROVE HeldIsRegistered'
  <2>1. WorkerOf[c] \in Workers /\ BootOf[c] \in Nat
    BY SessionAssumption
  <2>2. \A w \in Workers : boot'[w] >= boot[w] /\ boot'[w] \in Nat /\ held'[w] = held[w]
    BY <1>2, <2>1 DEF Register
  <2>3. \A w \in Workers : held[w].boot \in Nat
    OBVIOUS
  <2>4. QED
    BY <2>2, <2>3
<1>3. ASSUME NEW c \in Processes, NEW n \in Nat, Admitted(c), Hold(c, n) PROVE HeldIsRegistered'
  BY <1>3, SessionAssumption DEF Admitted, Hold
<1>4. ASSUME NEW v, NoteDeath(v) PROVE HeldIsRegistered'
  BY <1>4 DEF NoteDeath
<1>5. QED
  BY <1>1, <1>2, <1>3, <1>4, RegistrySteps

\* What is held only moves on, by incarnation and then by observation: frames of a
\* dead incarnation that are still buffered never undo what its successor did.
THEOREM HeldOnlyAdvances == Spec => HeldMovesForward
<1>1. Init => HeldIsRegistered
  BY DEF Init, HeldIsRegistered
<1>2. ASSUME TypeOK, HeldIsRegistered, [Next]_vars
      PROVE  [\A w \in Workers : held'[w] # held[w] => Newer(held'[w], held[w])]_vars
  <2>1. ASSUME NEW c \in Processes, NEW n \in Nat, Admitted(c), Advances(c, n), Hold(c, n), NEW w \in Workers,
               held'[w] # held[w]
        PROVE  Newer(held'[w], held[w])
    <3>1. w = WorkerOf[c] /\ held'[w] = [boot |-> BootOf[c], n |-> n]
      BY <2>1 DEF Hold, TypeOK
    <3>2. held[w].boot <= BootOf[c] /\ (held[w].boot = BootOf[c] => n > held[w].n)
      BY <1>2, <2>1, <3>1 DEF Admitted, Advances, HeldIsRegistered
    <3>3. held[w].boot \in Nat /\ BootOf[c] \in Nat
      BY <1>2, SessionAssumption DEF TypeOK
    <3>4. QED
      BY <3>1, <3>2, <3>3 DEF Newer
  <2>2. QED
    BY <1>2, <2>1, RegistrySteps DEF Register, NoteDeath
<1>3. QED
  BY <1>1, <1>2, StepKeepsRegistered, TypeCorrect, PTL DEF Spec, HeldMovesForward

--------------------------------------------------------------------------------
(* Answers and the frames they are given to *)

\* Within a sequence of answers the number of the frame goes up by one after each
\* RESPONSE_END and stays the same in between.
Chained(s) ==
  /\ \A i, j \in 1..Len(s) : i <= j /\ (\A k \in i..(j - 1) : ~Ends(s[k])) => s[j].to = s[i].to
  /\ \A i \in 1..(Len(s) - 1) : Ends(s[i]) => s[i + 1].to = s[i].to + 1

\* The frame whose answers follow s, the answers from those to frame b on.
Following(s, b) ==
  IF s = <<>> THEN b ELSE s[Len(s)].to + (IF Ends(s[Len(s)]) THEN 1 ELSE 0)

Numbered(s, b) == Chained(s) /\ (s # <<>> => s[1].to = b)

LEMMA AnswerHasNumber ==
  ASSUME NEW s \in Seq(AnswerFrames), NEW i \in 1..Len(s)
  PROVE  s[i].to \in Nat
<1>1. s[i] \in AnswerFrames
  BY ElementOfSeq
<1>2. QED
  BY <1>1 DEF AnswerFrames

LEMMA NothingFollows ==
  ASSUME NEW b \in Nat PROVE Numbered(<<>>, b) /\ Following(<<>>, b) = b
<1>1. Len(<<>>) = 0
  BY EmptySeq
<1>2. QED
  BY <1>1 DEF Numbered, Chained, Following

\* One sequence of answers after another.
LEMMA ChainsConcatenate ==
  ASSUME NEW s \in Seq(AnswerFrames), NEW t \in Seq(AnswerFrames), NEW b \in Nat,
         Numbered(s, b), Numbered(t, Following(s, b))
  PROVE  Numbered(s \o t, b) /\ Following(s \o t, b) = Following(t, Following(s, b))
<1> DEFINE u == s \o t
           m == Len(s)
           n == Len(t)
<1>1. m \in Nat /\ n \in Nat /\ Len(u) = m + n /\ u \in Seq(AnswerFrames)
      /\ \A i \in 1..(m + n) : u[i] = IF i <= m THEN s[i] ELSE t[i - m]
  BY ConcatProperties, LenProperties
<1>2. CASE s = <<>>
  BY <1>2, ConcatEmptySeq DEF Following
<1>3. CASE t = <<>>
  BY <1>3, ConcatEmptySeq DEF Following
<1>4. CASE s # <<>> /\ t # <<>>
  <2>1. m \in Nat \ {0} /\ n \in Nat \ {0}
    BY <1>4, EmptySeq
  <2>2. t[1].to = s[m].to + (IF Ends(s[m]) THEN 1 ELSE 0)
    BY <1>4 DEF Numbered, Following
  <2>3. ASSUME NEW i \in 1..(m + n), NEW j \in 1..(m + n), i <= j,
               \A k \in i..(j - 1) : ~Ends(u[k])
        PROVE  u[j].to = u[i].to
    <3>1. CASE j <= m
      <4>1. u[i] = s[i] /\ u[j] = s[j] /\ i \in 1..m /\ j \in 1..m
        BY <1>1, <2>3, <3>1
      <4>2. \A k \in i..(j - 1) : ~Ends(s[k])
        BY <1>1, <2>3, <3>1
      <4>3. QED
        BY <2>3, <4>1, <4>2 DEF Numbered, Chained
    <3>2. CASE i > m
      <4>1. u[i] = t[i - m] /\ u[j] = t[j - m] /\ i - m \in 1..n /\ j - m \in 1..n /\ i - m <= j - m
        BY <1>1, <2>1, <2>3, <3>2
      <4>2. ASSUME NEW k \in (i - m)..(j - m - 1) PROVE ~Ends(t[k])
        <5>1. k + m \in i..(j - 1) /\ u[k + m] = t[k]
          BY <1>1, <2>1, <2>3, <3>2
        <5>2. QED
          BY <2>3, <5>1
      <4>3. QED
        BY <4>1, <4>2 DEF Numbered, Chained
    <3>3. CASE i <= m /\ j > m
      <4>1. u[i] = s[i] /\ u[j] = t[j - m] /\ i \in 1..m /\ m \in 1..m /\ j - m \in 1..n /\ 1 \in 1..n
        BY <1>1, <2>1, <2>3, <3>3
      <4>2. ASSUME NEW k \in i..m PROVE ~Ends(s[k])
        <5>1. k \in i..(j - 1) /\ k \in 1..m
          BY <1>1, <3>3
        <5>2. u[k] = s[k]
          BY <1>1, <2>1, <5>1
        <5>3. QED
          BY <2>3, <5>1, <5>2
      <4>3. s[m].to = s[i].to
        <5>1. \A k \in i..(m - 1) : ~Ends(s[k])
          BY <1>1, <3>3, <4>2
        <5>2. i \in 1..Len(s) /\ Len(s) \in 1..Len(s) /\ i <= Len(s)
          BY <3>3, <4>1
        <5>3. QED
          BY <5>1, <5>2 DEF Numbered, Chained
      <4>4. t[1].to = s[m].to
        <5>1. s[m].to \in Nat /\ ~Ends(s[m])
          BY <2>1, <3>3, <4>1, <4>2, AnswerHasNumber
        <5>2. QED
          BY <2>2, <5>1
      <4>5. ASSUME NEW k \in 1..(j - m - 1) PROVE ~Ends(t[k])
        <5>1. k + m \in i..(j - 1) /\ u[k + m] = t[k]
          BY <1>1, <2>1, <2>3, <3>3
        <5>2. QED
          BY <2>3, <5>1
      <4>6. t[j - m].to = t[1].to
        BY <4>1, <4>5 DEF Numbered, Chained
      <4>7. QED
        BY <4>1, <4>3, <4>4, <4>6
    <3>4. QED
      BY <1>1, <2>3, <3>1, <3>2, <3>3
  <2>4. ASSUME NEW i \in 1..(m + n - 1), Ends(u[i]) PROVE u[i + 1].to = u[i].to + 1
    <3>1. CASE i < m
      BY <1>1, <2>1, <2>4, <3>1 DEF Numbered, Chained
    <3>2. CASE i = m
      BY <1>1, <2>1, <2>2, <2>4, <3>2
    <3>3. CASE i > m
      <4>1. i - m \in 1..(n - 1) /\ u[i] = t[i - m] /\ u[i + 1] = t[i - m + 1]
        BY <1>1, <2>1, <2>4, <3>3
      <4>2. QED
        BY <2>4, <4>1 DEF Numbered, Chained
    <3>4. QED
      BY <1>1, <3>1, <3>2, <3>3
  <2>5. u # <<>> /\ u[1] = s[1] /\ u[m + n] = t[n]
    BY <1>1, <2>1, EmptySeq
  <2>6. Numbered(u, b)
    <3>1. s[1].to = b
      BY <1>4 DEF Numbered
    <3> HIDE DEF u
    <3>2. QED
      BY <1>1, <2>3, <2>4, <2>5, <3>1 DEF Numbered, Chained
  <2>7. Following(u, b) = Following(t, Following(s, b))
    <3> HIDE DEF u
    <3>1. QED
      BY <1>1, <1>4, <2>5 DEF Following
  <2>8. QED
    BY <2>6, <2>7
<1>5. QED
  BY <1>2, <1>3, <1>4

\* A sequence of answers cut in two.
LEMMA ChainsSplit ==
  ASSUME NEW s \in Seq(AnswerFrames), NEW b \in Nat, Numbered(s, b), NEW n \in 1..Len(s)
  PROVE  LET p == SubSeq(s, 1, n)
             q == SubSeq(s, n + 1, Len(s))
         IN /\ p \in Seq(AnswerFrames) /\ q \in Seq(AnswerFrames)
            /\ Numbered(p, b) /\ Numbered(q, Following(p, b))
            /\ Following(p, b) = s[n].to + (IF Ends(s[n]) THEN 1 ELSE 0)
            /\ Following(q, Following(p, b)) = Following(s, b)
<1> DEFINE p == SubSeq(s, 1, n)
           q == SubSeq(s, n + 1, Len(s))
           m == Len(s) - n
<1>1. Len(s) \in Nat /\ n \in Nat \ {0} /\ n <= Len(s) /\ m \in Nat
  BY LenProperties
<1>2. p \in Seq(AnswerFrames) /\ Len(p) = n /\ \A i \in 1..n : p[i] = s[i]
  BY <1>1, PartIsSeq
<1>3. q \in Seq(AnswerFrames) /\ Len(q) = m /\ \A i \in 1..m : q[i] = s[i + n]
  BY <1>1, PartIsSeq
<1> HIDE DEF p, q
<1>4. s # <<>> /\ p # <<>> /\ s[1].to = b
  BY <1>1, <1>2, EmptySeq DEF Numbered
<1>5. Following(p, b) = s[n].to + (IF Ends(s[n]) THEN 1 ELSE 0)
  BY <1>1, <1>2, <1>4 DEF Following
<1>6. Numbered(p, b)
  <2>1. p[1].to = b
    BY <1>1, <1>2, <1>4
  <2>2. ASSUME NEW i \in 1..n, NEW j \in 1..n, i <= j, \A k \in i..(j - 1) : ~Ends(p[k])
        PROVE  p[j].to = p[i].to
    <3>1. \A k \in i..(j - 1) : ~Ends(s[k])
      BY <1>1, <1>2, <2>2
    <3>2. i \in 1..Len(s) /\ j \in 1..Len(s)
      BY <1>1
    <3>3. s[j].to = s[i].to
      BY <2>2, <3>1, <3>2 DEF Numbered, Chained
    <3>4. QED
      BY <1>2, <3>3
  <2>3. ASSUME NEW i \in 1..(n - 1), Ends(p[i]) PROVE p[i + 1].to = p[i].to + 1
    <3>1. i \in 1..n /\ i + 1 \in 1..n /\ i \in 1..(Len(s) - 1)
      BY <1>1
    <3>2. p[i] = s[i] /\ p[i + 1] = s[i + 1]
      BY <1>2, <3>1
    <3>3. QED
      BY <2>3, <3>1, <3>2 DEF Numbered, Chained
  <2>4. QED
    BY <1>2, <2>1, <2>2, <2>3 DEF Numbered, Chained
<1>7. CASE m = 0
  <2>1. q = <<>> /\ n = Len(s)
    BY <1>1, <1>3, <1>7, EmptySeq
  <2>2. Following(p, b) \in Nat
    BY <1>1, <1>5, AnswerHasNumber
  <2>3. QED
    BY <1>2, <1>3, <1>4, <1>5, <1>6, <2>1, <2>2, NothingFollows DEF p, q, Following
<1>8. CASE m > 0
  <2>1. q # <<>> /\ q[1] = s[n + 1] /\ q[m] = s[Len(s)] /\ n \in 1..(Len(s) - 1)
    BY <1>1, <1>3, <1>8, EmptySeq
  <2>2. q[1].to = Following(p, b)
    <3>1. s[n].to \in Nat
      BY AnswerHasNumber
    <3>2. CASE Ends(s[n])
      BY <1>5, <2>1, <3>2 DEF Numbered, Chained
    <3>3. CASE ~Ends(s[n])
      <4>1. \A k \in n..(n + 1 - 1) : ~Ends(s[k])
        BY <1>1, <3>3
      <4>2. n \in 1..Len(s) /\ n + 1 \in 1..Len(s) /\ n <= n + 1
        BY <1>1, <2>1
      <4>3. s[n + 1].to = s[n].to
        BY <4>1, <4>2 DEF Numbered, Chained
      <4>4. QED
        BY <1>5, <2>1, <3>1, <3>3, <4>3
    <3>4. QED
      BY <3>2, <3>3
  <2>3. ASSUME NEW i \in 1..m, NEW j \in 1..m, i <= j, \A k \in i..(j - 1) : ~Ends(q[k])
        PROVE  q[j].to = q[i].to
    <3>1. ASSUME NEW k \in (i + n)..(j + n - 1) PROVE ~Ends(s[k])
      <4> DEFINE l == k - n
      <4>1. l \in i..(j - 1) /\ l \in 1..m /\ l + n = k
        BY <1>1
      <4> HIDE DEF l
      <4>2. q[l] = s[l + n]
        BY <1>3, <4>1
      <4>3. ~Ends(q[l])
        BY <2>3, <4>1
      <4>4. QED
        BY <4>1, <4>2, <4>3
    <3>2. i + n \in 1..Len(s) /\ j + n \in 1..Len(s) /\ i + n <= j + n
      BY <1>1, <2>3
    <3>3. s[j + n].to = s[i + n].to
      BY <3>1, <3>2 DEF Numbered, Chained
    <3>4. QED
      BY <1>3, <3>3
  <2>4. ASSUME NEW i \in 1..(m - 1), Ends(q[i]) PROVE q[i + 1].to = q[i].to + 1
    <3> DEFINE k == i + 1
    <3>1. i \in 1..m /\ k \in 1..m /\ k + n = i + n + 1
      BY <1>1
    <3> HIDE DEF k
    <3>2. q[i] = s[i + n] /\ q[k] = s[i + n + 1]
      BY <1>3, <3>1
    <3>3. i + n \in 1..(Len(s) - 1)
      BY <1>1
    <3>4. QED
      BY <2>4, <3>2, <3>3 DEF Numbered, Chained, k
  <2>5. Numbered(q, Following(p, b))
    BY <1>3, <2>2, <2>3, <2>4 DEF Numbered, Chained
  <2>6. Following(q, Following(p, b)) = Following(s, b)
    BY <1>3, <1>4, <2>1 DEF Following
  <2>7. QED
    BY <1>2, <1>3, <1>5, <1>6, <2>5, <2>6 DEF p, q
<1>9. QED
  BY <1>1, <1>7, <1>8

\* The answers to one frame.
LEMMA AnswersFollow ==
  ASSUME SessionTypes, NEW c \in Clients, NEW kinds \in Seq(AnswerKinds \ {"RESPONSE_END"}),
         NEW accepted \in BOOLEAN, Answers(c, kinds, accepted)
  PROVE  Numbered(reply'[c], handled[c] + 1) /\ Following(reply'[c], handled[c] + 1) = handled[c] + 2
<1> DEFINE a == handled[c] + 1
           s == [i \in DOMAIN kinds |-> Answer(kinds[i], accepted, a)]
           e == Answer("RESPONSE_END", TRUE, a)
           r == s \o <<e>>
           n == Len(kinds)
<1>1. DOMAIN kinds = 1..n /\ n \in Nat /\ a \in Nat /\ a + 1 = handled[c] + 2
  BY LenProperties DEF SessionTypes
<1>2. reply'[c] = r
  BY DEF Answers, SessionTypes
<1>3. \A i \in 1..n : s[i].to = a /\ s[i].kind = kinds[i] /\ kinds[i] # "RESPONSE_END"
  BY <1>1, ElementOfSeq DEF Answer
<1>4. e.to = a /\ e.kind = "RESPONSE_END"
  BY DEF Answer
<1>5. s \in Seq(AnswerFrames) /\ Len(s) = n
  <2>1. \A i \in 1..n : s[i] \in AnswerFrames
    BY <1>1, ElementOfSeq DEF Answer, AnswerFrames
  <2>2. s \in [1..n -> AnswerFrames]
    BY <1>1, <2>1
  <2> HIDE DEF s
  <2>3. QED
    BY <1>1, <2>2, SeqDef, LenProperties
<1>6. e \in AnswerFrames
  BY <1>1 DEF Answer, AnswerFrames, AnswerKinds
<1> HIDE DEF a, s, e
<1>7. Len(r) = n + 1 /\ (\A i \in 1..n : r[i] = s[i]) /\ r[n + 1] = e
  <2>1. r = Append(s, e)
    BY <1>5, <1>6, AppendIsConcat
  <2>2. QED
    BY <1>5, <1>6, <2>1, AppendProperties
<1> HIDE DEF r
<1>8. \A i \in 1..(n + 1) : r[i].to = a /\ (Ends(r[i]) <=> i = n + 1)
  BY <1>1, <1>3, <1>4, <1>7 DEF Ends
<1>9. Chained(r)
  BY <1>1, <1>7, <1>8 DEF Chained
<1>10. r # <<>>
  BY <1>1, <1>7
<1>11. Numbered(r, a) /\ Following(r, a) = a + 1
  BY <1>1, <1>7, <1>8, <1>9, <1>10 DEF Numbered, Following
<1>12. QED
  BY <1>1, <1>2, <1>11 DEF a

--------------------------------------------------------------------------------
(* The conversation of one client *)

Talks(c) == stage[c] \notin {"left", "ready"}

\* What is buffered for a client that reads groups goes on from the group it is
\* reading, and what its session has yet to send goes on from there, up to the
\* frame its session takes next.
InStepOf(c) ==
  /\ stage[c] = "left" => toClient[c] = <<>>
  /\ ~Talks(c) => group[c] = <<>>
  /\ Talks(c) =>
       /\ \A f \in Frames(group[c]) : f.to = groups[c] + 1
       /\ Numbered(toClient[c], groups[c] + 1)
       /\ session[c] # "closed" =>
            LET next == Following(toClient[c], groups[c] + 1)
            IN Numbered(reply[c], next) /\ Following(reply[c], next) = handled[c] + 1
  /\ stage[c] = "new" => group[c] = <<>> /\ toClient[c] = <<>> /\ session[c] = "none"

Conversation(c) ==
  <<stage[c], group[c], groups[c], toClient[c], session[c], handled[c], reply[c]>>

LEMMA UntouchedInStep ==
  ASSUME NEW d \in Clients, InStepOf(d), Conversation(d)' = Conversation(d)
  PROVE  InStepOf(d)'
BY DEF InStepOf, Talks, Conversation

Connects(c) == \E s \in Stages \ {"new", "left", "ready"} : \E r : Connect(c, s, r)

\* A step of one client or of its session leaves the other conversations alone.
LEMMA OthersUntouched ==
  ASSUME TypeOK, NEW c \in Clients, NEW d \in Clients, d # c,
         Connects(c) \/ ClientStep(c) \/ SessionStep(c) \/ Exit(c)
  PROVE  Conversation(d)' = Conversation(d)
<1> USE DEF TypeOK, Conversation
<1>1. CASE Connects(c)
  BY <1>1 DEF Connects, Connect
<1>2. CASE Exit(c) \/ Put(c) \/ Get(c)
  BY <1>2 DEF Exit, Put, Get, Leave, sessionVars
<1>3. CASE ReadGroup(c)
  <2>1. CASE Leave(c)
    BY <1>3, <2>1 DEF ReadGroup, Leave, sessionVars
  <2>2. CASE /\ NextObservation(c)
             /\ \E t : toClient' = [toClient EXCEPT ![c] = t]
             /\ group' = [group EXCEPT ![c] = <<>>]
             /\ groups' = [groups EXCEPT ![c] = @ + 1]
    BY <1>3, <2>2 DEF ReadGroup, NextObservation, sessionVars
  <2>3. QED
    BY <1>3, <2>1, <2>2 DEF ReadGroup
<1>4. ASSUME ServeHello(c) \/ ServePublication(c) \/ ServeOther(c) PROVE Conversation(d)' = Conversation(d)
  <2>1. UNCHANGED <<stage, group, groups, toClient, session>>
    BY <1>4 DEF ServeHello, ServePublication, ServeOther, Taking, clientVars
  <2>2. handled'[d] = handled[d]
    BY <1>4 DEF ServeHello, ServePublication, ServeOther, Taking
  <2>3. reply'[d] = reply[d]
    BY <1>4 DEF ServeHello, ServePublication, ServeOther, Answers
  <2>4. QED
    BY <2>1, <2>2, <2>3
<1>5. CASE ServeQuery(c)
  <2>1. UNCHANGED <<stage, group, groups, toClient>>
    BY <1>5 DEF ServeQuery, Taking, clientVars
  <2>2. handled'[d] = handled[d] /\ session'[d] = session[d]
    BY <1>5 DEF ServeQuery, Taking
  <2>3. reply'[d] = reply[d]
    BY <1>5 DEF ServeQuery, Answers
  <2>4. QED
    BY <2>1, <2>2, <2>3
<1>6. CASE ServeDisconnect(c) \/ RaiseFlag(c) \/ EndSession(c)
  BY <1>6 DEF ServeDisconnect, RaiseFlag, EndSession, Close, clientVars
<1>7. CASE Reply(c)
  BY <1>7 DEF Reply, clientVars
<1>8. QED
  BY <1>1, <1>2, <1>3, <1>4, <1>5, <1>6, <1>7 DEF ClientStep, SessionStep, Break

LEMMA LeavingInStep ==
  ASSUME TypeOK, NEW c \in Clients, Leave(c) PROVE InStepOf(c)'
BY DEF TypeOK, Leave, InStepOf, Talks

LEMMA ConnectingInStep ==
  ASSUME TypeOK, NEW c \in Clients, InStepOf(c), Connects(c) PROVE InStepOf(c)'
<1>1. PICK s \in Stages \ {"new", "left", "ready"} : \E r : Connect(c, s, r)
  BY DEF Connects
<1>2. stage[c] = "new" /\ group[c] = <<>> /\ toClient[c] = <<>> /\ session[c] = "none"
      /\ UNCHANGED <<group, groups, toClient, handled, reply>>
  BY <1>1 DEF Connect, InStepOf
<1>3. CASE stage'[c] = "left"
  BY <1>2, <1>3 DEF InStepOf, Talks
<1>4. CASE stage'[c] = s
  BY <1>1, <1>2, <1>4 DEF InStepOf, Talks
<1>5. QED
  BY <1>1, <1>3, <1>4 DEF Connect, TypeOK

LEMMA GettingInStep ==
  ASSUME TypeOK, NEW c \in Clients, InStepOf(c), Get(c) PROVE InStepOf(c)'
<1> DEFINE s == toClient[c]
           b == groups[c] + 1
<1>1. s \in Seq(AnswerFrames) /\ group[c] \in Seq(AnswerFrames) /\ b \in Nat
  BY DEF TypeOK
<1>2. toClient'[c] = <<>> /\ UNCHANGED <<stage, groups, session, handled, reply>>
  BY DEF Get, TypeOK, sessionVars
<1>3. s # <<>> /\ stage[c] \notin {"new", "left"}
  BY DEF Get, Reading, Engaged
<1>4. CASE stage[c] = "ready"
  BY <1>2, <1>3, <1>4 DEF Get, InStepOf, Talks
<1>5. CASE stage[c] # "ready" /\ ~Complete(c) /\ group'[c] = group[c] \o s
  <2>1. Talks(c)
    BY <1>3, <1>5 DEF Talks
  <2>2. DOMAIN s = 1..Len(s) /\ Len(s) \in Nat \ {0}
    BY <1>1, <1>3, EmptySeq, LenProperties
  <2>3. \A i \in 1..Len(s) : ~Ends(s[i])
    BY <1>5, <2>2 DEF Complete
  <2>4. Numbered(s, b)
    BY <2>1 DEF InStepOf
  <2>5. ASSUME NEW i \in 1..Len(s) PROVE s[i].to = b
    <3>1. 1 \in 1..Len(s) /\ 1 <= i /\ \A k \in 1..(i - 1) : ~Ends(s[k])
      BY <2>2, <2>3
    <3>2. QED
      BY <1>3, <2>4, <3>1 DEF Numbered, Chained
  <2>6. Following(s, b) = b
    <3>1. Len(s) \in 1..Len(s)
      BY <2>2
    <3>2. s[Len(s)].to = b /\ ~Ends(s[Len(s)])
      BY <2>3, <2>5, <3>1
    <3>3. QED
      BY <1>1, <1>3, <3>2 DEF Following
  <2>7. ASSUME NEW f \in Frames(group[c] \o s) PROVE f.to = b
    <3> DEFINE g == group[c]
    <3>1. Len(g \o s) = Len(g) + Len(s) /\ g \o s \in Seq(AnswerFrames) /\ Len(g) \in Nat
          /\ \A i \in 1..(Len(g) + Len(s)) : (g \o s)[i] = IF i <= Len(g) THEN g[i] ELSE s[i - Len(g)]
      BY <1>1, ConcatProperties, LenProperties
    <3>2. PICK i \in 1..(Len(g) + Len(s)) : f = (g \o s)[i]
      BY <2>7, <3>1, LenProperties DEF Frames
    <3>3. CASE i <= Len(g)
      <4>1. i \in DOMAIN g /\ f = g[i]
        BY <1>1, <3>1, <3>2, <3>3, LenProperties
      <4>2. QED
        BY <2>1, <4>1 DEF InStepOf, Frames
    <3>4. CASE i > Len(g)
      <4> HIDE DEF s, g
      <4>1. i - Len(g) \in 1..Len(s)
        BY <2>2, <3>1, <3>4
      <4>2. f = s[i - Len(g)]
        BY <3>1, <3>2, <3>4
      <4>3. QED
        BY <2>5, <4>1, <4>2
    <3>5. QED
      BY <3>1, <3>3, <3>4
  <2>8. Numbered(<<>>, b) /\ Following(<<>>, b) = b
    BY <1>1, NothingFollows
  <2> HIDE DEF s
  <2>9. groups'[c] + 1 = b /\ Frames(group'[c]) = Frames(group[c] \o s)
    BY <1>2, <1>5
  <2>10. session[c] # "closed" => Numbered(reply[c], b) /\ Following(reply[c], b) = handled[c] + 1
    BY <2>1, <2>6 DEF InStepOf, s
  <2> HIDE DEF b
  <2>11. QED
    BY <1>2, <1>3, <2>1, <2>7, <2>8, <2>9, <2>10 DEF InStepOf, Talks
<1>6. group'[c] = group[c] \o s \/ group' = group
  BY DEF Get, TypeOK
<1>7. QED
  BY <1>4, <1>5, <1>6 DEF Get, TypeOK

LEMMA GroupInStep ==
  ASSUME TypeOK, NEW c \in Clients, InStepOf(c), ReadGroup(c) PROVE InStepOf(c)'
<1> DEFINE s == toClient[c]
           b == groups[c] + 1
           end == FirstEnd(c)
           q == SubSeq(s, end + 1, Len(s))
<1>1. s \in Seq(AnswerFrames) /\ b \in Nat /\ Len(s) \in Nat /\ s # <<>>
  BY LenProperties DEF TypeOK, ReadGroup, Reading
<1>2. end \in 1..Len(s) /\ Ends(s[end]) /\ \A j \in 1..(end - 1) : ~Ends(s[j])
  BY <1>1, FirstEndIsFirst DEF ReadGroup
<1>3. Talks(c)
  BY DEF ReadGroup, Reading, Engaged, Talks
<1>4. Numbered(s, b)
  BY <1>3 DEF InStepOf
<1>5. \/ Leave(c)
      \/ /\ stage'[c] \in {"publishing", "ready"} /\ group'[c] = <<>> /\ toClient'[c] = q
         /\ groups'[c] = groups[c] + 1
  BY DEF ReadGroup, NextObservation, TypeOK
<1>6. UNCHANGED <<session, handled, reply>>
  BY DEF ReadGroup, sessionVars
<1> HIDE DEF end
<1>7. s[end].to = b
  <2>1. 1 \in 1..Len(s) /\ 1 <= end
    BY <1>1, <1>2
  <2>2. QED
    BY <1>1, <1>2, <1>4, <2>1 DEF Numbered, Chained
<1>8. Numbered(q, b + 1) /\ Following(q, b + 1) = Following(s, b)
  <2>1. Following(SubSeq(s, 1, end), b) = b + 1
    BY <1>1, <1>2, <1>4, <1>7, ChainsSplit
  <2>2. QED
    BY <1>1, <1>2, <1>4, <2>1, ChainsSplit
<1>9. session[c] # "closed" =>
        Numbered(reply[c], Following(s, b)) /\ Following(reply[c], Following(s, b)) = handled[c] + 1
  BY <1>3 DEF InStepOf
<1> HIDE DEF s, q
<1>10. CASE Leave(c)
  BY <1>10, LeavingInStep
<1>11. CASE stage'[c] = "ready" /\ group'[c] = <<>>
  BY <1>11 DEF InStepOf, Talks
<1>12. CASE /\ stage'[c] = "publishing" /\ group'[c] = <<>> /\ toClient'[c] = q
            /\ groups'[c] = groups[c] + 1
  <2>1. groups'[c] + 1 = b + 1
    BY <1>12
  <2>2. Frames(group'[c]) = {}
    BY <1>12 DEF Frames
  <2> HIDE DEF b
  <2>3. QED
    BY <1>6, <1>8, <1>9, <1>12, <2>1, <2>2 DEF InStepOf, Talks
<1>13. QED
  BY <1>5, <1>10, <1>11, <1>12

\* What a session answers goes on where its last answer ended.
LEMMA AnsweringInStep ==
  ASSUME TypeOK, NEW c \in Clients, InStepOf(c), NEW k, Taking(c, k), session'[c] # "closed",
         NEW kinds \in Seq(AnswerKinds \ {"RESPONSE_END"}), NEW accepted \in BOOLEAN,
         Answers(c, kinds, accepted)
  PROVE  InStepOf(c)'
<1> DEFINE next == Following(toClient[c], groups[c] + 1)
<1>1. session[c] = "open" /\ reply[c] = <<>> /\ handled'[c] = handled[c] + 1
      /\ UNCHANGED <<stage, group, groups, toClient>>
  BY DEF Taking, CanTake, TypeOK, clientVars
<1>2. Numbered(reply'[c], handled[c] + 1) /\ Following(reply'[c], handled[c] + 1) = handled[c] + 2
  BY TypeParts, AnswersFollow
<1>3. handled[c] \in Nat
  BY DEF TypeOK
<1>4. CASE ~Talks(c)
  BY <1>1, <1>4 DEF InStepOf, Talks
<1>5. CASE Talks(c)
  <2>1. next = handled[c] + 1
    <3>1. Following(reply[c], next) = handled[c] + 1
      BY <1>1, <1>5 DEF InStepOf
    <3>2. QED
      BY <1>1, <3>1 DEF Following
  <2>2. handled'[c] + 1 = handled[c] + 2
    BY <1>1, <1>3
  <2>3. Numbered(reply'[c], next) /\ Following(reply'[c], next) = handled'[c] + 1
    BY <1>2, <2>1, <2>2
  <2>4. QED
    BY <1>1, <1>5, <2>3 DEF InStepOf, Talks
<1>6. QED
  BY <1>4, <1>5

LEMMA ReplyingInStep ==
  ASSUME TypeOK, NEW c \in Clients, InStepOf(c), Reply(c) PROVE InStepOf(c)'
<1> DEFINE s == toClient[c]
           r == reply[c]
           b == groups[c] + 1
           n == Fit(r, s, AnswerRoom)
           p == SubSeq(r, 1, n)
           q == SubSeq(r, n + 1, Len(r))
<1>1. s \in Seq(AnswerFrames) /\ r \in Seq(AnswerFrames) /\ b \in Nat
  BY DEF TypeOK
<1>2. UNCHANGED <<stage, group, groups, session, handled>> /\ session[c] \in {"open", "halting"}
  BY DEF Reply, clientVars
<1>3. CASE Gone(c) /\ UNCHANGED toClient
  BY <1>2, <1>3 DEF InStepOf, Talks, Gone
<1>4. CASE ~Gone(c) /\ n > 0 /\ toClient'[c] = s \o p /\ reply'[c] = q
  <2>1. n \in 1..Len(r)
    BY <1>1, <1>4, SessionAssumption, FitIsPart, LenProperties
  <2>2. CASE ~Talks(c)
    BY <1>2, <1>4, <2>2 DEF InStepOf, Talks, Gone
  <2>3. CASE Talks(c)
    <3> DEFINE next == Following(s, b)
    <3>1. Numbered(s, b) /\ Numbered(r, next) /\ Following(r, next) = handled[c] + 1
      BY <1>2, <2>3 DEF InStepOf
    <3>2. next \in Nat
      <4>1. CASE s = <<>>
        BY <1>1, <4>1 DEF Following
      <4>2. CASE s # <<>>
        <5>1. Len(s) \in 1..Len(s)
          BY <1>1, <4>2, EmptySeq
        <5>2. s[Len(s)].to \in Nat
          BY <1>1, <5>1, AnswerHasNumber
        <5>3. QED
          BY <4>2, <5>2 DEF Following
      <4>3. QED
        BY <4>1, <4>2
    <3> HIDE DEF n, next
    <3>3. /\ p \in Seq(AnswerFrames) /\ Numbered(p, next)
          /\ Numbered(q, Following(p, next)) /\ Following(q, Following(p, next)) = Following(r, next)
      BY <1>1, <2>1, <3>1, <3>2, ChainsSplit
    <3>4. Numbered(s \o p, b) /\ Following(s \o p, b) = Following(p, next)
      BY <1>1, <3>1, <3>3, ChainsConcatenate DEF next
    <3> HIDE DEF p, q, s, b
    <3>5. groups'[c] + 1 = b /\ \A f \in Frames(group'[c]) : f.to = b
      BY <1>2, <2>3 DEF InStepOf, b
    <3>6. Numbered(toClient'[c], b)
      BY <1>4, <3>4
    <3>7. Numbered(reply'[c], Following(toClient'[c], b))
          /\ Following(reply'[c], Following(toClient'[c], b)) = handled'[c] + 1
      BY <1>2, <1>4, <3>1, <3>3, <3>4
    <3>8. stage[c] # "new"
      BY <1>2 DEF InStepOf
    <3>9. QED
      BY <1>2, <2>3, <3>5, <3>6, <3>7, <3>8 DEF InStepOf, Talks
  <2>4. QED
    BY <2>2, <2>3
<1>5. QED
  BY <1>3, <1>4 DEF Reply, TypeOK

LEMMA SessionInStep ==
  ASSUME TypeOK, NEW c \in Clients, InStepOf(c), SessionStep(c) PROVE InStepOf(c)'
<1>1. CASE ServeHello(c)
  <2>1. PICK accepted \in BOOLEAN : Answers(c, <<"HELLO_ACK">>, accepted)
    BY <1>1 DEF ServeHello
  <2>2. <<"HELLO_ACK">> \in Seq(AnswerKinds \ {"RESPONSE_END"})
    BY DEF AnswerKinds
  <2>3. Taking(c, "HELLO") /\ session'[c] # "closed"
    BY <1>1 DEF ServeHello, Taking, CanTake
  <2>4. QED
    BY <2>1, <2>2, <2>3, AnsweringInStep
<1>2. CASE ServePublication(c)
  <2>1. \/ \E kinds \in {<<"PUBLISH_ACK", "EVALUATE_RESPONSE">>, <<"PUBLISH_ACK">>} : Answers(c, kinds, TRUE)
        \/ \E a \in {FALSE, Admitted(c) /\ Repeats(c, Head(toServer[c]).n)} : Answers(c, <<"PUBLISH_ACK">>, a)
    BY <1>2 DEF ServePublication
  <2>2. <<"PUBLISH_ACK">> \in Seq(AnswerKinds \ {"RESPONSE_END"})
        /\ <<"PUBLISH_ACK", "EVALUATE_RESPONSE">> \in Seq(AnswerKinds \ {"RESPONSE_END"})
    BY DEF AnswerKinds
  <2>3. Taking(c, "PUBLISH_EVIDENCE") /\ session'[c] # "closed"
    BY <1>2 DEF ServePublication, Taking, CanTake
  <2>4. (Admitted(c) /\ Repeats(c, Head(toServer[c]).n)) \in BOOLEAN
    BY DEF Admitted, Repeats
  <2>5. \A a \in {FALSE, Admitted(c) /\ Repeats(c, Head(toServer[c]).n)} : a \in BOOLEAN
    BY <2>4
  <2>6. QED
    BY <2>1, <2>2, <2>3, <2>5, AnsweringInStep
<1>3. CASE ServeQuery(c)
  <2>1. PICK accepted \in BOOLEAN : Answers(c, <<"QUERY_RESPONSE">>, accepted)
    BY <1>3 DEF ServeQuery
  <2>2. <<"QUERY_RESPONSE">> \in Seq(AnswerKinds \ {"RESPONSE_END"})
    BY DEF AnswerKinds
  <2>3. Taking(c, "QUERY_REQUEST") /\ session'[c] # "closed"
    BY <1>3 DEF ServeQuery, Taking, CanTake, TypeOK
  <2>4. QED
    BY <2>1, <2>2, <2>3, AnsweringInStep
<1>4. CASE ServeOther(c)
  <2>1. PICK k \in DOMAIN AnswerTo, accepted \in BOOLEAN :
          Taking(c, k) /\ Answers(c, <<AnswerTo[k]>>, accepted)
    BY <1>4, VerdictsAreBoolean, Zenon DEF ServeOther
  <2>2. AnswerTo[k] \in AnswerKinds \ {"RESPONSE_END"}
    BY DEF AnswerTo, AnswerKinds
  <2>3. <<AnswerTo[k]>> \in Seq(AnswerKinds \ {"RESPONSE_END"})
    BY <2>2
  <2>4. session'[c] # "closed"
    BY <1>4, <2>1 DEF ServeOther, Taking, CanTake
  <2>5. QED
    BY <2>1, <2>3, <2>4, AnsweringInStep
<1>5. CASE ServeDisconnect(c) \/ RaiseFlag(c) \/ EndSession(c)
  <2>1. session'[c] = "closed" /\ UNCHANGED <<stage, group, groups, toClient>>
    BY <1>5 DEF ServeDisconnect, RaiseFlag, EndSession, Close, clientVars, TypeOK
  <2>2. session[c] # "none"
    BY <1>5 DEF ServeDisconnect, CanTake, RaiseFlag, EndSession
  <2>3. QED
    BY <2>1, <2>2 DEF InStepOf, Talks
<1>6. CASE Reply(c)
  BY <1>6, ReplyingInStep
<1>7. QED
  BY <1>1, <1>2, <1>3, <1>4, <1>5, <1>6 DEF SessionStep

InStep == \A c \in Clients : InStepOf(c)

LEMMA StepKeepsInStep == ASSUME TypeOK, InStep, [Next]_vars PROVE InStep'
<1>1. ASSUME NEW c \in Clients, Connects(c) \/ ClientStep(c) \/ SessionStep(c) \/ Exit(c)
      PROVE  InStep'
  <2>1. InStepOf(c)
    BY DEF InStep
  <2>2. InStepOf(c)'
    <3>1. CASE Connects(c)
      BY <2>1, <3>1, ConnectingInStep
    <3>2. CASE Put(c)
      <4>1. CASE Leave(c)
        BY <4>1, LeavingInStep
      <4>2. CASE UNCHANGED <<stage, group, groups, toClient, sessionVars>>
        BY <2>1, <4>2, UntouchedInStep DEF sessionVars, Conversation
      <4>3. QED
        BY <3>2, <4>1, <4>2 DEF Put
    <3>3. CASE Get(c) \/ ReadGroup(c)
      BY <2>1, <3>3, GettingInStep, GroupInStep
    <3>4. CASE Exit(c)
      BY <3>4, LeavingInStep DEF Exit
    <3>5. CASE SessionStep(c)
      BY <2>1, <3>5, SessionInStep
    <3>6. QED
      BY <1>1, <3>1, <3>2, <3>3, <3>4, <3>5 DEF ClientStep, Break
  <2>3. ASSUME NEW d \in Clients, d # c PROVE InStepOf(d)'
    <3>1. Conversation(d)' = Conversation(d)
      BY <1>1, <2>3, OthersUntouched
    <3>2. QED
      BY <3>1, UntouchedInStep DEF InStep
  <2>4. QED
    BY <2>2, <2>3 DEF InStep
<1>2. ASSUME NEW c \in Processes, StartWorker(c) PROVE c \in Clients /\ Connects(c)
  <2>1. "hello" \in Stages \ {"new", "left", "ready"}
    BY DEF Stages
  <2>2. QED
    BY <1>2, <2>1 DEF StartWorker, Connects, Clients
<1>3. ASSUME NEW c \in Drivers, NEW k, NEW v, StartDriver(c, k, v) PROVE c \in Clients /\ Connects(c)
  <2>1. (IF k = "QUERY_REQUEST" /\ v = "shutdown" THEN "telling" ELSE "asking")
          \in Stages \ {"new", "left", "ready"}
    BY DEF Stages
  <2>2. QED
    BY <1>3, <2>1 DEF StartDriver, Connects, Clients
<1>4. CASE UNCHANGED vars
  <2>1. \A c \in Clients : Conversation(c)' = Conversation(c)
    BY <1>4 DEF vars, clientVars, sessionVars, Conversation
  <2>2. QED
    BY <2>1, UntouchedInStep DEF InStep
<1>5. QED
  BY <1>1, <1>2, <1>3, <1>4 DEF Next, Clients

LEMMA AlwaysInStep == Spec => [](TypeOK /\ InStep)
<1>1. Init => InStep
  <2> SUFFICES ASSUME Init, NEW c \in Clients PROVE InStepOf(c)
    BY DEF InStep
  <2>1. /\ stage[c] = "new" /\ group[c] = <<>> /\ groups[c] = 0 /\ toClient[c] = <<>>
        /\ session[c] = "none" /\ handled[c] = 0 /\ reply[c] = <<>>
    BY DEF Init
  <2>2. Numbered(<<>>, 1) /\ Following(<<>>, 1) = 1
    BY NothingFollows
  <2>3. Frames(<<>>) = {}
    BY DEF Frames
  <2>4. QED
    BY <2>1, <2>2, <2>3 DEF InStepOf, Talks
<1>2. QED
  BY <1>1, StepKeepsInStep, TypeCorrect, PTL DEF Spec

\* However clients, sessions and buffers interleave, what a client reads as one
\* group answers one frame, the next in line: for any number of clients and any room.
THEOREM AnswersKeepStep == Spec => []AnswersInStep
<1>1. TypeOK /\ InStep => AnswersInStep
  <2> SUFFICES ASSUME TypeOK, InStep, NEW c \in Clients
      PROVE /\ \A f \in Frames(group[c]) : f.to = groups[c] + 1
            /\ \A i \in DOMAIN toClient[c] :
                 (\A j \in 1..(i - 1) : ~Ends(toClient[c][j])) /\ stage[c] # "ready"
                   => toClient[c][i].to = groups[c] + 1
    BY DEF AnswersInStep
  <2>1. InStepOf(c)
    BY DEF InStep
  <2>2. \A f \in Frames(group[c]) : f.to = groups[c] + 1
    <3>1. CASE Talks(c)
      BY <2>1, <3>1 DEF InStepOf
    <3>2. CASE ~Talks(c)
      BY <2>1, <3>2 DEF InStepOf, Frames
    <3>3. QED
      BY <3>1, <3>2
  <2>3. ASSUME NEW i \in DOMAIN toClient[c], \A j \in 1..(i - 1) : ~Ends(toClient[c][j]),
               stage[c] # "ready"
        PROVE  toClient[c][i].to = groups[c] + 1
    <3>1. toClient[c] \in Seq(AnswerFrames)
      BY DEF TypeOK
    <3>2. i \in 1..Len(toClient[c]) /\ Len(toClient[c]) \in Nat
      BY <3>1, LenProperties
    <3>3. toClient[c] # <<>>
      BY <3>2, EmptySeq
    <3>4. Numbered(toClient[c], groups[c] + 1)
      BY <2>1, <2>3, <3>3 DEF InStepOf, Talks
    <3>5. 1 \in 1..Len(toClient[c]) /\ 1 <= i
      BY <3>2
    <3>6. QED
      BY <2>3, <3>2, <3>3, <3>4, <3>5 DEF Numbered, Chained
  <2>4. QED
    BY <2>2, <2>3
<1>2. QED
  BY <1>1, AlwaysInStep, PTL

--------------------------------------------------------------------------------
(* What a process has read when it is ready *)

\* The number of a frame that carries an observation.
IsPublication(i) == \E k \in 1..i : i = PublicationFrame(k)

\* What a process has sent and its session has not taken.
Due(c) == toServer[c] \o outbox[c]

\* What a session has answered and the process has not read as a group.
Line(c) == (group[c] \o toClient[c]) \o reply[c]

\* After a RESPONSE_END come answers to later frames only, and before the one that
\* answers an observation comes its acknowledgement.
Acknowledges(s) ==
  /\ \A i, j \in 1..Len(s) : i < j /\ Ends(s[i]) => s[i].to < s[j].to
  /\ \A i \in 1..Len(s) : Ends(s[i]) /\ IsPublication(s[i].to) =>
       \E j \in 1..Len(s) : j < i /\ s[j].kind = "PUBLISH_ACK" /\ s[j].to = s[i].to

UpToFrame(s, n) == \A i \in 1..Len(s) : s[i].to <= n

\* A process sends two frames for HELLO and for each observation, each observation
\* in its place.
Scripted(c) ==
  /\ handled[c] + Len(Due(c)) = 2 * (published[c] + 1)
  /\ \A i \in 1..Len(Due(c)) : IsPublication(handled[c] + i) => Due(c)[i].kind = "PUBLISH_EVIDENCE"

HasRead(c, n) == \A k \in Nat \ {0} : PublicationFrame(k) <= n => PublicationFrame(k) \in acknowledged[c]

Unused(c) ==
  /\ outbox[c] = <<>> /\ toServer[c] = <<>> /\ group[c] = <<>> /\ toClient[c] = <<>> /\ reply[c] = <<>>
  /\ published[c] = 0 /\ groups[c] = 0 /\ handled[c] = 0 /\ session[c] = "none"

Publishes(c) == stage[c] \in {"hello", "publishing"}

OnScript(c) ==
  /\ stage[c] \in {"new", "hello", "publishing", "ready", "left"}
  /\ stage[c] = "new" => Unused(c)
  /\ Publishes(c) =>
       /\ published[c] = groups[c] /\ HasRead(c, groups[c])
       /\ Acknowledges(Line(c))
       /\ session[c] # "closed" => Scripted(c) /\ UpToFrame(Line(c), handled[c])

OnScripts == \A c \in Processes : OnScript(c)

LEMMA PrefixAcknowledges ==
  ASSUME NEW s \in Seq(AnswerFrames), NEW t \in Seq(AnswerFrames), Acknowledges(s \o t)
  PROVE  Acknowledges(s)
<1> DEFINE u == s \o t
<1>1. Len(s) \in Nat /\ Len(t) \in Nat /\ Len(u) = Len(s) + Len(t) /\ \A i \in 1..Len(s) : u[i] = s[i]
  BY ConcatProperties, LenProperties
<1> HIDE DEF u
<1>2. ASSUME NEW i \in 1..Len(s), NEW j \in 1..Len(s), i < j, Ends(s[i]) PROVE s[i].to < s[j].to
  BY <1>1, <1>2 DEF Acknowledges, u
<1>3. ASSUME NEW i \in 1..Len(s), Ends(s[i]), IsPublication(s[i].to)
      PROVE  \E j \in 1..Len(s) : j < i /\ s[j].kind = "PUBLISH_ACK" /\ s[j].to = s[i].to
  <2>1. i \in 1..Len(u) /\ u[i] = s[i]
    BY <1>1
  <2>2. PICK j \in 1..Len(u) : j < i /\ u[j].kind = "PUBLISH_ACK" /\ u[j].to = u[i].to
    BY <1>3, <2>1 DEF Acknowledges, u
  <2>3. j \in 1..Len(s)
    BY <1>1, <2>2
  <2>4. QED
    BY <1>1, <2>1, <2>2, <2>3
<1>4. QED
  BY <1>2, <1>3 DEF Acknowledges

\* A group is taken off the front.
LEMMA RestAcknowledges ==
  ASSUME NEW s \in Seq(AnswerFrames), NEW t \in Seq(AnswerFrames), NEW b,
         Acknowledges(s \o t), s # <<>>, Ends(s[Len(s)]), \A i \in 1..Len(s) : s[i].to = b
  PROVE  Acknowledges(t)
<1> DEFINE u == s \o t
           m == Len(s)
<1>1. m \in Nat \ {0} /\ Len(t) \in Nat /\ Len(u) = m + Len(t)
      /\ (\A i \in 1..m : u[i] = s[i]) /\ \A i \in 1..Len(t) : i + m \in 1..Len(u) /\ u[i + m] = t[i]
  <2>1. m \in Nat \ {0} /\ Len(t) \in Nat
    BY EmptySeq, LenProperties
  <2>2. Len(u) = m + Len(t) /\ \A i \in 1..(m + Len(t)) : u[i] = IF i <= m THEN s[i] ELSE t[i - m]
    BY ConcatProperties
  <2> HIDE DEF u, m
  <2>3. QED
    BY <2>1, <2>2
<1> HIDE DEF u, m
<1>2. ASSUME NEW i \in 1..Len(t), NEW j \in 1..Len(t), i < j, Ends(t[i]) PROVE t[i].to < t[j].to
  <2>1. i + m \in 1..Len(u) /\ j + m \in 1..Len(u) /\ i + m < j + m /\ u[i + m] = t[i] /\ u[j + m] = t[j]
    BY <1>1, <1>2
  <2>2. QED
    BY <1>2, <2>1 DEF Acknowledges, u
<1>3. ASSUME NEW i \in 1..Len(t), Ends(t[i]), IsPublication(t[i].to)
      PROVE  \E j \in 1..Len(t) : j < i /\ t[j].kind = "PUBLISH_ACK" /\ t[j].to = t[i].to
  <2>1. i + m \in 1..Len(u) /\ u[i + m] = t[i]
    BY <1>1
  <2>2. PICK j \in 1..Len(u) : j < i + m /\ u[j].kind = "PUBLISH_ACK" /\ u[j].to = t[i].to
    BY <1>3, <2>1 DEF Acknowledges, u
  <2>3. u[m].to < u[i + m].to
    <3>1. m \in 1..Len(u) /\ m < i + m /\ Ends(u[m])
      BY <1>1 DEF m
    <3>2. QED
      BY <2>1, <3>1 DEF Acknowledges, u
  <2>4. u[m].to = b
    <3>1. m \in 1..m /\ u[m] = s[m]
      BY <1>1
    <3>2. QED
      BY <3>1 DEF m
  <2>5. ~(j <= m)
    <3>1. ASSUME j <= m PROVE FALSE
      <4>1. u[j] = s[j] /\ s[j].to = b
        BY <1>1, <3>1 DEF m
      <4>2. t[i].to \in Nat
        BY AnswerHasNumber
      <4>3. QED
        BY <2>1, <2>2, <2>3, <2>4, <4>1, <4>2
    <3>2. QED
      BY <3>1
  <2>6. j - m \in 1..Len(t) /\ j - m < i /\ u[(j - m) + m] = t[j - m] /\ (j - m) + m = j
    BY <1>1, <2>2, <2>5
  <2>7. QED
    BY <2>2, <2>6
<1>4. QED
  BY <1>2, <1>3 DEF Acknowledges

\* The answers to the frame after those answered so far.
LEMMA AnswersAcknowledge ==
  ASSUME NEW s \in Seq(AnswerFrames), NEW t \in Seq(AnswerFrames), NEW h \in Nat,
         Acknowledges(s), UpToFrame(s, h),
         \A i \in 1..Len(t) : t[i].to = h + 1 /\ (Ends(t[i]) <=> i = Len(t)),
         IsPublication(h + 1) => 1 < Len(t) /\ t[1].kind = "PUBLISH_ACK"
  PROVE  Acknowledges(s \o t) /\ UpToFrame(s \o t, h + 1)
<1> DEFINE u == s \o t
           m == Len(s)
<1>1. m \in Nat /\ Len(t) \in Nat
  BY LenProperties
<1>2. Len(u) = m + Len(t) /\ \A i \in 1..(m + Len(t)) : u[i] = IF i <= m THEN s[i] ELSE t[i - m]
  BY ConcatProperties
<1>3. \A i \in 1..m : i \in 1..Len(u) /\ u[i] = s[i] /\ s[i].to <= h /\ s[i].to \in Nat
  BY <1>1, <1>2, AnswerHasNumber DEF UpToFrame
<1> HIDE DEF u, m
<1>4. \A i \in 1..Len(t) : i + m \in 1..Len(u) /\ u[i + m] = t[i]
  BY <1>1, <1>2
<1>5. \A i \in 1..Len(u) : i > m => i - m \in 1..Len(t) /\ u[i] = t[i - m]
  BY <1>1, <1>2
<1>6. ASSUME NEW i \in 1..Len(u), NEW j \in 1..Len(u), i < j, Ends(u[i]) PROVE u[i].to < u[j].to
  <2>1. CASE j <= m
    <3>1. i \in 1..m /\ j \in 1..m
      BY <1>1, <1>6, <2>1
    <3>2. QED
      BY <1>3, <1>6, <3>1 DEF Acknowledges, m
  <2>2. CASE i <= m /\ j > m
    <3>1. u[i].to <= h /\ u[i].to \in Nat
      BY <1>1, <1>3, <2>2
    <3>2. u[j].to = h + 1
      BY <1>5, <2>2
    <3>3. QED
      BY <3>1, <3>2
  <2>3. CASE i > m
    <3>1. i - m \in 1..Len(t) /\ i - m # Len(t) /\ u[i] = t[i - m]
      BY <1>1, <1>2, <1>5, <1>6, <2>3
    <3>2. ~Ends(u[i])
      BY <3>1
    <3>3. QED
      BY <1>6, <3>2
  <2>4. QED
    BY <1>1, <1>6, <2>1, <2>2, <2>3
<1>7. ASSUME NEW i \in 1..Len(u), Ends(u[i]), IsPublication(u[i].to)
      PROVE  \E j \in 1..Len(u) : j < i /\ u[j].kind = "PUBLISH_ACK" /\ u[j].to = u[i].to
  <2>1. CASE i <= m
    <3>1. i \in 1..m /\ u[i] = s[i]
      BY <1>1, <1>3, <2>1
    <3>2. PICK j \in 1..m : j < i /\ s[j].kind = "PUBLISH_ACK" /\ s[j].to = s[i].to
      BY <1>7, <3>1 DEF Acknowledges, m
    <3>3. QED
      BY <1>3, <3>1, <3>2
  <2>2. CASE i > m
    <3>1. i - m \in 1..Len(t) /\ u[i] = t[i - m] /\ t[i - m].to = h + 1 /\ i - m = Len(t)
      BY <1>5, <1>7, <2>2
    <3>2. 1 < Len(t) /\ t[1].kind = "PUBLISH_ACK" /\ t[1].to = h + 1 /\ 1 \in 1..Len(t)
      BY <1>1, <1>7, <3>1
    <3>3. 1 + m \in 1..Len(u) /\ u[1 + m] = t[1] /\ 1 + m < i
      BY <1>1, <1>4, <3>1, <3>2
    <3>4. QED
      BY <3>1, <3>2, <3>3
  <2>3. QED
    BY <1>1, <2>1, <2>2
<1>8. ASSUME NEW i \in 1..Len(u) PROVE u[i].to <= h + 1
  BY <1>1, <1>3, <1>5
<1>9. QED
  BY <1>6, <1>7, <1>8 DEF Acknowledges, UpToFrame, u

LEMMA LineTyped ==
  ASSUME TypeOK, NEW c \in Processes
  PROVE  /\ group[c] \in Seq(AnswerFrames) /\ toClient[c] \in Seq(AnswerFrames) /\ reply[c] \in Seq(AnswerFrames)
         /\ group[c] \o toClient[c] \in Seq(AnswerFrames) /\ Line(c) \in Seq(AnswerFrames)
         /\ toServer[c] \in Seq(RequestFrames) /\ outbox[c] \in Seq(RequestFrames) /\ Due(c) \in Seq(RequestFrames)
         /\ handled[c] \in Nat /\ published[c] \in Nat /\ groups[c] \in Nat /\ c \in Clients
<1>1. /\ group[c] \in Seq(AnswerFrames) /\ toClient[c] \in Seq(AnswerFrames) /\ reply[c] \in Seq(AnswerFrames)
      /\ toServer[c] \in Seq(RequestFrames) /\ outbox[c] \in Seq(RequestFrames)
      /\ handled[c] \in Nat /\ published[c] \in Nat /\ groups[c] \in Nat /\ c \in Clients
  BY DEF TypeOK, Clients
<1>2. QED
  BY <1>1, ConcatProperties DEF Line, Due

\* All of the conversation of a process.
Whole(c) == <<Conversation(c), outbox[c], toServer[c], published[c], acknowledged[c]>>

LEMMA UntouchedOnScript ==
  ASSUME NEW c \in Processes, OnScript(c), Whole(c)' = Whole(c)
  PROVE  OnScript(c)'
<1>1. /\ stage'[c] = stage[c] /\ group'[c] = group[c] /\ groups'[c] = groups[c] /\ toClient'[c] = toClient[c]
      /\ session'[c] = session[c] /\ handled'[c] = handled[c] /\ reply'[c] = reply[c]
      /\ outbox'[c] = outbox[c] /\ toServer'[c] = toServer[c] /\ published'[c] = published[c]
      /\ acknowledged'[c] = acknowledged[c]
  BY DEF Whole, Conversation
<1>2. /\ Line(c)' = Line(c) /\ Due(c)' = Due(c) /\ (Unused(c) => Unused(c)') /\ Publishes(c)' = Publishes(c)
      /\ HasRead(c, groups[c])' = HasRead(c, groups[c])
  BY <1>1 DEF Line, Due, Unused, Publishes, HasRead
<1>3. Scripted(c)' = Scripted(c) /\ UpToFrame(Line(c), handled[c])' = UpToFrame(Line(c), handled[c])
      /\ Acknowledges(Line(c))' = Acknowledges(Line(c))
  BY <1>1, <1>2 DEF Scripted, UpToFrame, Acknowledges
<1>4. QED
  BY <1>1, <1>2, <1>3 DEF OnScript

LEMMA OthersOnScript ==
  ASSUME TypeOK, NEW c \in Clients, NEW d \in Processes, d # c, OnScript(d),
         Connects(c) \/ ClientStep(c) \/ SessionStep(c) \/ Exit(c)
  PROVE  OnScript(d)'
<1>1. d \in Clients
  BY DEF Clients
<1>2. Conversation(d)' = Conversation(d)
  BY <1>1, OthersUntouched
<1>3. outbox'[d] = outbox[d] /\ published'[d] = published[d] /\ acknowledged'[d] = acknowledged[d]
      /\ toServer'[d] = toServer[d]
  <2> USE <1>1 DEF TypeOK
  <2>1. CASE Connects(c)
    BY <2>1 DEF Connects, Connect
  <2>2. CASE Exit(c) \/ Put(c) \/ Get(c)
    BY <2>2 DEF Exit, Put, Get, Leave, sessionVars
  <2>3. CASE ReadGroup(c)
    <3>1. CASE Leave(c)
      BY <2>3, <3>1 DEF ReadGroup, Leave
    <3>2. CASE NextObservation(c)
      BY <2>3, <3>2 DEF ReadGroup, NextObservation
    <3>3. QED
      BY <2>3, <3>1, <3>2 DEF ReadGroup
  <2>4. CASE ServeHello(c) \/ ServePublication(c) \/ ServeOther(c) \/ ServeQuery(c)
    BY <2>4 DEF ServeHello, ServePublication, ServeOther, ServeQuery, Taking, clientVars
  <2>5. CASE ServeDisconnect(c) \/ RaiseFlag(c) \/ EndSession(c)
    BY <2>5 DEF ServeDisconnect, RaiseFlag, EndSession, Close, clientVars
  <2>6. CASE Reply(c)
    BY <2>6 DEF Reply, clientVars
  <2>7. QED
    BY <2>1, <2>2, <2>3, <2>4, <2>5, <2>6 DEF ClientStep, SessionStep, Break
<1>4. QED
  BY <1>2, <1>3, UntouchedOnScript DEF Whole

LEMMA LeavingOnScript ==
  ASSUME TypeOK, NEW c \in Processes, Leave(c) PROVE OnScript(c)'
BY DEF TypeOK, Leave, OnScript, Publishes, Clients

LEMMA StartingOnScript ==
  ASSUME TypeOK, NEW c \in Processes, OnScript(c), StartWorker(c) PROVE OnScript(c)'
<1> DEFINE hello == Request("HELLO", 0, "none")
<1>1. stage[c] = "new" /\ Unused(c) /\ c \in Clients
  BY DEF OnScript, StartWorker, Connect, Clients
<1>2. UNCHANGED <<published, group, groups, acknowledged, toServer, toClient, handled, reply>>
  BY DEF StartWorker, Connect
<1>3. CASE stage'[c] = "left"
  BY <1>3 DEF OnScript, Publishes
<1>4. CASE stage'[c] = "hello" /\ outbox'[c] = Closed(hello) /\ session'[c] = "open"
  <2>1. Closed(hello) \in Seq(RequestFrames) /\ Len(Closed(hello)) = 2
    <3>1. hello \in RequestFrames /\ Request("RESPONSE_END", 0, "none") \in RequestFrames
      BY DEF Request, RequestFrames
    <3>2. QED
      BY <3>1 DEF Closed
  <2>2. Due(c)' = Closed(hello)
    BY <1>1, <1>2, <1>4, <2>1, ConcatEmptySeq DEF Due, Unused
  <2>3. handled'[c] = 0 /\ published'[c] = 0 /\ groups'[c] = 0
    BY <1>1, <1>2 DEF Unused
  <2>4. ~IsPublication(1) /\ ~IsPublication(2)
    BY DEF IsPublication, PublicationFrame
  <2>5. Scripted(c)'
    BY <2>1, <2>2, <2>3, <2>4 DEF Scripted
  <2>6. Line(c)' = <<>>
    <3>1. <<>> \o <<>> = <<>>
      BY EmptySeq, ConcatEmptySeq
    <3>2. QED
      BY <1>1, <1>2, <3>1 DEF Line, Unused
  <2>7. Acknowledges(Line(c)') /\ UpToFrame(Line(c)', 0)
    BY <2>6, EmptySeq DEF Acknowledges, UpToFrame
  <2>8. HasRead(c, 0)'
    BY DEF HasRead, PublicationFrame
  <2>9. QED
    BY <1>4, <2>3, <2>5, <2>7, <2>8 DEF OnScript
<1>5. QED
  BY <1>1, <1>3, <1>4 DEF StartWorker, Connect, TypeOK

LEMMA PuttingOnScript ==
  ASSUME TypeOK, NEW c \in Processes, OnScript(c), Put(c) PROVE OnScript(c)'
<1> DEFINE n == Fit(outbox[c], toServer[c], RequestRoom)
           o == outbox[c]
           p == SubSeq(o, 1, n)
           q == SubSeq(o, n + 1, Len(o))
<1>1. stage[c] # "telling" /\ c \in Clients
  BY DEF OnScript, Clients
<1>2. /\ n > 0 /\ toServer'[c] = toServer[c] \o p /\ outbox'[c] = q
      /\ UNCHANGED <<stage, published, group, groups, toClient, acknowledged, session, handled, reply>>
  BY <1>1 DEF Put, TypeOK, sessionVars
<1>3. n \in Nat \ {0} /\ n <= Len(o) /\ o \in Seq(RequestFrames) /\ Len(o) \in Nat /\ toServer[c] \in Seq(RequestFrames)
  BY <1>2, SessionAssumption, FitIsPart, LineTyped, LenProperties
<1> HIDE DEF n, o
<1>4. p \in Seq(RequestFrames) /\ q \in Seq(RequestFrames) /\ p \o q = o
  <2>1. p \in Seq(RequestFrames) /\ q \in Seq(RequestFrames)
    BY <1>3, PartIsSeq
  <2>2. p \o q = SubSeq(o, 1, Len(o))
    <3>1. 1 \in 1..(Len(o) + 1) /\ n \in (1 - 1)..Len(o) /\ Len(o) \in n..Len(o)
      BY <1>3
    <3>2. QED
      BY <1>3, <3>1, ConcatAdjacentSubSeq
  <2>3. QED
    BY <1>3, <2>1, <2>2, SubSeqFull
<1> HIDE DEF p, q
<1>5. Due(c)' = Due(c)
  <2>1. \A s, t, u \in Seq(RequestFrames) : (s \o t) \o u = s \o (t \o u)
    BY ConcatAssociative
  <2>2. (toServer[c] \o p) \o q = toServer[c] \o (p \o q)
    BY <1>3, <1>4, <2>1, Zenon
  <2>3. Due(c)' = (toServer[c] \o p) \o q
    BY <1>2 DEF Due
  <2>4. Due(c) = toServer[c] \o (p \o q)
    BY <1>4 DEF Due, o
  <2>5. QED
    BY <2>2, <2>3, <2>4
<1>6. Line(c)' = Line(c)
  BY <1>2 DEF Line
<1>7. stage[c] # "new"
  BY DEF Put, Engaged
<1>8. QED
  BY <1>2, <1>5, <1>6, <1>7 DEF OnScript, Publishes, Scripted, HasRead

LEMMA GettingOnScript ==
  ASSUME TypeOK, NEW c \in Processes, OnScript(c), Get(c) PROVE OnScript(c)'
<1>1. UNCHANGED <<stage, outbox, published, groups, acknowledged, toServer, session, handled, reply>>
      /\ stage[c] # "new"
  BY DEF Get, Reading, Engaged, sessionVars
<1>2. CASE stage[c] = "ready"
  BY <1>1, <1>2 DEF OnScript, Publishes
<1>3. CASE group'[c] = group[c] \o toClient[c] /\ toClient'[c] = <<>>
  <2>1. Line(c)' = Line(c)
    <3>1. (group[c] \o toClient[c]) \o <<>> = group[c] \o toClient[c]
      BY LineTyped, ConcatEmptySeq
    <3>2. QED
      BY <1>1, <1>3, <3>1 DEF Line
  <2>2. Due(c)' = Due(c)
    BY <1>1 DEF Due
  <2>3. QED
    BY <1>1, <2>1, <2>2 DEF OnScript, Publishes, Scripted, HasRead
<1>4. QED
  BY <1>2, <1>3 DEF Get, TypeOK, Clients

\* The frame a process has put in its outbox is the next in its script.
LEMMA ObservationIsScripted ==
  ASSUME TypeOK, NEW c \in Processes, Scripted(c), outbox[c] = <<>>,
         UNCHANGED <<toServer, handled>>, published'[c] = published[c] + 1,
         NEW n \in Nat, outbox'[c] = Closed(Request("PUBLISH_EVIDENCE", n, "none"))
  PROVE  Scripted(c)'
<1> DEFINE f == Closed(Request("PUBLISH_EVIDENCE", n, "none"))
           t == toServer[c]
<1>1. t \in Seq(RequestFrames) /\ handled[c] \in Nat /\ published[c] \in Nat /\ Len(t) \in Nat
  BY LineTyped, LenProperties
<1>2. Due(c) = t
  BY <1>1, ConcatEmptySeq DEF Due
<1>3. f \in Seq(RequestFrames) /\ Len(f) = 2 /\ f[1].kind = "PUBLISH_EVIDENCE"
  <2>1. f \in Seq(RequestFrames)
    BY RequestIsFrame
  <2>2. Len(f) = 2 /\ f[1].kind = "PUBLISH_EVIDENCE"
    BY DEF Closed, Request
  <2>3. QED
    BY <2>1, <2>2
<1>4. Due(c)' = t \o f
  BY DEF Due
<1> HIDE DEF f, t
<1> DEFINE u == t \o f
<1>5. Len(u) = Len(t) + 2 /\ \A i \in 1..(Len(t) + 2) : u[i] = IF i <= Len(t) THEN t[i] ELSE f[i - Len(t)]
  <2>1. Len(u) = Len(t) + Len(f) /\ \A i \in 1..(Len(t) + Len(f)) : u[i] = IF i <= Len(t) THEN t[i] ELSE f[i - Len(t)]
    BY <1>1, <1>3, ConcatProperties
  <2> HIDE DEF u
  <2>2. QED
    BY <1>3, <2>1
<1> HIDE DEF u
<1>6. handled[c] + Len(t) = 2 * (published[c] + 1)
  BY <1>2 DEF Scripted
<1>7. ASSUME NEW i \in 1..(Len(t) + 2), IsPublication(handled[c] + i) PROVE u[i].kind = "PUBLISH_EVIDENCE"
  <2>1. CASE i <= Len(t)
    BY <1>1, <1>2, <1>5, <1>7, <2>1 DEF Scripted
  <2>2. CASE i = Len(t) + 1
    BY <1>1, <1>3, <1>5, <2>2
  <2>3. CASE i = Len(t) + 2
    BY <1>1, <1>6, <1>7, <2>3 DEF IsPublication, PublicationFrame
  <2>4. QED
    BY <1>1, <2>1, <2>2, <2>3
<1>8. QED
  <2>1. Due(c)' = u
    BY <1>4 DEF u
  <2>2. handled'[c] + Len(u) = 2 * (published'[c] + 1)
    <3>1. handled'[c] = handled[c] /\ published'[c] = published[c] + 1
      OBVIOUS
    <3>2. Len(u) = Len(t) + 2
      BY <1>5
    <3>3. handled[c] + (Len(t) + 2) = 2 * ((published[c] + 1) + 1)
      BY <1>1, <1>6
    <3>4. QED
      BY <3>1, <3>2, <3>3
  <2>3. \A i \in 1..Len(u) : IsPublication(handled'[c] + i) => u[i].kind = "PUBLISH_EVIDENCE"
    BY <1>5, <1>7
  <2>4. QED
    BY <2>1, <2>2, <2>3 DEF Scripted

\* A group that is read ends with the frame it answers, and if that is an
\* observation its acknowledgement is among the frames before.
LEMMA GroupAcknowledges ==
  ASSUME TypeOK, NEW c \in Processes, OnScript(c), InStepOf(c), ReadGroup(c)
  PROVE  /\ acknowledged[c] \subseteq acknowledged'[c]
         /\ IsPublication(groups[c] + 1) => groups[c] + 1 \in acknowledged'[c]
         /\ Acknowledges(SubSeq(toClient[c], FirstEnd(c) + 1, Len(toClient[c])) \o reply[c])
         /\ session[c] # "closed" =>
              UpToFrame(SubSeq(toClient[c], FirstEnd(c) + 1, Len(toClient[c])) \o reply[c], handled[c])
<1> DEFINE s == toClient[c]
           g == group[c]
           r == reply[c]
           b == groups[c] + 1
           e == FirstEnd(c)
           h == SubSeq(s, 1, e - 1)
           p == SubSeq(s, 1, e)
           q == SubSeq(s, e + 1, Len(s))
           m == Len(g)
<1>1. g \in Seq(AnswerFrames) /\ s \in Seq(AnswerFrames) /\ r \in Seq(AnswerFrames) /\ b \in Nat /\ c \in Clients
      /\ m \in Nat /\ Len(s) \in Nat
  BY LineTyped, LenProperties
<1>2. e \in 1..Len(s) /\ Ends(s[e]) /\ \A j \in 1..(e - 1) : ~Ends(s[j])
  BY <1>1, FirstEndIsFirst DEF ReadGroup
<1>3. Talks(c) /\ Publishes(c)
  BY DEF ReadGroup, Reading, Engaged, Talks, Publishes, OnScript
<1>4. (\A f \in Frames(g) : f.to = b) /\ Numbered(s, b) /\ s # <<>>
  BY <1>3 DEF InStepOf, ReadGroup, Reading
<1>5. acknowledged'[c] = acknowledged[c] \cup {f.to : f \in {x \in Frames(g \o h) : x.kind = "PUBLISH_ACK"}}
  BY <1>1 DEF ReadGroup, TypeOK
<1> HIDE DEF e, s, g, r
<1>6. p \in Seq(AnswerFrames) /\ Len(p) = e /\ \A i \in 1..e : p[i] = s[i]
  BY <1>1, <1>2, PartIsSeq
<1>7. h \in Seq(AnswerFrames) /\ Len(h) = e - 1 /\ \A i \in 1..(e - 1) : h[i] = s[i]
  <2> DEFINE d == e - 1
  <2>1. d \in Nat /\ d <= Len(s)
    BY <1>1, <1>2
  <2> HIDE DEF d
  <2>2. SubSeq(s, 1, d) \in Seq(AnswerFrames) /\ Len(SubSeq(s, 1, d)) = (IF 1 <= d THEN d - 1 + 1 ELSE 0)
        /\ \A i \in 1..(d - 1 + 1) : SubSeq(s, 1, d)[i] = s[1 + i - 1]
    BY <1>1, <2>1, PartIsSeq
  <2>3. h = SubSeq(s, 1, d)
    BY DEF d
  <2> HIDE DEF h
  <2>4. h \in Seq(AnswerFrames) /\ Len(h) = d /\ \A i \in 1..d : h[i] = s[i]
    BY <2>1, <2>2, <2>3
  <2>5. QED
    BY <2>4 DEF d
<1>8. q \in Seq(AnswerFrames)
  BY <1>1, <1>2, PartIsSeq
<1>9. p \o q = s
  <2>1. 1 \in 1..(Len(s) + 1) /\ e \in (1 - 1)..Len(s) /\ Len(s) \in e..Len(s)
    BY <1>1, <1>2
  <2>2. p \o q = SubSeq(s, 1, Len(s))
    BY <1>1, <2>1, ConcatAdjacentSubSeq
  <2>3. QED
    BY <1>1, <2>2, SubSeqFull
<1>10. \A i \in 1..e : s[i].to = b
  <2>1. ASSUME NEW i \in 1..e PROVE s[i].to = b
    <3>1. 1 \in 1..Len(s) /\ i \in 1..Len(s) /\ 1 <= i /\ \A k \in 1..(i - 1) : ~Ends(s[k])
      BY <1>1, <1>2
    <3>2. QED
      BY <1>4, <3>1 DEF Numbered, Chained
  <2>2. QED
    BY <2>1
<1> HIDE DEF h, p, q
<1> DEFINE front == g \o p
<1>11. /\ front \in Seq(AnswerFrames) /\ Len(front) = m + e
       /\ \A i \in 1..(m + e) : front[i] = IF i <= m THEN g[i] ELSE p[i - m]
  BY <1>1, <1>6, ConcatProperties
<1>12. /\ g \o h \in Seq(AnswerFrames) /\ Len(g \o h) = m + (e - 1)
       /\ \A i \in 1..(m + (e - 1)) : (g \o h)[i] = IF i <= m THEN g[i] ELSE h[i - m]
  <2>1. g \in Seq(AnswerFrames) /\ h \in Seq(AnswerFrames) /\ Len(g) = m /\ Len(h) = e - 1
    BY <1>1, <1>7
  <2>2. QED
    BY ONLY <2>1, Joined
<1>13. Line(c) = front \o (q \o r)
  <2>1. \A x, y, z \in Seq(AnswerFrames) : (x \o y) \o z = x \o (y \o z)
    BY ConcatAssociative
  <2> g \in Seq(AnswerFrames) /\ p \in Seq(AnswerFrames) /\ q \in Seq(AnswerFrames) /\ r \in Seq(AnswerFrames)
      /\ g \o p \in Seq(AnswerFrames)
    BY <1>1, <1>6, <1>8, <1>11
  <2>2. g \o (p \o q) = (g \o p) \o q
    BY ONLY ConcatAssociative, <2>1, g \in Seq(AnswerFrames), p \in Seq(AnswerFrames), q \in Seq(AnswerFrames), Zenon
  <2>3. ((g \o p) \o q) \o r = (g \o p) \o (q \o r)
    BY ONLY <2>1, r \in Seq(AnswerFrames), q \in Seq(AnswerFrames), g \o p \in Seq(AnswerFrames), Zenon
  <2>4. Line(c) = (g \o (p \o q)) \o r
    BY <1>9 DEF Line, g, s, r
  <2>5. QED
    BY <2>2, <2>3, <2>4
<1>14. q \o r \in Seq(AnswerFrames)
  BY <1>1, <1>8, ConcatProperties
<1> HIDE DEF front, m
<1>15. \A i \in 1..(m + e) : front[i].to = b
  <2>1. ASSUME NEW i \in 1..(m + e) PROVE front[i].to = b
    <3>1. CASE i <= m
      <4>1. front[i] = g[i] /\ i \in DOMAIN g
        BY <1>1, <1>11, <3>1, LenProperties DEF m
      <4>2. QED
        BY <1>4, <4>1 DEF Frames
    <3>2. CASE i > m
      <4>1. i - m \in 1..e
        BY <1>1, <1>2, <3>2
      <4>2. front[i] = s[i - m]
        BY <1>1, <1>6, <1>11, <3>2, <4>1
      <4>3. QED
        BY <1>10, <4>1, <4>2
    <3>3. QED
      BY <1>1, <1>2, <3>1, <3>2
  <2>2. QED
    BY <2>1
<1>16. Ends(front[m + e]) /\ front # <<>> /\ m + e \in 1..(m + e)
  <2>1. m + e \in 1..(m + e) /\ ~(m + e <= m) /\ (m + e) - m = e /\ e \in 1..e
    BY <1>1, <1>2
  <2>2. front[m + e] = s[e]
    BY <1>6, <1>11, <2>1
  <2>3. QED
    BY <1>2, <1>11, <2>1, <2>2, EmptySeq
<1>17. Acknowledges(front \o (q \o r))
  BY <1>3, <1>13 DEF OnScript
<1>18. Acknowledges(q \o r)
  BY <1>11, <1>14, <1>15, <1>16, <1>17, RestAcknowledges
<1>19. ASSUME IsPublication(b) PROVE b \in acknowledged'[c]
  <2>1. Acknowledges(front)
    BY <1>11, <1>14, <1>17, PrefixAcknowledges
  <2>2. PICK j \in 1..(m + e) : j < m + e /\ front[j].kind = "PUBLISH_ACK" /\ front[j].to = b
    BY <1>11, <1>15, <1>16, <1>19, <2>1 DEF Acknowledges
  <2>3. j \in 1..(m + (e - 1))
    BY <1>1, <1>2, <2>2
  <2>4. front[j] = (g \o h)[j]
    <3>1. CASE j <= m
      BY <1>11, <1>12, <2>2, <2>3, <3>1
    <3>2. CASE j > m
      <4>1. j - m \in 1..e /\ j - m \in 1..(e - 1) /\ ~(j <= m)
        BY <1>1, <1>2, <2>3, <3>2
      <4>2. QED
        BY <1>6, <1>7, <1>11, <1>12, <2>2, <2>3, <4>1
    <3>3. QED
      <4>1. j <= m \/ j > m
        BY <1>1, <1>2, <2>2
      <4>2. QED
        BY <3>1, <3>2, <4>1, Zenon
  <2>5. (g \o h)[j] \in Frames(g \o h)
    <3>1. j \in DOMAIN (g \o h)
      BY <1>12, <2>3, LenProperties
    <3>2. QED
      BY <3>1 DEF Frames
  <2>6. QED
    BY <1>5, <2>2, <2>4, <2>5
<1>20. ASSUME session[c] # "closed" PROVE UpToFrame(q \o r, handled[c])
  <2> DEFINE rest == q \o r
  <2>1. UpToFrame(front \o rest, handled[c])
    BY <1>3, <1>13, <1>20 DEF OnScript
  <2>2. Len(rest) \in Nat /\ Len(front \o rest) = m + e + Len(rest)
        /\ \A i \in 1..(m + e + Len(rest)) : (front \o rest)[i] = IF i <= m + e THEN front[i] ELSE rest[i - (m + e)]
    <3>1. Len(front \o rest) = Len(front) + Len(rest)
          /\ \A i \in 1..(Len(front) + Len(rest)) : (front \o rest)[i] = IF i <= Len(front) THEN front[i] ELSE rest[i - Len(front)]
      BY <1>11, <1>14, ConcatProperties
    <3>2. Len(rest) \in Nat /\ Len(front) = m + e
      BY <1>11, <1>14, LenProperties
    <3>3. QED
      BY <3>1, <3>2
  <2> HIDE DEF rest
  <2>3. ASSUME NEW i \in 1..Len(rest) PROVE rest[i].to <= handled[c]
    <3>1. i + (m + e) \in 1..(m + e + Len(rest)) /\ ~(i + (m + e) <= m + e) /\ (i + (m + e)) - (m + e) = i
      BY <1>1, <1>2, <2>2
    <3>2. (front \o rest)[i + (m + e)] = rest[i]
      BY <2>2, <3>1
    <3>3. QED
      BY <2>1, <2>2, <3>1, <3>2 DEF UpToFrame
  <2>4. QED
    BY <2>3 DEF UpToFrame, rest
<1>21. QED
  BY <1>5, <1>18, <1>19, <1>20 DEF b, q, r, s, e

LEMMA ReadingOnScript ==
  ASSUME TypeOK, NEW c \in Processes, OnScript(c), InStepOf(c), ReadGroup(c) PROVE OnScript(c)'
<1> DEFINE q == SubSeq(toClient[c], FirstEnd(c) + 1, Len(toClient[c]))
           b == groups[c] + 1
<1>1. Publishes(c) /\ c \in Clients /\ c \notin Drivers /\ stage[c] # "new" /\ outbox[c] = <<>>
  BY SessionAssumption DEF ReadGroup, Reading, Engaged, Publishes, OnScript, Clients
<1>2. /\ acknowledged[c] \subseteq acknowledged'[c] /\ (IsPublication(b) => b \in acknowledged'[c])
      /\ Acknowledges(q \o reply[c])
      /\ session[c] # "closed" => UpToFrame(q \o reply[c], handled[c])
  BY GroupAcknowledges
<1>3. UNCHANGED <<toServer, session, handled, reply>>
  BY DEF ReadGroup, sessionVars
<1>4. \/ Leave(c)
      \/ /\ NextObservation(c) /\ toClient'[c] = q /\ group'[c] = <<>> /\ groups'[c] = b
  BY <1>1 DEF ReadGroup, TypeOK
<1> HIDE DEF q
<1>5. CASE Leave(c)
  BY <1>5, LeavingOnScript
<1>6. CASE NextObservation(c) /\ toClient'[c] = q /\ group'[c] = <<>> /\ groups'[c] = b
  <2>1. groups[c] \in Nat /\ published[c] = groups[c] /\ published[c] \in Nat
    BY <1>1, LineTyped DEF OnScript
  <2>2. HasRead(c, groups[c])'
    <3>1. ASSUME NEW k \in Nat \ {0}, PublicationFrame(k) <= b PROVE PublicationFrame(k) \in acknowledged'[c]
      <4>1. CASE PublicationFrame(k) <= groups[c]
        BY <1>1, <1>2, <4>1 DEF OnScript, HasRead
      <4>2. CASE PublicationFrame(k) = b
        <5>1. IsPublication(b)
          BY <2>1, <4>2 DEF IsPublication, PublicationFrame
        <5>2. QED
          BY <1>2, <4>2, <5>1
      <4>3. QED
        BY <2>1, <3>1, <4>1, <4>2 DEF PublicationFrame
    <3>2. QED
      BY <1>6, <3>1 DEF HasRead
  <2>3. CASE stage'[c] = "ready"
    BY <2>3 DEF OnScript, Publishes
  <2>4. CASE /\ published'[c] = published[c] + 1 /\ stage'[c] = "publishing"
             /\ outbox'[c] = Closed(Request("PUBLISH_EVIDENCE", published[c] + 1, "none"))
    <3>1. session[c] # "closed" => Scripted(c)'
      <4>1. published[c] + 1 \in Nat
        BY <2>1
      <4>2. QED
        BY <1>1, <1>3, <2>4, <4>1, ObservationIsScripted DEF OnScript
    <3>2. Line(c)' = q \o reply[c]
      <4>1. <<>> \o q = q
        <5>1. q \in Seq(AnswerFrames)
          <6>1. FirstEnd(c) \in 1..Len(toClient[c]) /\ toClient[c] \in Seq(AnswerFrames) /\ Len(toClient[c]) \in Nat
            BY <1>1, LineTyped, FirstEndIsFirst, LenProperties DEF ReadGroup
          <6>2. QED
            BY <6>1, PartIsSeq DEF q
        <5>2. QED
          BY <5>1, ConcatEmptySeq
      <4>2. Line(c)' = (<<>> \o q) \o reply[c]
        BY <1>3, <1>6 DEF Line
      <4>3. QED
        BY <4>1, <4>2
    <3>3. published'[c] = groups'[c]
      BY <1>6, <2>1, <2>4
    <3>4. QED
      BY <1>2, <1>3, <1>6, <2>2, <2>4, <3>1, <3>2, <3>3 DEF OnScript, Publishes
  <2>5. QED
    BY <1>1, <1>6, <2>3, <2>4 DEF NextObservation, TypeOK
<1>7. QED
  BY <1>4, <1>5, <1>6

\* The answers to one frame, one by one.
LEMMA AnswersInDetail ==
  ASSUME SessionTypes, NEW c \in Clients, NEW kinds \in Seq(AnswerKinds \ {"RESPONSE_END"}),
         NEW accepted \in BOOLEAN, Answers(c, kinds, accepted)
  PROVE  LET r == reply'[c]
         IN /\ r \in Seq(AnswerFrames) /\ Len(r) = Len(kinds) + 1 /\ Len(kinds) \in Nat
            /\ \A i \in 1..Len(r) : r[i].to = handled[c] + 1 /\ (Ends(r[i]) <=> i = Len(r))
            /\ kinds # <<>> => r[1].kind = kinds[1] /\ 1 < Len(r)
<1> DEFINE a == handled[c] + 1
           s == [i \in DOMAIN kinds |-> Answer(kinds[i], accepted, a)]
           e == Answer("RESPONSE_END", TRUE, a)
           r == s \o <<e>>
           n == Len(kinds)
<1>1. DOMAIN kinds = 1..n /\ n \in Nat /\ a \in Nat
  BY LenProperties DEF SessionTypes
<1>2. reply'[c] = r
  BY DEF Answers, SessionTypes
<1>3. \A i \in 1..n : s[i].to = a /\ s[i].kind = kinds[i] /\ kinds[i] # "RESPONSE_END"
  BY <1>1, ElementOfSeq DEF Answer
<1>4. e.to = a /\ e.kind = "RESPONSE_END"
  BY DEF Answer
<1>5. s \in Seq(AnswerFrames) /\ Len(s) = n
  <2>1. \A i \in 1..n : s[i] \in AnswerFrames
    BY <1>1, ElementOfSeq DEF Answer, AnswerFrames
  <2>2. s \in [1..n -> AnswerFrames]
    BY <1>1, <2>1
  <2> HIDE DEF s
  <2>3. QED
    BY <1>1, <2>2, SeqDef, LenProperties
<1>6. e \in AnswerFrames
  BY <1>1 DEF Answer, AnswerFrames, AnswerKinds
<1> HIDE DEF a, s, e
<1>7. r \in Seq(AnswerFrames) /\ Len(r) = n + 1 /\ (\A i \in 1..n : r[i] = s[i]) /\ r[n + 1] = e
  <2>1. r = Append(s, e)
    BY <1>5, <1>6, AppendIsConcat
  <2>2. QED
    BY <1>5, <1>6, <2>1, AppendProperties
<1> HIDE DEF r
<1>8. \A i \in 1..(n + 1) : r[i].to = a /\ (Ends(r[i]) <=> i = n + 1)
  BY <1>1, <1>3, <1>4, <1>7 DEF Ends
<1>9. kinds # <<>> => r[1].kind = kinds[1] /\ 1 < n + 1
  <2>1. kinds # <<>> => n # 0
    BY EmptySeq
  <2>2. QED
    BY <1>1, <1>3, <1>7, <2>1
<1>10. QED
  BY <1>1, <1>2, <1>7, <1>8, <1>9 DEF a

\* What a session takes is the next frame of the script, and what it answers goes behind
\* what it has answered before.
LEMMA AnsweringOnScript ==
  ASSUME TypeOK, NEW c \in Processes, OnScript(c), NEW k, Taking(c, k), session'[c] # "closed",
         NEW kinds \in Seq(AnswerKinds \ {"RESPONSE_END"}), NEW accepted \in BOOLEAN,
         Answers(c, kinds, accepted),
         k = "PUBLISH_EVIDENCE" => kinds # <<>> /\ kinds[1] = "PUBLISH_ACK"
  PROVE  OnScript(c)'
<1> DEFINE h == handled[c]
           t == toServer[c]
           o == outbox[c]
           r == reply'[c]
           l == group[c] \o toClient[c]
<1>1. /\ session[c] = "open" /\ reply[c] = <<>> /\ t # <<>> /\ t[1].kind = k /\ toServer'[c] = Tail(t)
      /\ handled'[c] = h + 1
      /\ UNCHANGED <<stage, outbox, published, group, groups, acknowledged, toClient>>
  BY LineTyped DEF Taking, CanTake, clientVars, TypeOK
<1>2. stage[c] # "new"
  BY <1>1 DEF OnScript, Unused
<1>3. CASE ~Publishes(c)
  BY <1>1, <1>2, <1>3 DEF OnScript, Publishes
<1>4. CASE Publishes(c)
  <2>1. t \in Seq(RequestFrames) /\ o \in Seq(RequestFrames) /\ h \in Nat /\ Len(t) \in Nat \ {0} /\ Len(o) \in Nat
        /\ l \in Seq(AnswerFrames)
    BY <1>1, LineTyped, EmptySeq, LenProperties
  <2>2. Scripted(c) /\ Acknowledges(Line(c)) /\ UpToFrame(Line(c), h)
    BY <1>1, <1>4 DEF OnScript
  <2>3. Line(c) = l
    BY <1>1, <2>1, ConcatEmptySeq DEF Line
  <2> DEFINE d == t \o o
             u == Tail(t) \o o
  <2>4. Len(d) = Len(t) + Len(o) /\ \A i \in 1..(Len(t) + Len(o)) : d[i] = IF i <= Len(t) THEN t[i] ELSE o[i - Len(t)]
    BY ONLY <2>1, ConcatProperties, Zenon
  <2>5. Tail(t) \in Seq(RequestFrames) /\ Len(Tail(t)) = Len(t) - 1 /\ \A i \in 1..(Len(t) - 1) : Tail(t)[i] = t[i + 1]
    <3>1. Tail(t) \in Seq(RequestFrames) /\ Len(Tail(t)) = Len(t) - 1 /\ \A i \in 1..Len(Tail(t)) : Tail(t)[i] = t[i + 1]
      BY <1>1, <2>1, HeadTailProperties
    <3>2. QED
      BY <3>1
  <2>6. /\ Len(u) = Len(Tail(t)) + Len(o)
        /\ \A i \in 1..(Len(Tail(t)) + Len(o)) : u[i] = IF i <= Len(Tail(t)) THEN Tail(t)[i] ELSE o[i - Len(Tail(t))]
    BY ONLY <2>1, <2>5, ConcatProperties, Zenon
  <2> HIDE DEF d, u, t, o
  <2>7. \A i \in 1..Len(u) : i + 1 \in 1..Len(d) /\ u[i] = d[i + 1]
    <3>1. ASSUME NEW i \in 1..Len(u) PROVE i + 1 \in 1..Len(d) /\ u[i] = d[i + 1]
      <4>1. CASE i <= Len(t) - 1
        BY <2>1, <2>4, <2>5, <2>6, <4>1
      <4>2. CASE i > Len(t) - 1
        <5>1. i \in 1..(Len(Tail(t)) + Len(o)) /\ ~(i <= Len(Tail(t))) /\ i - Len(Tail(t)) = (i + 1) - Len(t)
          BY <2>1, <2>5, <2>6, <4>2
        <5>2. i + 1 \in 1..(Len(t) + Len(o)) /\ ~(i + 1 <= Len(t))
          BY <2>1, <2>5, <2>6, <4>2
        <5>3. u[i] = o[i - Len(Tail(t))]
          BY <2>6, <5>1
        <5>4. d[i + 1] = o[(i + 1) - Len(t)]
          BY <2>4, <5>2
        <5>5. QED
          BY <2>4, <5>1, <5>2, <5>3, <5>4
      <4>3. QED
        BY <2>1, <2>5, <2>6, <4>1, <4>2
    <3>2. QED
      BY <3>1
  <2>8. d[1].kind = k /\ 1 \in 1..Len(d) /\ Len(u) = Len(d) - 1 /\ Len(d) \in Nat
    BY <1>1, <2>1, <2>4, <2>5, <2>6
  <2>9. Due(c) = d /\ Due(c)' = u
    BY <1>1 DEF Due, d, u, t, o
  <2>10. IsPublication(h + 1) => k = "PUBLISH_EVIDENCE"
    BY <2>2, <2>8, <2>9 DEF Scripted
  <2>11. Scripted(c)'
    <3>1. handled'[c] + Len(u) = 2 * (published'[c] + 1)
      <4>1. h + Len(d) = 2 * (published[c] + 1)
        BY <2>2, <2>9 DEF Scripted
      <4>2. published[c] \in Nat
        BY LineTyped
      <4>3. published' = published /\ handled'[c] = h + 1
        BY <1>1
      <4>4. QED
        BY <2>1, <2>8, <4>1, <4>2, <4>3
    <3>2. ASSUME NEW i \in 1..Len(u), IsPublication(handled'[c] + i) PROVE u[i].kind = "PUBLISH_EVIDENCE"
      <4>1. i + 1 \in 1..Len(d) /\ u[i] = d[i + 1]
        BY <2>7
      <4>2. handled'[c] + i = h + (i + 1)
        <5>1. handled'[c] = h + 1 /\ i \in Int
          BY <1>1, <2>6
        <5> HIDE DEF h
        <5>2. QED
          BY <2>1, <5>1
      <4>3. QED
        BY <2>2, <2>9, <3>2, <4>1, <4>2 DEF Scripted
    <3>3. QED
      BY <2>9, <3>1, <3>2 DEF Scripted
  <2>12. /\ r \in Seq(AnswerFrames) /\ Len(r) = Len(kinds) + 1 /\ Len(kinds) \in Nat
         /\ \A i \in 1..Len(r) : r[i].to = h + 1 /\ (Ends(r[i]) <=> i = Len(r))
         /\ kinds # <<>> => r[1].kind = kinds[1] /\ 1 < Len(r)
    BY TypeParts, AnswersInDetail DEF Clients
  <2> HIDE DEF r, h, l
  <2>13. Line(c)' = l \o r
    BY <1>1 DEF Line, l, r
  <2>14. Acknowledges(l \o r) /\ UpToFrame(l \o r, h + 1)
    <3>1. IsPublication(h + 1) => 1 < Len(r) /\ r[1].kind = "PUBLISH_ACK"
      BY <2>10, <2>12
    <3>2. QED
      BY <2>1, <2>2, <2>3, <2>12, <3>1, AnswersAcknowledge
  <2>15. HasRead(c, groups[c])'
    BY <1>1, <1>4 DEF OnScript, HasRead
  <2>16. QED
    BY <1>1, <1>2, <1>4, <2>11, <2>13, <2>14, <2>15 DEF OnScript, Publishes, h
<1>5. QED
  BY <1>3, <1>4

LEMMA ReplyingOnScript ==
  ASSUME TypeOK, NEW c \in Processes, OnScript(c), Reply(c) PROVE OnScript(c)'
<1> DEFINE r == reply[c]
           t == toClient[c]
           g == group[c]
           n == Fit(r, t, AnswerRoom)
           p == SubSeq(r, 1, n)
           q == SubSeq(r, n + 1, Len(r))
<1>1. r \in Seq(AnswerFrames) /\ t \in Seq(AnswerFrames) /\ g \in Seq(AnswerFrames) /\ c \in Clients /\ Len(r) \in Nat
  BY LineTyped, LenProperties
<1>2. /\ UNCHANGED <<stage, outbox, published, group, groups, acknowledged, toServer, session, handled>>
      /\ stage[c] # "new"
  BY DEF Reply, clientVars, OnScript, Unused
<1>3. CASE Gone(c)
  BY <1>2, <1>3 DEF OnScript, Publishes, Gone
<1>4. CASE n > 0 /\ toClient'[c] = t \o p /\ reply'[c] = q
  <2>1. n \in Nat \ {0} /\ n <= Len(r)
    BY <1>1, <1>4, SessionAssumption, FitIsPart
  <2> HIDE DEF n, r, t, g
  <2>2. p \in Seq(AnswerFrames) /\ q \in Seq(AnswerFrames)
    BY <1>1, <2>1, PartIsSeq
  <2>3. p \o q = r
    <3>1. 1 \in 1..(Len(r) + 1) /\ n \in (1 - 1)..Len(r) /\ Len(r) \in n..Len(r)
      BY <1>1, <2>1
    <3>2. p \o q = SubSeq(r, 1, Len(r))
      BY <1>1, <3>1, ConcatAdjacentSubSeq
    <3>3. QED
      BY <1>1, <3>2, SubSeqFull
  <2> HIDE DEF p, q
  <2>4. \A x, y, z \in Seq(AnswerFrames) : (x \o y) \o z = x \o (y \o z)
    BY ConcatAssociative
  <2>5. g \o (t \o p) = (g \o t) \o p
    BY <1>1, <2>2, <2>4, Zenon
  <2>6. g \o t \in Seq(AnswerFrames)
    BY <1>1, ConcatProperties
  <2>7. ((g \o t) \o p) \o q = (g \o t) \o (p \o q)
    BY <2>2, <2>4, <2>6, Zenon
  <2>8. Line(c)' = (g \o (t \o p)) \o q
    BY <1>2, <1>4 DEF Line, g
  <2>9. Line(c) = (g \o t) \o r
    BY DEF Line, g, t, r
  <2>10. Line(c)' = Line(c)
    BY <2>3, <2>5, <2>7, <2>8, <2>9
  <2>11. Due(c)' = Due(c)
    BY <1>2 DEF Due
  <2>12. QED
    BY <1>2, <2>10, <2>11 DEF OnScript, Publishes, Scripted, HasRead
<1>5. QED
  BY <1>1, <1>3, <1>4 DEF Reply, TypeOK

LEMMA ClosingOnScript ==
  ASSUME TypeOK, NEW c \in Processes, OnScript(c),
         Close(c), session[c] # "none", UNCHANGED <<clientVars, toClient>>
  PROVE  OnScript(c)'
<1> DEFINE l == group[c] \o toClient[c]
<1>1. session'[c] = "closed" /\ reply'[c] = <<>> /\ c \in Clients
      /\ UNCHANGED <<stage, published, group, groups, acknowledged, toClient>>
  BY LineTyped DEF Close, clientVars, TypeOK
<1>2. stage[c] # "new"
  BY DEF OnScript, Unused
<1>3. l \in Seq(AnswerFrames) /\ reply[c] \in Seq(AnswerFrames)
  BY LineTyped
<1>4. Line(c)' = l
  <2>1. l \o <<>> = l
    BY <1>3, ConcatEmptySeq
  <2>2. QED
    BY <1>1, <2>1 DEF Line
<1>5. Publishes(c) => Acknowledges(l)
  BY <1>3, PrefixAcknowledges DEF OnScript, Line
<1> HIDE DEF l
<1>6. QED
  BY <1>1, <1>2, <1>4, <1>5 DEF OnScript, Publishes, HasRead

LEMMA SessionOnScript ==
  ASSUME TypeOK, NEW c \in Processes, OnScript(c), SessionStep(c) PROVE OnScript(c)'
<1>1. CASE ServeHello(c)
  <2>1. PICK accepted \in BOOLEAN : Answers(c, <<"HELLO_ACK">>, accepted)
    BY <1>1 DEF ServeHello
  <2>2. <<"HELLO_ACK">> \in Seq(AnswerKinds \ {"RESPONSE_END"})
    BY DEF AnswerKinds
  <2>3. Taking(c, "HELLO") /\ session'[c] # "closed" /\ "HELLO" # "PUBLISH_EVIDENCE"
    BY <1>1 DEF ServeHello, Taking, CanTake
  <2>4. QED
    BY <2>1, <2>2, <2>3, AnsweringOnScript
<1>2. CASE ServePublication(c)
  <2>1. \/ \E kinds \in {<<"PUBLISH_ACK", "EVALUATE_RESPONSE">>, <<"PUBLISH_ACK">>} : Answers(c, kinds, TRUE)
        \/ \E a \in {FALSE, Admitted(c) /\ Repeats(c, Head(toServer[c]).n)} : Answers(c, <<"PUBLISH_ACK">>, a)
    BY <1>2 DEF ServePublication
  <2>2. \A kinds \in {<<"PUBLISH_ACK", "EVALUATE_RESPONSE">>, <<"PUBLISH_ACK">>} :
          kinds \in Seq(AnswerKinds \ {"RESPONSE_END"}) /\ kinds # <<>> /\ kinds[1] = "PUBLISH_ACK"
    <3>1. <<"PUBLISH_ACK">> \in Seq(AnswerKinds \ {"RESPONSE_END"})
          /\ <<"PUBLISH_ACK", "EVALUATE_RESPONSE">> \in Seq(AnswerKinds \ {"RESPONSE_END"})
      BY DEF AnswerKinds
    <3>2. <<"PUBLISH_ACK">> # <<>> /\ <<"PUBLISH_ACK">>[1] = "PUBLISH_ACK"
          /\ <<"PUBLISH_ACK", "EVALUATE_RESPONSE">> # <<>> /\ <<"PUBLISH_ACK", "EVALUATE_RESPONSE">>[1] = "PUBLISH_ACK"
      OBVIOUS
    <3>3. QED
      BY <3>1, <3>2, Zenon
  <2>3. Taking(c, "PUBLISH_EVIDENCE") /\ session'[c] # "closed"
    BY <1>2 DEF ServePublication, Taking, CanTake
  <2>4. \A a \in {FALSE, Admitted(c) /\ Repeats(c, Head(toServer[c]).n)} : a \in BOOLEAN
    BY DEF Admitted, Repeats
  <2>5. QED
    BY <2>1, <2>2, <2>3, <2>4, AnsweringOnScript
<1>3. CASE ServeQuery(c)
  <2>1. PICK accepted \in BOOLEAN : Answers(c, <<"QUERY_RESPONSE">>, accepted)
    BY <1>3 DEF ServeQuery
  <2>2. <<"QUERY_RESPONSE">> \in Seq(AnswerKinds \ {"RESPONSE_END"})
    BY DEF AnswerKinds
  <2>3. Taking(c, "QUERY_REQUEST") /\ session'[c] # "closed" /\ "QUERY_REQUEST" # "PUBLISH_EVIDENCE"
    BY <1>3, LineTyped DEF ServeQuery, Taking, CanTake, TypeOK
  <2>4. QED
    BY <2>1, <2>2, <2>3, AnsweringOnScript
<1>4. CASE ServeOther(c)
  <2>1. PICK k \in DOMAIN AnswerTo, accepted \in BOOLEAN :
          Taking(c, k) /\ Answers(c, <<AnswerTo[k]>>, accepted)
    BY <1>4, VerdictsAreBoolean, Zenon DEF ServeOther
  <2>2. AnswerTo[k] \in AnswerKinds \ {"RESPONSE_END"} /\ k # "PUBLISH_EVIDENCE"
    BY DEF AnswerTo, AnswerKinds
  <2>3. <<AnswerTo[k]>> \in Seq(AnswerKinds \ {"RESPONSE_END"})
    BY <2>2
  <2>4. session'[c] # "closed"
    BY <1>4, <2>1 DEF ServeOther, Taking, CanTake
  <2>5. QED
    BY <2>1, <2>2, <2>3, <2>4, AnsweringOnScript
<1>5. CASE ServeDisconnect(c) \/ RaiseFlag(c) \/ EndSession(c)
  <2>1. Close(c) /\ session[c] # "none" /\ UNCHANGED <<clientVars, toClient>>
    BY <1>5 DEF ServeDisconnect, CanTake, RaiseFlag, EndSession
  <2>2. QED
    BY <2>1, ClosingOnScript
<1>6. CASE Reply(c)
  BY <1>6, ReplyingOnScript
<1>7. QED
  BY <1>1, <1>2, <1>3, <1>4, <1>5, <1>6 DEF SessionStep

LEMMA StepKeepsScripts == ASSUME TypeOK, InStep, OnScripts, [Next]_vars PROVE OnScripts'
<1>1. ASSUME NEW c \in Clients,
             (c \in Processes /\ StartWorker(c)) \/ (c \in Drivers /\ Connects(c))
               \/ ClientStep(c) \/ SessionStep(c) \/ Exit(c)
      PROVE  OnScripts'
  <2>1. ASSUME c \in Processes PROVE OnScript(c)'
    <3>1. OnScript(c) /\ InStepOf(c) /\ c \notin Drivers
      BY <2>1, SessionAssumption DEF OnScripts, InStep
    <3>2. CASE StartWorker(c)
      BY <2>1, <3>1, <3>2, StartingOnScript
    <3>3. CASE Put(c) \/ Get(c) \/ ReadGroup(c)
      BY <2>1, <3>1, <3>3, PuttingOnScript, GettingOnScript, ReadingOnScript
    <3>4. CASE Exit(c)
      BY <2>1, <3>4, LeavingOnScript DEF Exit
    <3>5. CASE SessionStep(c)
      BY <2>1, <3>1, <3>5, SessionOnScript
    <3>6. QED
      BY <1>1, <3>1, <3>2, <3>3, <3>4, <3>5 DEF ClientStep, Break
  <2>2. ASSUME NEW d \in Processes, d # c PROVE OnScript(d)'
    <3>1. StartWorker(c) => Connects(c)
      BY DEF StartWorker, Connects, Stages
    <3>2. QED
      BY <1>1, <2>2, <3>1, OthersOnScript DEF OnScripts
  <2>3. QED
    BY <2>1, <2>2 DEF OnScripts
<1>2. ASSUME NEW c \in Drivers, NEW k, NEW v, StartDriver(c, k, v) PROVE Connects(c)
  <2>1. (IF k = "QUERY_REQUEST" /\ v = "shutdown" THEN "telling" ELSE "asking")
          \in Stages \ {"new", "left", "ready"}
    BY DEF Stages
  <2>2. QED
    BY <1>2, <2>1 DEF StartDriver, Connects
<1>3. CASE UNCHANGED vars
  <2>1. \A c \in Processes : Whole(c)' = Whole(c)
    BY <1>3 DEF vars, clientVars, sessionVars, Conversation, Whole
  <2>2. QED
    BY <2>1, UntouchedOnScript DEF OnScripts
<1>4. QED
  BY <1>1, <1>2, <1>3 DEF Next, Clients

LEMMA AlwaysOnScript == Spec => [](TypeOK /\ InStep /\ OnScripts)
<1>1. Init => OnScripts
  <2> SUFFICES ASSUME Init, NEW c \in Processes PROVE OnScript(c)
    BY DEF OnScripts
  <2>1. c \in Clients
    BY DEF Clients
  <2>2. QED
    BY <2>1 DEF Init, OnScript, Unused, Publishes
<1>2. QED
  BY <1>1, AlwaysInStep, StepKeepsScripts, TypeCorrect, PTL DEF Spec

\* The steps of a process that becomes ready.
LEMMA ReadyOnScript ==
  ASSUME TypeOK, InStep, OnScripts, ReadyHasHalf, [Next]_vars PROVE ReadyHasHalf'
<1>1. ASSUME NEW c \in Processes PROVE acknowledged[c] \subseteq acknowledged'[c]
  <2>1. c \in Clients
    BY DEF Clients
  <2>2. ASSUME NEW d \in Clients, ReadGroup(d) PROVE acknowledged[c] \subseteq acknowledged'[c]
    BY <2>1, <2>2 DEF ReadGroup, TypeOK
  <2>3. ASSUME ~ \E d \in Clients : ReadGroup(d) PROVE acknowledged' = acknowledged
    <3>1. ASSUME NEW d \in Clients, Put(d) \/ Get(d) \/ Break(d) \/ Exit(d) PROVE acknowledged' = acknowledged
      BY <3>1 DEF Put, Get, Break, Exit
    <3>2. ASSUME NEW d \in Clients, SessionStep(d) PROVE acknowledged' = acknowledged
      BY <3>2 DEF SessionStep, ServeHello, ServePublication, ServeQuery, ServeOther, ServeDisconnect, Taking,
                  Reply, RaiseFlag, EndSession, clientVars
    <3>3. ASSUME NEW d, NEW s, NEW r, Connect(d, s, r) PROVE acknowledged' = acknowledged
      BY <3>3 DEF Connect
    <3>4. QED
      BY <2>3, <3>1, <3>2, <3>3 DEF Next, ClientStep, StartWorker, StartDriver, Clients, vars, clientVars
  <2>4. QED
    BY <2>2, <2>3
<1>2. ASSUME NEW c \in readyFile', c \notin readyFile
      PROVE  /\ c \in Processes /\ ReadGroup(c) /\ NextObservation(c) /\ published[c] = Rounds[c]
             /\ groups'[c] = groups[c] + 1
  <2>1. ASSUME NEW d \in Clients, ReadGroup(d) PROVE d = c /\ NextObservation(d)
    BY <1>2, <2>1 DEF ReadGroup, NextObservation
  <2>2. ASSUME ~ \E d \in Clients : ReadGroup(d) PROVE readyFile' = readyFile
    <3>1. ASSUME NEW d \in Clients, Put(d) \/ Get(d) \/ Break(d) \/ Exit(d) PROVE readyFile' = readyFile
      BY <3>1 DEF Put, Get, Break, Exit
    <3>2. ASSUME NEW d \in Clients, SessionStep(d) PROVE readyFile' = readyFile
      BY <3>2 DEF SessionStep, ServeHello, ServePublication, ServeQuery, ServeOther, ServeDisconnect, Taking,
                  Reply, RaiseFlag, EndSession, clientVars
    <3>3. ASSUME NEW d, NEW s, NEW r, Connect(d, s, r) PROVE readyFile' = readyFile
      BY <3>3 DEF Connect
    <3>4. QED
      BY <2>2, <3>1, <3>2, <3>3 DEF Next, ClientStep, StartWorker, StartDriver, Clients, vars, clientVars
  <2>3. PICK d \in Clients : ReadGroup(d)
    BY <1>2, <2>2
  <2>4. d = c /\ NextObservation(c) /\ ReadGroup(c) /\ c \in Clients
    BY <2>1, <2>3
  <2>5. published[c] = Rounds[c]
    BY <1>2, <2>4 DEF NextObservation
  <2>6. c \notin Drivers /\ groups'[c] = groups[c] + 1
    <3>1. ~(c \in Drivers \/ (stage[c] = "hello" /\ \E f \in Frames(group[c] \o SubSeq(toClient[c], 1, FirstEnd(c) - 1)) :
                                                      f.kind = "HELLO_ACK" /\ ~f.accepted))
      BY <1>2, <2>4 DEF ReadGroup
    <3>2. QED
      BY <2>4, <3>1 DEF ReadGroup, TypeOK
  <2>7. QED
    BY <2>4, <2>5, <2>6 DEF Clients
<1>3. ASSUME NEW c \in readyFile', NEW k \in 1..Rounds[c], 2 * k <= Rounds[c]
      PROVE  PublicationFrame(k) \in acknowledged'[c]
  <2>1. CASE c \in readyFile
    <3>1. c \in Processes
      BY <2>1 DEF TypeOK
    <3>2. QED
      BY <1>1, <1>3, <2>1, <3>1 DEF ReadyHasHalf
  <2>2. CASE c \notin readyFile
    <3>1. c \in Processes /\ ReadGroup(c) /\ published[c] = Rounds[c]
      BY <1>2, <2>2
    <3>2. OnScript(c) /\ InStepOf(c) /\ Rounds[c] \in Nat /\ groups[c] \in Nat
      BY <3>1, LineTyped, SessionAssumption DEF OnScripts, InStep, Clients
    <3>3. Publishes(c)
      BY <3>1, <3>2 DEF ReadGroup, Reading, Engaged, Publishes, OnScript
    <3>4. groups[c] = Rounds[c] /\ HasRead(c, groups[c])
      BY <3>1, <3>2, <3>3 DEF OnScript
    <3>5. k \in Nat \ {0} /\ PublicationFrame(k) <= groups[c] + 1
      BY <1>3, <3>2, <3>4 DEF PublicationFrame
    <3>6. acknowledged[c] \subseteq acknowledged'[c] /\ (IsPublication(groups[c] + 1) => groups[c] + 1 \in acknowledged'[c])
      BY <3>1, <3>2, GroupAcknowledges
    <3>7. CASE PublicationFrame(k) <= groups[c]
      BY <3>4, <3>5, <3>6, <3>7 DEF HasRead
    <3>8. CASE PublicationFrame(k) = groups[c] + 1
      <4>1. IsPublication(groups[c] + 1)
        BY <3>2, <3>5, <3>8 DEF IsPublication, PublicationFrame
      <4>2. QED
        BY <3>6, <3>8, <4>1
    <3>9. QED
      BY <3>2, <3>5, <3>7, <3>8 DEF PublicationFrame
  <2>3. QED
    BY <2>1, <2>2
<1>4. QED
  BY <1>3 DEF ReadyHasHalf

\* A process that has written its ready file has read the outcome of the first half of
\* its observations, for any number of rounds and any room in the buffers: each request
\* is answered with two groups, of which the process has read one.
THEOREM ReadyHasReadHalf == Spec => []ReadyHasHalf
<1>1. Init => ReadyHasHalf
  BY DEF Init, ReadyHasHalf
<1>2. QED
  BY <1>1, AlwaysOnScript, ReadyOnScript, PTL DEF Spec
================================================================================
