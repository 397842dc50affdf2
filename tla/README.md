# Thermal Governor in TLA+

TLA+ models of the Thermal Governor coordinator, their model-checking runs and their proofs. Every definition
is translated from the C++ sources; `PROJECT.json` maps each one to its file and lines.

1. The system
2. Modules and how they correspond to the code
3. Runs, bounds and fairness
4. Proofs
5. Where code and documents part
6. What is left out, and why
7. Plan

## 1. The system

A coordinator process (`tools/tg_coordinator.cpp`) owns one `ThermalGovernor` (`src/governance.cpp`). Workers
(`tools/tg_worker.cpp`) publish temperatures of devices; clients ask for evaluations, admissions and mitigation
actions. Every mutation is a critical section of one mutex, `state_mutex`; saving, sending and joining happen
outside it.

| component | state | operations | interacts with |
| --- | --- | --- | --- |
| mitigation actions (`governance.cpp`, `action.cpp`, `verification.cpp`) | actions with their bound generations, lifecycle, baselines, verification records | authorize, dispatch, ack, result, verify, cancel, shutdown | reads every generation below, the evidence and the worker's boot |
| worker incarnations (`governance.cpp`) | boot and liveness of each worker | register, heartbeat, death | retires evidence, samples and actions of a boot |
| evidence (`evidence.cpp`, `publish_impl`) | newest reading per subject, invalidated set, sequence numbers | publish | feeds evaluation, recovery and verification |
| configuration (`domain.cpp`, `coupling.cpp`, `policy.cpp`) | devices, domains, policies, couplings, capabilities and their generations | register, update, set, remove | recomputes the evaluations |
| thermal evaluation (`evaluation.cpp`, `headroom.cpp`, `throttle.cpp`, `decision.cpp`) | none: a function of an input | `evaluate_thermal`, `evaluate_admission` | called by every recomputation and admission |
| recovery (`recovery.cpp`) | sample history of each domain | push, `evaluate_recovery` | ends restrictions |
| stored evaluations (`governance.cpp`) | last evaluation of each domain | recompute one, the affected ones, all | input of the next evaluation and of the neighbours' |
| durable store (`persistence.cpp`) | one file, scratch files, a gate per path | save, load | called by `persist` and at start-up |
| coordinator restart (`load_durable`) | epoch, restored configuration and actions | load | turns what was live into `OUTCOME_UNKNOWN` |
| sessions (`tg_coordinator.cpp`, `transport.cpp`) | accept loop, session threads, registry, stop flag, socket runtime's reference count | accept, receive, answer, interrupt, join | use the governor from many threads |
| conversation (`tg_coordinator.cpp`, `tg_worker.cpp`, `tg_cli.cpp`, `session.cpp`) | what each end has yet to send, what the socket buffers hold, where a worker stands in its script | handshake, publish, ask, tell, answer, ready file, hold loop | workers and command line clients with the sessions |
| framing (`protocol.cpp`, `transport.cpp`) | one frame under way in each direction | send, receive, judge | under every message |
| payload codec (`wire.cpp`, `binary.hpp`) | none | encode, decode nine payloads | between sessions and clients |
| durable encoding (`persistence.cpp`, `binary.hpp`) | none | encode and decode the container and its records | between the governor and the store |
| snapshots and history (`governance.cpp`) | the published snapshot, the last transitions of state | build, swap, record, trim | every mutation publishes; readers and the bump commands read |
| explanation, formatting (`explanation.cpp`, `format.cpp`) | none | evaluate, query, render | clients |
| backends (`nvml_backend.cpp`, `cuda_workload.cpp`) | vendor handles | read, load the device | the worker |

What is hard here, component by component:

* **Actions.** `verify_action` is two critical sections, and so is `shutdown`; reports, cancellation, worker death
  and policy changes come between them in any order. An action is live under authority that can be superseded at
  any moment. Correct means: one verdict, from a real dispatch, by the incarnation it was given to, and a terminal
  position that stays.
* **Incarnations and evidence.** Messages of an earlier boot arrive late; a heartbeat revives a worker that was
  declared dead. Correct means: nothing of a retired boot is trusted or stays live.
* **Evaluation.** Hysteresis depends on what was stored, on a bounded history of samples that arrive delayed and
  from several boots, and on neighbours that are recomputed in a fixed order. Correct means: a restriction ends only
  on an earned recovery and never loosens meanwhile; pressure is felt; calm domains do recover.
* **Durability.** Captures are taken under the lock and written without it; several sessions save at once; saves
  fail half way; the process ends anywhere. Correct means: the file is always one whole state that loads, an answer
  follows its flush, and authority does not survive a restart.
* **Sessions.** A session may register while main is interrupting the registered ones; two clients may ask for
  shutdown; clients fall silent. Correct means: no dead socket in the registry, nothing freed under its users, and
  the process ends.
* **Conversation.** A client sends a request and a `RESPONSE_END` and reads one group, while the coordinator answers both
  frames with a group each, so a worker's reading lags behind its sending; the buffers are finite and either end may
  block in a send; a worker is killed and started again under the next boot while frames of the old one are still
  buffered. Correct means: answers keep step with requests, a late frame undoes nothing, and nobody waits for ever. The last is true of
  scripts whose unread answers fit the buffers and of no longer one: section 5.
* **Framing.** Bytes arrive in pieces cut anywhere, are changed, or stop in the middle of a frame. Correct means: what is delivered
  is what was sent, in order, and a failure has a cause.
* **Snapshots and history.** Tables change one domain at a time while readers look at a copy of an earlier moment; some commands read that copy,
  and change the governor later; the history is bounded, saved and continued after a restart. Correct means: a copy is of one moment and never older
  than the one before it, nothing of another client is undone, and the history has no gap and tells the state.
* **Encodings.** Two hand-written functions for each payload and record have to agree field by field, with limits
  and enumeration bounds in one of them only. Correct means: what is written is read back as it was or refused by a limit, and what
  was damaged is refused or still a well-formed value.

## 2. Modules and how they correspond to the code

`ActionLifecycle` names the lifecycle positions and the classification at shutdown. `ActionContract` is the
abstract specification of actions: positions, and whether an instruction was sent.

`MitigationActions` is the runtime's side of actions. One TLA+ action is one critical section: `Authorize`,
`Dispatch`, `Ack`, `Result`, `Cancel`, `RegisterWorker`, `Heartbeat`, `NoteWorkerDeath`, `SetPolicy`,
`RegisterDevice`, `PublishCapabilities`, `UpdateDomain`, `ChangeCoupling`, `Publish`; and two each for verification
(`BeginVerify`, then `Commit` or `RefuseCommit`, with the call's arguments kept in `calls` in between) and for
shutdown (`BeginShutdown`, `FinishShutdown`). What an action was authorised under is the record `authority`; `Revalidated`
is `revalidate_action_authority`. Each domain has one member device, and a subject is a device of the same name; the
thermal content of readings is a free choice here. `ActionContract` is instantiated on `lifecycle` and on the actions
that have been dispatched. The contract has no edge out of a terminal position, as `action.hpp:65` promises; `KeepsContract` says that every step of the
runtime is one of the contract, but for those of `OutcomeOverruled`, the late results of section 5 that supersede a terminal action.

`ThermalEvaluation` is the pure part: bands, headroom, throttle, coupling pressure, hysteresis, the derating clamp,
the decision, recovery evidence and admission, as operators on an input record. Temperatures and times are integers.

`DomainEvaluation` extends it with state: readings, invalidated readings, sample histories, capabilities, couplings,
explicit authorisations and the stored evaluation of each domain. `Gathered` is `gather_domain_evidence` under
`HOTTEST_MEMBER_GOVERNS`, `Recomputed` the loop of `recompute_all_domains` and of the affected and neighbouring
domains of a publication: a recursive function over domain identifiers, because each evaluation reads what the ones
before it stored. Time is relative: `Tick` ages readings and samples up to `AgeCap`; a reading of age `AgeCap` is stale and
a sample of that age satisfies every span, so a larger age could not be told from it.

`AtomicFile` is the abstract store: saves are begun, replace the file or fail, in one step each. `DurableStore` is
`DurableStore::save`: gate, scratch file, write and flush, replacement, return, with a failure possible at each stage
and `StoreCrash` for the end of the process. `CoordinatorRestart` composes it with client threads that change
configuration, authorise, persist or shut down (`tg_coordinator.cpp`, `handle` and `persist_now`: change, `Capture`,
save, `Answer`), with worker reports and with crash and start (`load_durable`). Ghost variables record the run
(`run`), what has been served, reports sent, what the file has held (`flushed`) and what each answer promises.
`StoreIsAtomic` instantiates `AtomicFile` on it.

`SessionServer` is `main` of the coordinator after start-up: `Poll`, `PollAgain`, `AcceptFails`, `Accept`, `Refuse` are
`accept_one` and the loop around it; `Register` ... `End` a session's thread from the registry entry to the destruction
of its socket; `Stop`, `Interrupt`, `Join`, `CloseListener`, `Return` the end of `main`. `users` is `g_socket_users`.
What a request does to the governor is the other modules' business; here it is a use of it.

`WorkerSession` is the conversation those threads have with their clients. A process of `tg_worker` goes through `StartWorker`,
`Put` (`send_frame`), `Get` and `ReadGroup` (`read_group` and what its caller does with the group), `NextObservation` (the publish
loop, then the ready file and the hold loop); a driver is `tg_cli`. `toServer` and `toClient` are the two directions of a
connection, bounded by `RequestRoom` and `AnswerRoom`, which stand for the socket buffers: a sender that finds no room waits, as `send_all` does. Each
`Serve...` action is one branch of the session's dispatch, from the frame taken to the answers formed; `Reply` sends them. The `RESPONSE_END` of a
request is a frame of its own to the session, which answers it with `ERROR_RESPONSE` and another `RESPONSE_END`. Of the governor only the registry
and the last reading of each worker's device are kept. An answer carries, for the properties only, the number of the frame it answers.

`MessageChannel` is the abstract channel: messages are sent, received in order, or the receiver fails. `FramedTransport` is `send_frame`
and `recv_frame` byte by byte: header, payload and checksum, pieces of any of the sizes in `Pieces`, a byte changed on the way, a sender that leaves,
the receiver's judgement after the header and after the frame. `Channel` instantiates `MessageChannel` on it, and `FramesArriveAsSent`
says that it is implemented: pieces, damage and death do not show in what `recv_frame` returns, save as a failure.

`Bytes` is what framing and encodings share: integers are digits in base 256, least significant first (`Digits`, `Size`; a length from 2^30 on is
kept as `Beyond`, above every limit), and in place of CRC-32C a checksum holds, for each of the eight bits, whether it is set in an odd number of bytes. Like CRC-32C
it tells any one changed byte from the original; nothing here needs more.

`BinaryCodec` is `BinaryWriter` and `BinaryReader`: a layout is a sequence of fields, `Encoded` writes a value of it and `Decoded` reads one, with a
failure that latches, a position, limits, and the check that the input is exhausted. The code nests its layouts in three tiers, and so does the module: plain
fields (numbers, enumerators, flags, strings), plain fields that may be absent, and parts made of these, absent or present or in a list. A loop over fields or
items is a function of the number of rounds gone through. `IsValue` says which values a reader admits. `WirePayloads` has the two layouts of each payload, as the encoder writes it and as the decoder reads it, so that a field they
disagree about is a difference between two definitions; `DurableContainer` the same for each kind of durable record, and around them the
container: header, magic, version, length, records with their own checksums, order and uniqueness of identifiers. `Encodings` (`EInit`, `ENext`, `ESpec`) writes one value,
lets it be changed, cut or extended in one place, and reads it. What is written is a parameter: `Messages` for each payload, `States`, and containers
`HandWritten` by something else; `EncodingsAssumption` asks that messages are within their readers' limits (an encoder checks none, so a longer string is sent and refused) and that states are
`Storable`: their records are within their readers' limits, no two policies, devices, domains, couplings or actions have one identity (the governor keeps them in maps), and a file within its limit holds
no more records than a container may declare (by default 64 MiB and 2,000,000, `persistence.hpp`, and the shortest record, a coupling's, takes 60 bytes).

`SnapshotsAndHistory` is what readers see. A mutation is taken apart here: a command changes the configuration as it takes `stateLock`, `Recompute`
stores one domain's evaluation and `Records` its transition, `Build` copies the tables, `Swap` replaces `published` and gives the lock back. Readers
of the snapshot take another mutex, so `CopyDomain` and `CopyDevice` (the first half of the bump commands) come between any two of these steps, and
`BumpDomain` and `BumpDevice` later. `Explain...` are the critical sections of `explain`. `Capture`, `Save`, `Crash` and `Start` carry the history over
a restart. What an evaluation finds is a free choice of `Verdicts`; the policy and the definition it was made under (`policy`, `generation`) are kept
with it. A derating goes with its state; workers, actions, capabilities and their publications do not occur.

Definitions whose comment begins with "Mutation" are plausible bugs of a definition that follows them. Each is what
shows that one property can fail: TLC finds the property violated when it takes the place of the definition.

`MCMitigationActions`, `MCDomainEvaluation`, `MCCoordinatorRestart`, `MCSessionServer`, `MCWorkerSession`, `MCFramedTransport`,
`MCEncodings` and `MCSnapshotsAndHistory` give constants their values; `MitigationActionsProofs`, `DomainEvaluationProofs` (which has those
of `ThermalEvaluation` too), `CoordinatorRestartProofs`, `SessionServerProofs`, `WorkerSessionProofs`, `FramedTransportProofs`, `EncodingsProofs` and
`SnapshotsAndHistoryProofs` hold the theorems.

## 3. Runs, bounds and fairness

| run | question | bounds | size |
| --- | --- | --- | --- |
| `ActionLifecycle` | do verdicts, cancellations and terminal positions stay honest under concurrent verification and shutdown, is the contract kept, is everything trusted and live of the registered boot, and does the domain fence cover its members? | one action, two workers of two boots, two callers of `verify_action`, two values of every generation, sequence number and time, a policy of the domain's own that is absent at first; `Explored` | 439 thousand states |
| `ThermalHysteresis` | is a restriction left by earned recovery only, and is admission safe? | one device, temperatures in four bands, throttles, two boots, a history of three for a run of two | 465 thousand |
| `CoupledDomains` | does pressure arrive, does mutual restriction hold, do calm domains recover? | two domains that share a device, both edges, hot and cool | 35 thousand |
| `CoordinatorRestart` | is the file atomic, self-contained and never behind an answer, is authority of this run, are commands answered? | two threads, two domains of two generations, an edge, a parent, one action, two runs, three commands | 712 thousand |
| `SessionServer` | are registry, reference count and the end of `main` right, and does the process end? | three connections against a limit of two | 47 thousand |
| `WorkerSession` | do answers keep step with requests, does a late frame undo nothing, which workers become ready or leave, and how do the others stop? | two incarnations of one worker that publish twice and once, one driver, room for one request and four answers | 525 thousand |
| `FramedTransport` | does what is sent arrive as it was, is every failure caused, does a receiver never wait for what cannot come? | three choices of two frames, pieces of 3 and 64 bytes, one changed byte (two values), payloads up to 1 byte, two versions | 69 thousand |
| `Encodings` | is what is written read back, is what is damaged refused or harmless, does the file refer to nothing twice? | nine payloads in three fillings, five durable states, hand-written containers, one byte changed, cut or added anywhere | 42 thousand |
| `SnapshotsAndHistory` | is what a reader sees coherent, current and never older, does a bump undo nothing, and is the history whole, chained and true, over restarts too? | two threads, two domains and a device of two generations, an edge, three verdicts, a history of two, three transitions before the last command, five structural changes, two runs; `Explored` | 1.6 million |
| `HysteresisBypass`, `OlderSnapshot`, `EpochReused` | does the code keep a sentence of its documents? (section 5) | smallest that shows it | violations |

Why the bounds are enough. A fence compares two values for equality or order, so two values of each generation give
every outcome, and two boots give an old and a current incarnation. Two callers inside `verify_action` are what a race
between verifications needs. Four temperatures put a device in the normal, warm, derated and critical bands; a history of three
samples for a required run of two lets one sample leave and one interrupt. Two saves at once are what the gate
orders, two runs are what a restart separates (`EpochReused` needs a third). A third connection meets the limit, and two sessions can both
ask for shutdown while a third registers or is refused. Two incarnations are an old and a new one with both their frames buffered;
two publications make the lag of one group per request visible. With room for one request and four answers either end blocks in its sends, two groups fit beside one
another unless one of them carries a summary, and the two processes are on the two sides of the premise of `ProcessesSettle`: the one that publishes once always becomes ready or
leaves, the one that publishes twice may also end with both ends in a send. (Real buffers hold many frames and scripts are as much longer; `Outgrown` relates the two.
For one process and all of six request rooms, seven answer rooms and six script lengths TLC reaches `Jammed` exactly where `Outgrown` says so, so the premise is as weak as it can be.) Pieces of three bytes cut every field of a frame and
pieces of 64 hold a frame and the beginning of the next. A layout is filled bare (nothing optional, empty lists), in part, and in full (everything optional, lists of two, the last
enumerator of each enumeration); limits are scaled down (strings of 2, lists of 1 or 2, a file of
1120 bytes) so that a value just beyond each one exists. A command that begins with two transitions recorded may add one or two for each domain, so a history of two is trimmed. `MaxActions`, `MaxBoot`, `MaxSequence`, `MaxTime`, `MaxTopology`,
`MaxRuns`, `MaxCommands` and the generation bounds only cut behaviours off; `MaxConnections`, `MaxWorkers`, `MaxVerifications` and
the history's capacity are limits of the code itself. Symmetry (`MCSymmetry`) is used in the runs without liveness only.

Two runs leave a product out and explore the union of two parts of their state space (`CONSTRAINT Explored`). In
`MCMitigationActions` the parts are `OneIncarnation`, the whole life of an action with clock, policy or shutdown, duplicates and two threads inside
`verify_action`, under the first boot of one worker and one configuration; and `OneMoment`, every order of registrations, deaths, readings, re-registrations of
the device and updates of the domain and its couplings around the action, at one time, without verification. Verification looks at the incarnation only through
the evidence it admits, and the fences of incarnations do not look at the clock, so a violation of one of the properties by both together
would need a coupling between them that the code does not have; the theorems of section 4 hold of the product too. In `MCSnapshotsAndHistory` they are `ManyReaders`,
two threads and the whole configuration in one process whose saves fail and whose evaluations agree; and `OneWriter`, one command at a
time with every verdict, crashes, saves and loads, without device and coupling.

Fairness, where a liveness property is checked:

* `DomainEvaluation`: the clock advances and each device is read again and again (`tg_worker` publishes in a loop). A worker that dies for
  good is excluded by the property's antecedent, which asks for live workers.
* `CoordinatorRestart`: each thread's save, each answer and the start-up go on. The gate is a `std::mutex`, which is
  not fair, but every thread that may pass another at it has finitely many commands left. Nothing makes a client
  send a command or a process crash.
* `SessionServer`: main's thread and each session's thread are scheduled. Receiving and sending are not assumed to go on: they wait for
  the client, who owes nothing.
* `WorkerSession`: some client or session thread that can go on does; every behaviour is finite, so nobody is passed over for ever. Nobody has to
  start a client, and nothing has to be killed.
* `FramedTransport`: each end's thread runs on while it can. The sender need not begin a frame, leave, or change a byte.

Deadlock is checked except in `CoordinatorRestart`, `OlderSnapshot` and `EpochReused`, where runs and commands are
bounded and the process may stay down, in `SessionServer` and `WorkerSession`, where the process ends or all clients have
settled, in `FramedTransport` and `Encodings`, which end when everything has been received or read, and in
`SnapshotsAndHistory`, where no command begins any more when a bound is reached.

## 4. Proofs

All theorems hold for every value of the constants under the named assumptions of the modules (`NamesAssumption`,
`BoundsAssumption` and so on: bounds are natural numbers, sets are as declared, `Connections` is finite, what is encoded is a value of its layout).

**Mitigation actions** (`MitigationActionsProofs`). `TypeCorrect` first, conjunct by conjunct. `ImplementsContract`
needs types only: each critical section moves one action along an edge of the contract, abandons a set, stops all, or is a result that overrules an outcome (`OutcomeOverruled`);
`TerminalKept`, that no other step leaves a terminal position, follows from the same steps.
`VerifiedAtMostOnce` and `CancellationIsHonest` are not inductive: a verdict alone does not say why no second one
can follow, nor a cancelled position how it was reached. `History` adds that positions are honest (`Honest` in
`ActionContract`: a position says whether an instruction was sent) and that the action of every verification record
is terminal and was dispatched. `EvidenceIsCurrent` and `ActionsDieWithTheirBoot` need `Incarnations`: what names a worker
names a boot it has registered, so that a first registration cannot make anything current. `MembersFenced` needs
`DomainFence`: no action is bound to a domain generation that still lies ahead. `ShutdownEndsVerification` needs
`PendingIsOld`: once the runtime has stopped, no pending call's reading is later than the dispatch of an action
that is still in flight.

**Evaluation** (the first part of `DomainEvaluationProofs`). Theorems about operators, for every input and every policy that satisfies the assumption:
what a healthy verdict, a recovery, a change of derating and an admission imply, and what a verdict resolves to from what was stored.

**Stored evaluations** (`DomainEvaluationProofs`). For any domains, members, couplings, history capacity and policy that satisfy the assumptions; every
safety property of the two runs is proved. One evaluation is a matter of the operators above; the work is in the pass, which evaluates domains in
ascending order, each on what the ones before it stored. `PassIsRecursive` shows that the recursive function of a pass exists (the least
identifier at which it would not is a contradiction, `MinIsLeast`), and `PassAt` what everything else uses: a domain of the scope gets the evaluation it
has under the new verdicts before it and the old ones after it, any other keeps its own. `Within`, the domains that reach one
another along couplings, is unfolded by walks in the same way (`WithinByDepth`), the hottest member by a place that is greatest (`GreatestPlace`, `GatheredIsHottest`), and the
samples kept of a boot by `RetiredHistory`. `EvaluationSteps` then sorts the actions into those that evaluate nothing, those that pass once, and a publication, which
passes twice: its own domains, and those around them.
`TypeCorrect`, `HotDomainsAreNeverHealthy` and `AdmissionsAreSafe` need types only, beside these; `RestrictionsOnlyTighten` needs `LevelKnown`, that a restriction never has the level `UNKNOWN`, against
which nothing can be clamped. `MutualRestrictionIsHeld` carries `Held` through the passes of one step: neither of the two domains is healthy, and each is restricted, or its evidence
cannot be judged, or the other escalates it. `CoupledPressureIsFelt` needs `HeatIsSeen`: a domain that nothing heats is stored as restricted while its own evidence asks for it, so
that no evaluation of it alone restricts it anew behind the back of its destination; in the passes that visit both, the ascending order does the rest.
Three theorems carry an assumption on the policy. `MutualRestrictionIsHeld` and `CoupledPressureIsFelt` ask for a coupling depth above zero, the latter for coupled derating too: a policy
without them consults no coupling. `RecoveriesAreEarned` asks that unresolved neighbours do not escalate (`~Escalates`). Where they do, the first pass of a
publication may leave a restricted domain unresolved and the second make it healthy without a recovery: what `HysteresisBypass` shows (section 5), inside one step.
Two allowances in these properties are what the two passes of a publication do: a source may be healthy between them only (`HealthyBetween`), and the first may lift a
restriction that the second imposes again at a looser level (`LiftedBetween`).

**Restart** (`CoordinatorRestartProofs`). `ImplementsAtomicFile`: each step of a save maps to a step of the abstract
store or to a stutter; its strengthening `SaveOK` says that a scratch file that is complete holds what is being
saved. `AnswersFollowFlush` follows a promise through `PromisesKept`: it is in memory until the capture, in the capture until the
replacement, and flushed from then on. `FileHangsTogether` needs `AllSelfContained`: memory, every capture in flight and the
file refer to nothing they do not hold. `AuthorityIsOfThisRun` follows from what loading does with live actions.

**Sessions** (`SessionServerProofs`). `NoDeadSocketRegistered` is inductive with types. `NoSessionWithoutGovernor`
needs `MainIsLast`: after the join every thread has ended and none is started. `RuntimeOutlivesSockets` needs
`ReferencesCounted`, which also counts the governor's own reference and ties the listener to main's position. `SharedIsFreedLast` puts the two
together.

**Conversation** (`WorkerSessionProofs`). For any number of workers, incarnations, drivers and rounds and any room in the buffers.
`TypeCorrect` first. `OnlyTheCurrentIsTrusted` is inductive with types; `HeldOnlyAdvances` needs `HeldIsRegistered`: nothing is held of a boot
that the registry has not reached, so a registration cannot make an older reading newer. `AnswersKeepStep` is about three sequences that
move into one another: what the client has collected, what is buffered for it, and what its session has yet to send. `InStep`
says that together they are numbered without a gap, from the group the client is reading to the frame its session takes next (`Numbered`,
`Following`); `ChainsConcatenate` and `ChainsSplit` are what a send, which may move any part of an answer, does to that, and `AnswersFollow` what
a new answer does. A session that has been closed may have broken off anywhere, and a process in its hold loop no longer counts.
`ReadyHasReadHalf` needs `OnScripts`, which says of each process whose connection stands what the numbers alone do not. What it has sent and its session has not yet taken
follows its script (`Scripted`): every frame that is due after `HELLO` is a publication or the `RESPONSE_END` behind it, so frame 2k + 1 of a client is observation k. In the
line of collected, buffered and unsent answers, a `RESPONSE_END` that answers a publication stands after its acknowledgement (`Acknowledges`, `RestAcknowledges`,
`AnswersAcknowledge`). The groups read keep pace with the observations published, so reading group 2k + 1 brings the acknowledgement of observation k.

**Frames** (`FramedTransportProofs`). For any frames a process may want to send (any payload, the kinds that are refused too), any splitting of the bytes by `::send` and
`::recv`, any one changed byte anywhere, any version and any limit below 2^30 (the default is 4 MiB, `protocol.hpp:92`). `TransportIsAChannel` is the refinement of
`MessageChannel`, `ErrorsHaveTheirReason` the causes of the errors. Neither is inductive: what `recv_frame` returns depends on bytes that are anywhere between the two processes. `Tracked`
is about all of them in one line, buffered, on the wire and still to be sent (`Flight`): they are the encodings of the frames that were sent and not yet returned,
with each frame's place in the line of all bytes ever sent (`Laid`), except at the one place where a byte was changed (`Carries`). `InStep` adds that the buffer is short of what
`recv_frame` reads up to next, and that a whole header in it was accepted. An append by the sender (`AddFrame`), a frame returned (`DropFrame`) and a change (`ChangeOne`)
keep `Tracked`; a piece sent or received only moves the borders (`PieceMoves`). So what the receiver judges is an encoded frame with at most one byte
changed, and the rest is about one frame: the fields are where `encode_frame` puts them (`FrameLayout`), their digits read back as the numbers
(`TwoDigits`, `FourDigits`), and a changed byte shows in the checksum, whether it is among the bytes covered or in the checksum itself (`ChangedByteShows`, from
`ByteByItsBits`: two bytes that agree in each bit are equal). `HeaderJudged` and `FrameJudged` say what the two verdicts are therefore. That the length in the header
is judged only under a checksum that agrees is what keeps a changed length from being reported as a frame too large, or waited for.

**Snapshots and history** (`SnapshotsAndHistoryProofs`). For any number of threads, domains and devices, any limit of the history and
any number of runs; no bound of section 3 is used, and every property of the run is proved. `StepKinds` sorts the actions into seven kinds (a command that
changes the configuration as it takes the lock, a thread that only reads, prints or saves, an evaluation on request, and the steps of a mutation, a crash and a
start), and each layer of the invariant has one lemma per kind. `Locked`: a mutation holds state_mutex from its change to its swap, and what is left to recompute is
registered. `InStep` adds `EvaluationsAreCurrent`, that the evaluation of a domain which is not waiting to be recomputed is of the present policy and definition, so a
snapshot that is built when nothing waits is coherent; `SnapshotAlwaysSound` follows. `Faithful` adds that memory, every capture in flight and the file hold an unbroken, chained history,
and that the last record of a domain tells its evaluation or is of an earlier run: this is what the next record's `from` has to agree with (`RecordsFollowOn`), and `SoundGrows`
carries it over an append that drops the oldest record. `Trailing` adds that no reader is ahead of the governor: a copied definition is the one in place or of an older generation, which
is why a bump that is accepted undoes nothing (`BumpsAlwaysKeep`), and a published snapshot is behind the one that replaces it (`ReadersNeverGoBackEver`).

**Encodings** (`EncodingsProofs`). For any messages and states within the assumption of section 2, any limits below 2^30, any containers by other hands and
any byte a byte may become; every property of the run is proved. The invariant `EInv` only says what is on its way: the bytes are those that the value, the state or the container was written with, a damaged file's are
those but for one place (`OneDamage`), and the outcome is what the decoder makes of them. The work is in what it makes of them.

* *Loops.* Writing glues pieces (`FlattenSeq`), reading goes through rounds. Induction over a layout cannot be cited, so each loop is unfolded by
  `Upward`: the set of rounds after which a fact holds has 0 and, with each number, the next, or there would be a least one it lacks. `Glued` makes `FlattenSeq` a loop over pieces; `PartRun`, `ItemsRun`,
  `LayoutRun` and `RecordsRun` show that the recursive functions of the readers exist and what their rounds are; `LineReads` and `LineShows` are the induction steps that all three
  tiers share. `Lies` says where in a sequence a piece lies.
* *One layout.* Each tier has two lemmas: a field is read where its encoding lies (`PlainReads`, `SimpleReads`, `PartReads`, `FieldReads`), and a field that was
  accepted is the encoding of its value (`PlainShows` ... `FieldShows`). `DecodedReads` and `DecodedShows` say so of whole layouts.
* *Two layouts.* `Alike` says that the encoder's layout writes every value as the decoder's layout would, field by field; there is a lemma for each payload, each record and each shared part
  (`EvidencesAlike`, `PoliciesAlike` ...), and these are where a field of the wrong width or in another order would fail. With the above: `EncodersAndDecodersAgree` for payloads, and `EveryByteIsRead`.
* *The container.* `ContainerLayout` says where header, body and checksums are. One damage changes the length, a byte that the header's or the
  body's checksum covers, or a checksum (`ChangedByteShows`, of `FramedTransportProofs`): `DamagedContainer`, so `NoDamageIsLoaded`.
* *Records.* `LoopRounds`: in a container whose checksums are right each round finds the next record. For a saved state `SavedRounds` follows the loop through the kinds in
  the order they were written (`Partly` is what has been read), with no identity met twice; only the expiry of a coupling is lost, and a file in the window of section 5 is refused (`SavedLoads`). For other containers `HandLoop` shows
  that the records read are accepted as long as they are `Orderly`, and that the state read `Mirrors` them; an identity is the first eight bytes of a payload (`IdentityFirst`), so a repeated one is seen in the bytes.

Two exceptions in these properties are the code's: the window of lengths between encoder and decoder, and the early return of `read_evidence` (section 5).

Model-checked only: liveness (`CalmDomainsRecover`, `CommandsAreAnswered`, `CoordinatorStops`, `ProcessesSettle`,
`StopReachesAll`, `NothingIsAwaitedInVain`), because the prover does not handle fairness and `ENABLED`. Every other property of every passing run is a theorem. That the values of `MCEncodings` satisfy `EncodingsAssumption`,
so that its theorems speak of something, TLC evaluates before the run begins.

## 5. Where code and documents part

| run | what the documents say | what the code does |
| --- | --- | --- |
| `HysteresisBypass` | `README.md:81` "Recovery is explicit ... not ... because time passed, one cooler sample arrived" | a restricted domain whose evidence goes stale is `REVALIDATION_REQUIRED` and then `NORMAL` on one cool sample (`evaluation.cpp:172`) |
| `OlderSnapshot` | `README.md:282`, `299` durable configuration is recovered and never acknowledged before the flush | an older capture may be saved after a newer one and replace it (`governance.cpp:2134`) |
| `EpochReused` | `governance.hpp:80` "the persisted epoch is advanced by one" | the epoch of the command line is advanced, so two restarts share an epoch and re-issue identifiers (`governance.cpp:2220`) |

Met while modelling, and not made a run:

* A result that comes after a policy change, or echoes another policy generation, supersedes a terminal action (`governance.cpp:1822`), where `action.hpp:65` has "no further
  transition may leave this lifecycle position". It takes three steps: authorise, cancel, and a result of another policy generation makes the `CANCELLED` action `SUPERSEDED`. The sentence
  itself, `[][Contract!Next]_Contract!vars`, is refuted by that; `KeepsContract` and `OutcomesAreFinal` name the exception and hold, so that a terminal position left in any other step
  violates them.
* A worker and its session can wait for one another for ever, each in `send_all` (`transport.cpp:187`): the coordinator answers two groups to each request, the worker reads one
  before it sends the next (`tg_worker.cpp:276`), and what it has not read grows by a group with each observation until the buffers of both directions are full. No document excludes it;
  a comment (`tg_worker.cpp:375`) has the answers read. `ProcessesSettle` states the premise under which it does not happen (the script is not `Outgrown`), and that nothing else keeps a worker waiting.
* The session's answer to `HELLO` is success although saving the devices it registered has failed (`tg_coordinator.cpp:1032`, which prints a line), where `README.md:299` has "An intended-durable
  mutation is never acknowledged before the flush". `CoordinatorRestart` has the verbs of clients, which do report the failure, and not this one.
* Verification tests the reading handed in and uses the reading held for the domain; they differ when they are of different devices, or
  have the same digest and another measurement time (`governance.cpp:1918`; `README.md:264` "Verification always consumes fresh evidence").
* The hottest member's temperature is given the front member's time (`governance.cpp:107`; `README.md:136` "Freshness is computed from measurement time").
* A comment at the ready file (`tg_worker.cpp:375`) says that every acknowledgement has been read by then. Each request draws two groups and the
  worker reads one of them per request, because a `RESPONSE_END` is answered as well (`tg_coordinator.cpp:1183`), so it
  has read those of the first half of its observations; `ReadyHasHalf` is what does hold.
* Evidence with an unknown subject kind makes `read_evidence` return without a failure (`wire.cpp:254`): a payload of nine bytes is accepted as an
  empty reading, where other invalid enumerations are refused.
* The encoder's limit on the file leaves out header and trailer (`persistence.cpp:875`): a state in that window is written and refused when it is loaded.
* `explain` reads the policy in a later critical section than it evaluates in (`governance.cpp:2057`), so a policy update in between makes an explanation with the thresholds of
  a newer policy beside the verdict of an older one (`README.md:327` says they "are all safe to run concurrently"); `ReadersNeverGoBack` is what holds.
* The topology generation is advanced after the recomputation (`governance.cpp:865`): evaluations with and without a new coupling carry the same one,
  where the envelope "carries the ... topology generation ... that make it valid" (`README.md:159`).
* Of two `bump-device-generation` commands at once both succeed with the same generation, and a registration of the device in between is undone, because
  `register_device` accepts the generation in place (`governance.cpp:774`); the copy also loses the rack's generation (`tg_coordinator.cpp:579`).
* `evaluate_domain` and `evaluate_device` publish no snapshot: a reader of the snapshot sees the verdict before until the next mutation (`governance.cpp:1257`).
* A peer that ends within the first twenty bytes of a frame is reported as `TRANSPORT_CLOSED`, not as a truncated frame.

Also: a heartbeat makes a worker alive again that was declared dead, under the boot
whose evidence was retired; `conflicted_subjects` is never filled; `tg_worker` reports policy generation 1 whatever the policy;
the coordinator never sends a dispatch and does not learn of a worker's death from a closed connection; `evaluate_domain` and
`authorize_recovery` recompute one domain and not its neighbours; `register-domain` with exactly six arguments reads
a seventh.

## 6. What is left out, and why

* **Digests:** `MitigationActions` takes that equal digests mean equal readings. CRC-32C is the parity of each bit, which tells any one changed byte from the original as CRC-32C does.
  What several changed bytes do to a frame is not modelled.
* **A connection that is reset:** in `FramedTransport` a connection ends in order, with the end of the stream after what was sent. The error that `::recv` or `::send` reports on a reset
  one (`TRANSPORT_IO`, `transport.cpp:192`, `212`, `237`, `257`) is left out; `WorkerSession` has its effect on a conversation (`Break`, `EndSession`).
* **Explanation, rendering:** the text made of an evaluation and a policy.
* **Backends:** the environment. A reading is any of a small set.
* **Tools:** options, the ready file's content, and the worker's handling of an instruction, which no coordinator sends. A client of `MitigationActions` asks
  in any order.
* **Workers in `SnapshotsAndHistory`:** so the one return of `register_worker` that has retired a boot and publishes no snapshot, at the worker limit (`governance.cpp:978`), is not seen by
  `SnapshotIsSound`; what it does to evidence and actions is in `MitigationActions`.
* **Within modelled components:** aggregation rules other than the hottest member's; parents and children in evaluation; several policies
  in one `DomainEvaluation` instance; confidence of evidence; re-registration of a device in `DomainEvaluation` (in
  `MitigationActions` it advances generations); verification records in the durable file, which are saved and restored like domains.
* **Faults:** crashes of the process, not of the machine: outside Windows the scratch file is not flushed to the device. `SessionServer` has
  the Windows behaviour of `select`, the platform the repository validates; on POSIX `select(0, ...)` never reports
  a connection. Data races on `TcpSocket::handle_` (`close` in a session, `shutdown_both` in main) have no outcome but a
  shutdown without effect, since only main opens sockets.

## 7. Plan

Done, in this order: `MitigationActions` with its contract and proofs; `ThermalEvaluation` and `DomainEvaluation`;
`AtomicFile`, `DurableStore` and `CoordinatorRestart` with proofs; `SessionServer` with proofs; `WorkerSession` with proofs;
`MessageChannel` and `FramedTransport` with proofs; `Bytes`, `BinaryCodec`, `WirePayloads`, `DurableContainer` and `Encodings` with proofs; `SnapshotsAndHistory` with proofs. Next:

1. `DomainEvaluation`: parents and children, the remaining aggregation rules, `authorize_recovery` under two policies, re-registration of a device.
2. An evidence module: digest equality, duplicates and conflicts, per-worker sequence numbers, coordinator epoch.
3. The verbs of the command line, composed with the governor's operations.
