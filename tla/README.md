# Verification of ale-my-eyes-mobile

TLA+ models of the Android client of *ale-my-eyes*, their TLC instances and
their TLAPS proofs. The client pairs with a desktop by QR code, records speech,
uploads it over an encrypted WebSocket session, shows what the desktop proposes
and confirms or cancels it. What is hard in it is not the data but the order of
things: a dozen UI tasks, one session actor, a peer that answers late, twice or
never, and deadlines on every wait but one.

## 1. Inventory

| Component | State | Operations | Talks to |
|---|---|---|---|
| Session actor, `ale-core/src/remote_session.rs` | command channel (64), `active_audio`, `pending_preview`, `pending_execution`, `retired_request_ids` (64), `unexpected_responses`, `last_seen`, the watch channel of events | seven methods through one channel; `handle_command`; `handle_remote_message`; maintenance tick; heartbeat; the tail of `run_session` | UI tasks (one-shot replies, watch channel), socket |
| Secure channel, `remote_crypto.rs` | Noise transport, `incoming` (reassembly) | handshake, `encrypt_message`, `decrypt_frame` | session actor, reference peer |
| Messages and pairing, `remote.rs` | none | pairing URI parser and builder, message types | everything |
| Reference peer, `mock_server.rs` | `AudioAssembler`, `pending_decision`, behaviour | one connection at a time, one arm per message | session actor |
| Application, `ale-gui/src/lib.rs`, `operation_epoch.rs` | `AppState` behind a mutex, `session_generation`, `stream_gate`, `drain_running`, input epoch, scan token, UI flags | scan, connect, event task, toggle, tick, finalize, abort, cancel, confirm, disconnect | session, recorder, scanner, bridge |
| Recorder, `audio.rs` | sample buffer, overflow mark, limit | callback, drain, finish | application, audio thread |
| QR scanner, `qr_scanner.rs`, `camera_frame.rs` | `CAMERA_GATE`, camera session, callbacks' state | open, capture, decode, teardown | application, NDK |
| Android bridge, `android.rs` | lifecycle flag, permission dialog counter, requested permissions, TTS object | lifecycle events, `ensure_permission`, TTS, preferences | application, JVM |
| Preferences, UI (`*.slint`), preview tool, scripts, vendored winit | - | - | - |

Where behaviour is hard, and what makes each part correct:

* **Session actor.** `tokio::select!` takes its ready branches in random order,
  so a cancel, a late answer, a deadline and a disconnect meet in any order.
  Correct means: every call is answered once, with an answer about *its*
  request; no reply is lost or kept; a late answer to a request given up does
  nothing; the session ends for the reason that ended it, says so last, and
  leaves no call waiting; the memory of old requests is bounded.
* **Upload.** Two ends count chunks and frames separately, and what one writes
  crosses what the other does. Correct means: as long as nothing was refused they
  agree; what the client lets through the peer never finds too large; a cancelled
  upload is never sent or awaited again; a response held against the peer has one
  of the few causes it may have.
* **Secure channel.** Correct means: whatever the size, what is decoded is the
  sequence of messages that was encrypted, or an error.
* **Application.** State is read under a lock, awaited upon without it and used
  after. Correct means: events of an old session touch nothing of the new one;
  a start that was cancelled never becomes a recording, and its microphone, which
  runs before the session has answered, is stopped; the UI never stays busy; one tap
  confirms once.
* **Recorder, scanner, permissions.** Threads of the system call in. Correct
  means: PCM is neither lost nor repeated without an overflow being reported;
  one camera at a time, freed as a whole; only a code inside the box is read;
  a permission answer reaches the dialog that asked.
* **Pairing.** A code was read from a screen some time ago. Correct means: a link
  is read as what was written or refused, and a session is up only with the
  desktop whose code, session and version it stood for.

The full list of hazards, with the lines where they bite, is in `PROJECT.json`.

## 2. Modules

| Module | What it is |
|---|---|
| `AudioAssembler` | pure operators: uploads, the messages of an upload, what the peer's assembler does with one frame |
| `RemoteSession` | the session actor, its callers and an arbitrary peer: the core of the project |
| `SessionPromise` | abstract specification: what `RemoteSession` promises its callers |
| `SessionLink` | `RemoteSession` composed with the reference peer, over two channels |
| `SecureChannel` | `encrypt_message`, or any peer at all, at one end, `decrypt_frame` at the other |
| `MessageStream` | abstract specification: what two secure channels provide |
| `RemoteSessionProofs` | theorems: types, no reply is lost, strikes, the end of a session, its memory; `RemoteSession` implements `SessionPromise` |
| `SessionLinkProofs` | theorems: both ends agree on the upload, nothing else is refused, a preview is earned, a strike has one of three causes |
| `SecureChannelProofs` | theorems: the limits meet, the channel implements `MessageStream`, only one run is buffered and decoded |
| `NaturalRecursion` | lemmas: induction and recursion over the natural numbers, for the proofs about recursive functions |
| `AppSession` | the application: its state, the tasks of its window and the sessions they talk to |
| `AppSessionProofs` | where the tasks of `AppSession` are and what a turn does to the lines they wait in; theorems: types, the window shows the session, what is recorded belongs to it, what it is lost to |
| `AppSessionTimely` | theorems: recordings, requests, dialogs and uploads in timely runs of `AppSession` |
| `PairingUri` | pure operators: what the builder writes of a pairing info, what the parser reads |
| `ScanGeometry` | pure operators: the pixels that reach the decoder, the pixels in the box of the window |
| `Handshake` | `RemoteSession::connect` against the first part of `handle_connection`, or another program |
| `QrScan` | a scan from the tap to the session: `PairingUri`, `ScanGeometry` and `Handshake` composed with the camera, its thread and the window |
| `QrScanProofs` | theorems: one camera at a time, the window tells its scan, a session is with the desktop of the code, what is decoded is what the box shows, a link is read as what it stands for |
| `Recorder` | the buffer between the audio callback and the UI thread |
| `RecorderProofs` | theorems: types, what is sent is what was captured, a recording is complete or refused |
| `MCRemoteSession`, `MCSessionLink`, `MCAppSession`, `MCPairing` | instances for TLC (symmetry, values of constants) |

The instances are symmetric in callers and ids, and in `AppSession` in the places for
tasks: which unused place a task is given makes no difference. The runs that check
liveness use no symmetry. `MCSessionLink` also has a view without the answers of
calls that have returned and the message of the last step, which no later step reads.
`SecureChannel` and `Recorder` need no MC module: their constants are numbers.

### RemoteSession

| In the code | In the model |
|---|---|
| a task inside `session.finish_audio(..).await` etc. | `call[c]`: `queued` in the channel, `parked` when its reply is in a slot, `idle` with the answer |
| `mpsc::channel(64)`, tasks waiting for room | `queue`; entries beyond `QueueCap` wait for room and may give up (`EnqueueTimesOut`) |
| `handle_command` | `HandleCommand`: `BeginAudio`, `SendAudioChunk`, `FinishAudio`, `Confirm`, `RespondToDecision`, `Cancel`, `Shutdown` |
| `handle_remote_message`, `route_remote_error` | `Inbound`: one action per arm |
| `deadline <= now`, `last_seen` | the `due` mark of a slot, `silent`; `PreviewFallsDue`, `ExecutionFallsDue`, `PeerFallsSilent` |
| maintenance tick, heartbeat | `Maintenance`, `HeartbeatFails` |
| `break error`; `socket.close`, the kept replies, `Disconnected`; return | `Breaks`; `FailPending`, `PublishEnd`; `DropActor` (`phase` goes open, closing, ending, down, closed) |
| `events.send_replace` | `event`, one unread value |
| `socket.send` | `out`, the message of the last step, and `WriteFails` |

One turn of `select!` is one step: the arm's body owns the actor's locals and awaits
only its own socket writes, which `SEND_TIMEOUT` bounds; a command that arrives
meanwhile waits in the queue and a frame in the socket, so nothing else can change the
state the arm works on. A write that fails is a choice: the message may or may not have
left, and the loop breaks. The one wait without a deadline is `socket.close(None)`
behind the loop (`remote_session.rs:379`): it lasts until what was written, the rest of
a write that timed out included, is out. `FailPending` is the end of that wait, together
with the kept replies that are sent right after it; nothing makes it happen.

The desktop is **any** peer: `Inbound` offers every message about every request
id at any time. This covers late, duplicated, reordered and invented responses
without a model of the network, and the reference peer is one instance of it.

Small operators such as `PreviewFor`, `Retire` or `OverLimit` isolate one
decision of the code each; the definition just before each is a plausible wrong
version of it, used to check that a property really depends on that decision.

### SessionPromise and the refinement

`SessionPromise` knows no queue, slot, deadline or peer: a caller asks, waiting
calls are answered, the session ends, then goes. `KeepsPromise` maps a call
that is not idle to a request that waits and the phase to live, ended or gone.
It says that an answer is always about the request asked about, that a begun
upload gets an id nobody has, that success is never answered after the end,
and that the session does not go while somebody waits.

### SessionLink

Both ends and the messages on their way: `up` takes what the actor writes (`out`),
`down` what the peer answers. `ActorActs` are the steps of `RemoteSession` that do
not read the socket, `ActorReceives` gives it the next message of `down`, and
`PeerTakesUpload`, `PeerTakesConfirmation` and `PeerTakesDecision` are the arms of
`handle_connection`, with the operators of `AudioAssembler` for the upload and
`behavior` for `MockBehavior`. So a cancel crosses a preview, a refusal crosses the
chunks that follow it, and a decision crosses its deadline. PCM is a number of
frames; the SHA-256 stands for what it hashes. A late answer is one that stays on its
way, so `LateConfirmation` needs no case; `LongPreview` is the business of
`SecureChannel`. What is checked is the link while both ends are in their loops; a
socket that fails is `RemoteSession`'s.

### SecureChannel and MessageStream

A message is its length and byte `k` of message `m` is `<<m, k>>`, so bytes are
never mistaken for those of another message or another place. `Encrypt` is
`encrypt_message`, `WriteFrame` and `WriteFails` are `send_secure`, which writes
the frames of a message one by one and stops at the first that fails,
`TakeFrame` is `decrypt_frame` with what its callers do on an error: end the
session. `KeepsStream` maps what was accepted and what was decoded to
`MessageStream`, whose receiver gets the messages in order, none twice and none
left out. The sender may be `peer = "any"` instead: the receiver then takes
fragments of any id, index, total and content, and `taken` remembers them.
`RemoteSession` relies on the first result when it treats a message as one step, and
offers its actor `PartialFrame` and `SocketEnds` for the frames that complete nothing
or do not decode.

### AppSession

| In the code | In the model |
|---|---|
| `AppState` behind a mutex that is never held across an await | `state` |
| the properties of `AppWindow` that guard something | `app`; its two confirmations are `app.dialog`, "decision" or "plan" of a request |
| `FOREGROUND`, granted permissions, `MainEvent::Pause/Stop/Resume` | `activity`, `Pause`, `Stop`, `Resume` |
| `spawn_local_task`, wakers, `upgrade_in_event_loop` | `loop.ready`, first posted first run; `Spawn`, `Wake` |
| a task suspended at an await | `loop.task[t]`: where it stands (`at`) and its locals |
| an await that is ready | `Continues`: the same turn goes on (`loop.turn`) |
| `stream_gate`, a fair tokio mutex | `loop.gate`, holder first; `Lock`, `Unlock` |
| `drain_running` | `TickDue` starts a tick only when none is alive; one that finds the gate free and no recorder changes nothing and is left out |
| `OperationEpoch`, its tickets; the scan token | `valid` of a task; `Advanced`, `ScanCancelled` |
| the click on the microphone and its task | `TapMicrophone`, `ToggleStarts`, `ToggleResumes`, `StartRecording`, `RecordingBegins`, `RecordingUndone` |
| `recording_tick`, `abort_recording` | `TickStarts`, `TickDrains`, `TickSent`, `Aborts`, `CancelDone` |
| `finalize_recording`, `publish_preview` | `Finalize`, `LastChunkSent`, `PreviewArrives`, `CancelDone` |
| cancel, confirm or reject, disconnect | `TapCancel`, `CancelStarts`; `TapDialog`, `AnswerStarts`, `DecisionSent`, `Confirmed`; `TapDisconnect`, `Disconnects` |
| scan, camera thread, `connect_session`, event task | `TapScan` ... `Installs`, `EventRead`; `CameraReturns`, `HandshakeEnds` |
| `ensure_permission` | `EnsuresPermission`, `PermissionPolled` |
| the session actors | `queue`, `parked`, `active`, `event`, `life`; `HandleCommand`, `PeerAnswers`, `PeerAsks`, `LoopBreaks`, `ShutdownHandled`, and behind the close of the socket (`closing`) `SessionEnds` |
| the microphone (`Recorder::start`, `lib.rs:704`) | `MicrophoneRuns`: a recorder in `state`, or a task that waits for `begin_audio` (`Starting`), whose own it is until then |

All of the application runs on one thread, so what interleaves are the parts of tasks
between two awaits, and the clicks, timers and life-cycle events that come when no turn
is running. Each such part is an action, or a few where an await in it does not suspend.
The session of each pairing is a thread of its own. It is here a reduced
`RemoteSession`: commands in order, one upload, one kept preview and one kept status, a
cancel that answers what it cancels, a close of the socket that may take for ever, and
behind it an end that answers everyone and publishes `Disconnected` between the kept
replies and the commands left in the channel; the number is part of an id, because ids
are unique over all sessions. Of the watch channel only what the reader has not seen
matters.

What is data is a choice: whether the recorder has nothing, a chunk or an
overflow (`TickDrains`), whether there is a rest (`SendsRest`), whether the
limit of a recording is reached, what the desktop answers, whether the camera
finds a code. `approved` is left out: a rejection takes the same path.

### QrScan, Handshake, ScanGeometry, PairingUri

| In the code | In the model |
|---|---|
| `qr_scan_cancel`, the tokens of the scans | `slot`, `cancelled` |
| the task of a scan, its thread, `connect_session` | `stage[s]`: permission, gate, opening, looking, closing, publishing, posted, connecting, installing, gone |
| `CAMERA_GATE` | `gate`, left when the last object is freed |
| the reader, its window, the error flag and the `ACamera*` objects | `held[s]`, opened in `OpenOrder`, freed in `CloseOrder`, each step of opening may fail |
| the image listener | `ImageArrives` (image taken, rotation read, preview posted), `ImageDecoded` (cropped as the region says by then) |
| `upgrade_in_event_loop` | `posted`, first posted first run: `PreviewShown`, `ScanPublished` |
| `ScanRegion`, `on_scan_geometry_changed` | `region[s]`, `registered`, `GeometryChanged` |
| `color_preview`, `crop_scan_region` | `Previewed`, `Shown`; `Crop`; the sets of pixels `InBox` are the box of `android-app.slint` on the preview |
| `RemoteSession::connect` | `Connected`, `ReadsReply`, `ReadsHello`, and `ConnectFails` at each of its waits |
| `handle_connection` up to `ClientHello` | `DeskReplies`, `DeskTakesHello` |
| `PairingInfo::uri`, `from_uri` | `Uri`, `FromUri`: a set with the info read, or none |

A scan is known to `AppSession` as a task that ends one way or another; `QrScan` is
that task in full, and knows of the window only what a scan shows and holds. Each of
its steps is what one thread does between two accesses to what others share: the
token, the gate, the region, the queue of the event loop. The camera's objects that
only this code uses (request, target, output, container) are one. Who listens at the
address of the code is any of `Peers`, chosen when the socket opens: the desktop, the
desktop with an older protocol, one restarted since, or a program that has the code
and says what it likes. Noise is what it promises: a message made under another code
is refused.

Coordinates are integers and the divisions of the crop exact, where the code has `f32`.
The preview has one pixel for two by two of the image and drops an odd column or row,
which the crop does not: that both are of one region is claimed of images with even
sides (`Whole`; section 6 has an odd one). Until the first preview is shown `ScanRegion`
has rotation 0, and its layout may already be told: an image that is upright as it comes
is then decoded within the box of an empty view, and `ReadsOnlyWhatIsShown` says so.

### Recorder

`AudioReady` and `AudioAppended` are the callback before and after it has the
lock; `DrainPcm16`, `DrainLocks` and `DrainTakes` are `drain_pcm16`,
`FinishPcmChunks` and `FinishTakes` are `finish_pcm_chunks`, `Stop` is a recorder
that is dropped. A sample is its number in the order of capture. Two things are
the contract of the audio library: a callback that returned `Stop` is not
called again, and closing a stream waits for a callback that runs.

## 3. Runs

| Run | Question | Instance |
|---|---|---|
| `session_routing` | does each answer reach the call it is about, is every reply accounted for, how does the session end, and does the actor keep its promise? | 2 callers, 2 ids, 2 strikes; uploads, confirms, cancels; previews, progress, statuses and errors |
| `session_answers` | is every call answered, but for a session that never gets through its close? | 2 callers, 1 id, 1 strike, `FairSpec`; every method and message |
| `session_link` | do both ends agree about the upload, and why is a response refused or held against the peer? | 2 callers, 2 ids, every behaviour, 1 message on its way in each direction, chunks of 1 frame, limit 2 |
| `secure_channel` | do messages arrive whole, in order, all of them; can wrong fragments be decoded, or fill the buffer? | frames of 3 bytes, parts of 2, messages of 1 to 6 bytes with 5 the limit, 3 messages; or 4 frames of any kind, 2 ids |
| `pairing` | is the camera one scan's at a time, is only a code in the box read, does the window follow the scan, is a session up with the right desktop only, is a link read as what it says, does a scan end? | 2 scans, 1 turn of the display, images of 12 by 8 pixels, 4 peers, `FairSpec` |
| `app_recording` | do the recording, what the window shows, its request and the desktop's upload stay one, is a start that was taken back never a recording, and does leaving the application take back both? | 1 session, 2 uploads, 4 tasks; taps, cancels, dialogs, pauses and stops, the microphone's permission not yet given |
| `app_sessions` | does an old session touch the new one? | 2 sessions, 1 upload in each, 3 tasks; disconnects, cancelled scans, dialogs, decisions of the desktop |
| `app_answers` | does the window always become usable again, does a start end, and does a microphone that is not shown stop? | 1 session, 2 uploads, 3 tasks, `FairSpec`; taps, cancels and dialogs, the microphone's permission not yet given |
| `recorder` | is the upload what was captured, or refused? | buffer of 4, chunks of 2, callbacks of up to 3, 10 samples, `FairSpec` |
| `late_progress`, `dialog_over_recording`, `stuck_close` | three places where a document says one thing and the code does another (section 6) | smallest that shows it |

The constants of each instance are in its `.cfg`, with a comment.

**Bounds.** `Callers`, `Ids` and `QueueCap` bound the callers, the uploads and the
channel. Two ids are what it takes to confuse one request with another, two callers to
have one parked in a slot while the other competes (`NoReplyLost`, for any number of
callers, is proved); a channel of one place is full with the second command.
`MaxRetired` is 1 where the code has 64, so that the memory overflows; `MaxUnexpected`
is 1 or 2 where the code has 3, so that the last strike comes early and is not the first
(`ViolationExact` is proved for every value); `MaxChunk` and `MaxFrames` are a few
frames, so that the limit is met in the middle of a chunk. `WithinBound` keeps the
uploads begun within `Ids`. `CallerOps` and `PeerSends` choose the methods and messages
of an instance, so that each run explores its question and not the product of all.
`LinkCap` is one message on its way in each direction: while it is there its receiver
does other things, which is what crossing means; behind it the sender waits, as it does
behind a full socket. In `SecureChannel` the lengths are chosen so that the exact limit
of a frame, of a message and of a multiple of the part size occur with their neighbours;
`MaxSent`, `MaxTaken` and `MaxTotal` bound the messages, the frames and the totals a
peer announces, and a fragment that says nothing of a message comes in one length
(`ForgedFrom`). In `QrScan` two scans are the one that ends late and the one it meets.
One turn of the display gives both orders of turn, preview and image; a scan shows one
image in `PreviewEvery`, 2 where the code has 6, so that there are images that are not
shown. One closure may wait in the event loop (`MaxPosted`): while it does, the camera
has no next image. A code is one pixel, and the images are those of the tests.
`CropIsTheBox` tries all images, views and boxes up to 6, odd sides included where it
claims nothing; `UriReads` the fields of a link as written, rotated and reversed, with
one, two or no field left out and any other, valid or not, put in (every order is the
theorem's). In `AppSession` `Tasks` bounds the tasks alive at once (a click that finds
no place waits): one reads the session's events, one may be a tick, and two more are a
cancel or an answer against a tap. Two uploads are what it takes to confuse a request
with its successor, two sessions the same for sessions. `RecordingShown` and
`BackgroundCancels` are checked within one session (`app_recording`), because over two
they do not hold (the late reset of section 6); without such a late cancel they are
proved for any number of sessions (`AppSessionTimely`). Where the desktop asks for no
decisions (`PeerDecides` is FALSE), the half of `AnswersWhatWasShown` that is about the
answer to a decision has no case. `app_answers` has two uploads, so
that a second may be asked for while tasks of the first are under way; with decisions it
may even take the first one's place, and then `BusyEnds` fails (section 6). The user may at any
time do whatever `Inputs` names, and may always scan. A session may end at any moment in
every run. In `Recorder` the buffer fills with two callbacks and a chunk is smaller than
a buffer, so that a drain leaves a rest. `CHECK_DEADLOCK FALSE` everywhere: a session
that is closed and whose handles are dropped, or a channel that is broken or drained,
really stops, as does an application whose user does nothing and a recorder that is
gone.

**Fairness.** `FairSpec` is weakly fair to `HandleCommand` (select! is random among
ready branches, so a waiting command is not passed over for ever), to the deadlines and
to `Maintenance` (time passes and the interval ticks), and, behind the close of the
socket, to `PublishEnd` and `DropActor`, which wait for nothing. It is not fair to
`FailPending`: `socket.close(None)` (`remote_session.rs:379`) has no deadline, and a
desktop that reads no more can keep it waiting. So `CallsAnswered` has that as its
exception (`NeverClosed`: from some point on the session is in its close for ever). In
the loop nothing is assumed of the peer, of the callers or of the subscriber: a desktop
that never answers is allowed, and the calls still end because the deadlines do.
`FairChannelSpec` is weakly fair to the next write, which succeeds or fails by
`SEND_TIMEOUT`, and to the receiver's loop; either session may end at any time.
`AppSession`'s `FairSpec` is weakly fair to `Turn` (the event loop runs what is posted),
to the next command and the kept replies of a session in its loop (what
`session_answers` shows of the actor: each ends by a deadline) and to the handshake (its
timeouts). It is not fair to the end of a session in its close, and the liveness
properties have the same exception (`NeverClosed`). It is strongly fair to
`PermissionPolled`, which looks four times a second with a deadline of one minute but
not while a turn is running, and to the end of the rest of a recording, which is a loop
over finitely many chunks. Nothing is assumed of the user, of the camera or of the
desktop. `QrScan`'s `FairSpec` is weakly fair to the event loop, to a listener that has
an image, and to each scan wherever it is: on its thread, whose loop has `SCAN_TIMEOUT`,
in its task, whose question for permission has a minute, or in `connect`, every wait of
which has a timeout. Nothing is assumed of user, camera or desktop there either.
`Recorder`'s `FairSpec` lets the timer tick and both threads go on; it is strongly fair
to `DrainLocks`, for the callback holds the lock only while it copies and returns
between two calls.

## 4. Proofs

Those about the session hold for every number of callers, ids, strikes, retired ids, chunk
and upload sizes and for every capacity of the channel. They assume what
`RemoteSession` and `AudioAssembler` assume of their constants: the limits are
positive (`BoundsAssumption`, `AudioAssumption`), `NoCaller` is no caller and
`NoId` no id, the transport errors are those of `is_transport_error`, and
the methods and messages of an instance are among the code's. Those about
the link add that its channels have room (`LinkAssumption`); those about the secure channel
hold for every size of frame, part and message, those about the application for any
finite number of tasks, any number of sessions and requests, any set of inputs and whether
or not the desktop asks for decisions (`AppAssumption`); those of `AppSessionTimely` have
a condition on the run, `Timely`, which is explained with them.

| Theorem | Says |
|---|---|
| `RemoteSessionProofs!TypeCorrect` | `Spec => []TypeOK` |
| `RemoteSessionProofs!NoReplyLost` | `Spec => []RepliesAccounted` |
| `RemoteSessionProofs!ViolationExact` | `Spec => []ViolationIffThirdStrike` |
| `RemoteSessionProofs!LastWord` | `Spec => []DisconnectedIsLast` |
| `RemoteSessionProofs!MemoryBounded` | `Spec => []RetiredBounded` |
| `RemoteSessionProofs!PromiseKept` | `Spec => KeepsPromise`: the actor implements `SessionPromise` |
| `SessionLinkProofs!EndsAlwaysAgree` | `LinkSpec => []EndsAgree` |
| `SessionLinkProofs!NothingElseRefused` | `LinkSpec => []RefusalsTraced` |
| `SessionLinkProofs!PreviewsEarned` | `LinkSpec => PreviewEarned` |
| `SessionLinkProofs!StrikesAlwaysExplained` | `LinkSpec /\ []RemembersAll => StrikesExplained` |
| `SessionLinkProofs!FewRequestsExplained` | `LinkSpec /\ []FewRequests => StrikesExplained` |
| `SecureChannelProofs!BothEndsAgreeOnLimits` | `[]LimitsMeet` |
| `SecureChannelProofs!StreamKept` | `KeepsStream`: the channel implements `MessageStream` |
| `SecureChannelProofs!BufferHoldsOneRun` | `[]BufferIsOneRun`, whatever frames a peer sends |
| `SecureChannelProofs!DecodedOnlyFromOneRun` | `DecodedFromOneRun`, whatever frames a peer sends |
| `AppSessionProofs!TasksInPlace` | `Spec => []IInv` of `AppSession`: each task in one place, and the rest of the inductive invariant |
| `AppSessionProofs!TypeCorrect` | `Spec => []TypeOK` |
| `AppSessionProofs!WindowAlwaysShowsSession` | `Spec => []WindowShowsSession` |
| `AppSessionProofs!AlwaysRecordsOnCurrentSession` | `Spec => []RecordsOnCurrentSession` |
| `AppSessionProofs!OnlyItsOwnEndDisconnects` | `Spec => OnlyOwnEndDisconnects` |
| `AppSessionTimely!TimelyRuns` | `TimelySpec => [](IInv /\ TimelyInv)`, with `TimelySpec == Spec /\ []Timely` |
| `AppSessionTimely!RecordingAlwaysPending` | `TimelySpec => []RecordingIsPending` |
| `AppSessionTimely!AlwaysAnswersWhatWasShown` | `TimelySpec => []AnswersWhatWasShown` |
| `AppSessionTimely!RecordingAlwaysShown` | `TimelySpec => []RecordingShown` |
| `AppSessionTimely!BackgroundAlwaysCancels` | `TimelySpec => []BackgroundCancels` |
| `AppSessionTimely!CancelledNeverStarts` | `Spec => CancelledStartsStaySo` |
| `AppSessionTimely!NoUploadEverAbandoned` | `TimelySpec => []NoUploadAbandoned` |
| `AppSessionTimely!OneSessionIsTimely` | with one session and no decisions, `Spec => TimelySpec` |
| `AppSessionTimely!OneSessionKeepsAll` | with one session and no decisions, `Spec` keeps all five |
| `QrScanProofs!OneCamera` | `Spec => []CameraUnderGate` of `QrScan` |
| `QrScanProofs!WindowTellsScan` | `Spec => []WindowFollowsScan` |
| `QrScanProofs!PairedOnly` | `Spec => []SessionIsPaired` |
| `QrScanProofs!BoxIsDecoded` | `Spec => []CropIsTheBox`, for images with even sides |
| `QrScanProofs!OnlyShownIsRead` | `Spec => ReadsOnlyWhatIsShown` |
| `QrScanProofs!UriAlwaysReads` | `Spec => []UriReads`, for valid infos and any links |
| `RecorderProofs!RecorderTypeOK` | `Spec => []TypeOK` of `Recorder` |
| `RecorderProofs!RecorderSentAsCaptured` | `Spec => []SentAsCaptured` |
| `RecorderProofs!RecorderCompleteOrRefused` | `Spec => []CompleteOrRefused` |

* **Types.** `TypeOK` is not inductive: a strike adds one to the counter, and
  nothing in the types keeps it below its limit. `StrikesLeft` does: an open
  session has a strike left, because the one that reaches the limit breaks the
  loop in the same step. `TypeInv` is the two together.
* **Replies.** `RepliesAccounted` is not inductive either: `finish_audio` and
  `confirm` put the request of the command into a slot, and the slot must hold an
  id of this session. `AskedIssued` says that a waiting call asks about an issued
  id. Every step is one of a few moves (a call enters the queue, leaves it at the
  head, gives up from the middle, is parked, is answered), and each move has a
  lemma about what it does to the queue and to the slots (`Enqueues`, `Dequeues`,
  `GivesUp`, `NobodyParks`, `SlotFacts`); the step lemmas only say which move a
  step makes. Its heart is that a slot is written only when it is empty, so the
  caller parked in it is never overwritten.
* **The end.** `ViolationExact` adds that a loop still open has no reason yet;
  a step after the loop changes neither reason nor strikes. `LastWord` and
  `MemoryBounded` use the invariant of the replies: the two slots hold every
  parked call, so none is left when the kept replies are sent, nothing parks behind the
  loop, and `Disconnected` is published after that; and what a deadline retires was issued.

* **The promise.** `PromiseKept` maps every step to one of the abstract session. A
  method that is called is `Ask`; every other step leaves each caller alone, refuses
  it with a failure or serves it with what its method promises (`LeftAlone`,
  `Refused`, `Served`), which is `Replies` (`AnswersReply`). That a response is about
  the request asked about is the invariant of the replies once more: the slot holds
  the id its parked caller asked about (`SlotFacts`). The session ends and goes along
  `StepCourse`; that its actor goes with nobody waiting is `LastInv`, and that whoever
  is left hears a failure needs a reason for every end (`HasReason`).

* **The link** (`SessionLinkProofs`). The two ends disagree all the time, about the
  messages on their way; the invariant speaks of what the peer will hold once it has
  read them (`ServerSoon`, `AfterAppend` and `AfterTail` say how a message written or
  read changes it). `LinkInv`: while the actor is in its loop, that peer and the
  actor's upload are `Aligned` and it refuses nothing but what a busy start explains
  (`Traced`); what was cancelled is neither end's upload; what comes down about a
  preview is of an upload the peer completed. Every turn of the actor, however many
  arms it has, is one of the four moves of `AudioCourse`. The invariant of the replies
  (`ReplyInv`) is used throughout.

  `StrikesAlwaysExplained` needs to know of every response on its way that the actor
  still waits for it. `LedgerInv` adds to `LinkInv` what the peer owes each request
  (`Ledger`): an upload ends once (`EndsOnce`), and a request that was neither given up
  nor retired (`InMind`) is owed at most one verdict, which its question comes before
  (`PreviewOwed`), and at most one status (`StatusOwed`), with the slot pending until it
  comes. `TracedAlong` says that the peer gets no error but for its one reason on its way
  through the messages. `LedgerCourse` is what any turn of the actor does to this;
  whoever is retired or given up drops out of the ledger and is one of the causes. A
  retired id that the memory forgets would come back into it, hence `RemembersAll`: the
  next tick forgets no retired id nor one it retires. This is a condition on the run, for
  `retire_request_id` does drop the oldest of more than `MaxRetired` ids, and its late
  answer is then a strike without a cause of the three. `FewRequestsExplained` shows
  that a session of at most `MaxRetired` requests (64 in the code) always meets it.

* **Secure channel.** Each frame in flight has a place: the message it is of and which
  part (`Placed`). `ChannelInv` says that such places exist for the frames on the wire
  and not yet written, that they start right behind what is decoded and put together,
  and that they end with the last message sent; so the next frame taken continues the
  message put together or begins the next one. The arithmetic of lengths and limits is in
  lemmas of its own (`CountOfParts`, `CutsAscend`). Against a peer that sends
  any frames there is nothing to place: `AnyPeerInv` is that the buffer is the last
  run of frames taken, and each step makes it one longer, starts one or empties it.
  What a run amounts to is a recursive function; `NaturalRecursion` has the induction it
  takes, over sets and functions of natural numbers.

* **Application** (`AppSessionProofs`), for any number of tasks,
  sessions and requests. `IInv` has four parts.
  *Places* (`AllInPlace`): every task is ready, in a session's queue, parked there or
  waiting for something outside, in one of them and once; it is in the line of
  `stream_gate` exactly when the station it stands at says so; and a call under the gate
  is made by its holder. Each kind of turn is followed through its assignments, the task
  being in the hand meanwhile (the set `T` of `InPlace`).
  *Types* (`FieldsTyped`), with what a station implies of the task that stands there
  (`Shaped`).
  *The window* (`WindowInv`): `WindowShowsSession` holds because at most one scan has a
  valid token, and none while a session is held; because the disconnect that is posted
  finds the window no longer connected and runs before a scan that was tapped after it
  (order in the event loop); and because the events of a session are acted upon only
  under the generation it was installed at, which no other session shares: the
  generation never passes twice the number of sessions that were started, less one for a
  connection that has its disconnect yet to come.
  *The recording* (`RecordInv`): while a recorder runs its upload is open in the session
  held, and no task is on its way to take it; an upload that `begin_audio` has just
  returned is known to nobody else, for ids are issued once.
  Most steps are *quiet*: they end or move tasks, forget ids, or answer calls, and a
  quiet step keeps `IInv` whatever else it does (`QuietFields`, `QuietWindow`,
  `QuietRecords`). The others, such as a session that is started, installed or given up,
  an upload that begins, a task that is posted, have a proof of their own.

* **Timely runs of the application** (`AppSessionTimely`), for any number of tasks,
  sessions and requests again. Five invariants do not hold of all runs: section 6 has
  the two ways in which they fail. `Timely` excludes what leads there: no desktop asks
  for a decision (`Undecided`, for `dialog_over_recording`), and while a session is
  held, a cancel that is waited for is that session's (`InTime`, for the late reset).
  The user, the system and the number of sessions are as free as before, and so are the
  desktops otherwise. With one session and `~PeerDecides`, as `app_recording` has it,
  every run is timely (`OneSessionIsTimely`): there the five are theorems of `Spec`
  (`OneSessionKeepsAll`). The invariant adds four parts to `IInv`.
  *Calls* (`CallInv`): a call that is not answered is in the queue of an open session or
  parked there, and one that is answered is ready to go on.
  *The flow of a request* (`FlowInv`). `FlowState`: the request of a recording is the
  pending one, a pending request is of the session held, and a dialog shows it while
  nothing is recorded. `FlowTask`: what the station of a task says of these, such as that
  an upload that is sent is of the pending request, and that this request still pends
  while the answer to its dialog is posted. `FlowPair`: at most one task is on its way to
  record; no answer is posted while an upload is in hand; and a cancel comes before the
  recording that a later tap starts, in the event loop as in the queue of the session.
  This order makes it inductive, and a cancel that is late in another session would
  break it.
  *Shown* (`ShownInv`) is `RecordingShown` and, of a recorder in the background, that
  what stops it is posted; both are inductive once the flow is. The other half of
  `BackgroundCancels`, that no start is wanted there, holds of every run
  (`NoneEverWantedAway`). So does `CancelledStartsStaySo`: of all steps only the turn of
  a tap's task asks for a recording (`AskedInTurns`, `AskedByToggle`), and it outdates
  the tasks of earlier taps (`TicketTurn`).
  *The upload* (`UploadInv`): the upload of a session that is held and connected is
  recorded or has a keeper (`UploadKept`), a task that has just begun it, sends it or
  gives it up; a session that is not there has none (`Unborn`), nor has one that a scan
  is about to install (`Clean`).
  Most steps are *calm*: they go on, answer, forget or end, and keep the flow.

* **Recorder**, for every buffer limit, chunk size and number of frames
  (`RecorderAssumption`: they are natural numbers). `CompleteOrRefused` is far from
  inductive: it needs that a frame can only be missing if the mark is set. `IInv`
  adds who holds the lock (`LockOK`), that a set mark means that the stream does not
  call any more and no callback is half way (`StreamOK`), and, as long as the mark is
  not set, the count `sent + buffered + in the callback = captured` (`NothingLost`).
  That a refused callback leaves no hole follows from both: after the mark nothing
  is appended. Two lemmas carry the sequences, `TakesKeeps` for what is moved from
  the buffer to the upload and `AppendKeeps` for what the callback adds.

* **QR scan**, for any number of scans, any codes, peers, images and layouts, and any
  bounds (`ScansAssumption`, `OrientationAssumption`, `ImageAssumption`: an image has
  pixels; `LayoutsAssumption`: a layout is three whole numbers, zero or less included).
  `IInv` has three parts, on the types of what each is about.
  *The camera* (`CameraInv`): a thread that opens or looks holds the gate, objects
  are its holder's, images come only to a reader; `FirstPlace`, `OpensInOrder` and
  `ClosesInOrder` say that the next object to open or to free exists and is the
  code's. *The window* (`WindowInv`): `WindowFollowsScan` needs that a scan that has
  not begun holds no token (`NotBegun`), that nothing is scanned while connected
  (`NoScanConnected`), which connection belongs to which scan (`ConnOfScan`), and that
  a result is posted once, by the scan that waits for it (`ResultsOnce`). A step of a
  scan is then one of two moves: that of a live scan, which keeps the flags
  (`LiveScanMoves`), or that of a cancelled one, which must not touch them
  (`DeadScanMoves`). *The link* (`LinkInv`): what each end has written and accepted,
  with the code it was written under, so that a hello that reaches the scan can only
  come from the desktop whose code it read.

  `BoxIsDecoded` is about the operators alone: `AtLeastQuotient` takes the roundings of
  the crop to comparisons of products (`InSideExactly`), `SideOfBox` says that its side
  is never more than the box and no less when the box is in the view, and
  `SourceIsShown` and `ShownIsSource` that the two ways of turning a pixel undo each
  other. An image with even sides is its preview's (`Whole`). `CropInBox`, which holds
  of a box of any size, is then used by `OnlyShownIsRead`, an action property. It needs
  a second invariant, `ViewInv`, kept on top of `IInv`: the token of any scan but the
  last is set (`OthersCancelled`), a region is empty until its scan is registered and a
  posted preview is of a scan that was (`RegionAwaited`), and from then on, until the
  scan is given up or over, its region has the rotation on show and, once told, the
  layout (`RegionIsShown`). TLC found it kept in the instance of `pairing` and in one
  with two turns and two closures.

  `UriAlwaysReads` is about all links whose query is made of pairs, of any length and in
  any order. It assumes that the infos of the instance are valid (`ValidInfos`) and have
  those its links stand for, for `Meant` chooses among them; `FromUriReads`, the lemma it
  rests on, needs neither. The loop over the pairs is a recursive function, and
  `KnowsFirst` says what it knows after each turn. So it ends well exactly when each pair
  has a field of its own (`ReadsAll`). The query then holds as many pairs as it is long
  (`TakenOnce`); conversely, one that is as long as the pairs of an info are many, and
  holds just these, holds each once (`TakesWritten`). Both count, with the library's
  theorems about bijections of finite sets.

`[Next]_vars` preserves each invariant by one lemma per action or per group of
actions that disturb the same conjuncts; the last step of each theorem is `PTL`.

Only model-checked, and why:

* the liveness properties (`CallsAnswered`, `Delivered`, `ScanEnds`, `BusyEnds`,
  `PendingInputEnds`, `UnseenMicrophoneStops`, `OverflowNoticed`), which are out of the
  prover's reach.

Every invariant and every action property of a passing run is stated by a theorem. Two
kinds are so only under a condition on the run, which section 6 or the code shows to be
needed: the five invariants of `AppSession` in runs that are timely, and
`StrikesExplained` in sessions whose memory of retired requests forgets none. Nothing is
claimed of other runs.

## 5. What is only model-checked, and what is not modelled

Only model-checked is what section 4 ends with. Not modelled:

* the Noise cipher (external; frames that do not decrypt are `SocketEnds`, a handshake
  made under another code fails), JSON, hashes and audio conversion;
* how the reference peer's server is spawned and shut down, and the texts of its
  answers;
* in `AppSession`: texts and progress, pages, the question before a disconnect,
  `cancelled_requests` and the assistant's output, speech;
* in `QrScan`: which camera and which size of image are chosen, the colours of the
  preview, a rotation of the display that cannot be read (it counts as 0), and locks
  that are poisoned;
* opening an audio stream, its format, the conversion to PCM16;
* preferences, layout, build scripts, the preview tool and the vendored winit.

The plan, the most important first:

1. **`AppSession` over `SessionPromise`**: the calls of the application as requests of
   the promise, so that the reduced actor in it is shown to be one that keeps it;
   `cancelled_requests` and the output it filters (`lib.rs:664`).
2. **The choice of the camera** and of the size of its images, as operators.

## 6. Where documents and code differ

Each of these is a run that TLC finds violated, with the document's line in the
comment of its property:

* `late_progress`: progress or a decision of a request given up locally is a
  strike; `docs/ARCHITECTURE.md:37` says late responses are ignored without one.
* `dialog_over_recording`: the answer to a decision clears the busy flag while the
  upload still waits for its preview with the gate held; a tap on the microphone
  then waits at the gate, the preview opens the confirmation, and the recording
  starts behind it (`lib.rs:728` looks at everything else again).
  `docs/MOBILE-UI-MIGRATION.md:13` says a confirmation blocks the controls under it.
  From there the recording's request replaces the one the dialog shows, so that
  `RecordingIsPending`, `NoUploadAbandoned` and `AnswersWhatWasShown` do not hold
  when the desktop asks for decisions; `app_recording` checks them when it does not, and
  `AppSessionTimely` proves them.
* `stuck_close`: a write times out because the desktop reads no more
  (`remote_session.rs:788`), the loop breaks, and `socket.close(None)` (line 379) waits,
  without a deadline, to get the rest of the same buffer out. The deadlines of a kept
  preview or confirmation are looked at in the loop only, so its caller waits as long as
  the desktop likes; so do the commands left in the channel and the reader of
  `Disconnected`. `docs/ARCHITECTURE.md:34` and `35` give the preview 90 seconds and the
  confirmation 30. In the application the task that waits may hold `stream_gate`: the
  window then stays busy, and a microphone whose `begin_audio` waits there runs on
  unseen.

The models contain more such places, for which no run is kept:

* a cancel awaits its session and then resets the window without looking whether that
  session is still the current one (`lib.rs:687`). While the old session keeps it
  waiting (a write that stalls may take `SEND_TIMEOUT`) the user can disconnect, scan,
  connect and record; the reset then clears `voice_recording` while the recorder runs.
  `docs/ARCHITECTURE.md:29` says the elapsed time is displayed, and a later pause, which
  tests that same flag (`lib.rs:196`), cancels nothing, where
  `docs/MOBILE-UI-MIGRATION.md:17` says backgrounding cancels recording. TLC finds
  `RecordingShown` violated so with two sessions of one upload each, the inputs
  microphone, cancel and disconnect, and both permissions given;
* the microphone runs from `lib.rs:704`, before `begin_audio` is answered. A cancel or a
  pause meanwhile takes the start off the window at once, and so does the reset at the
  end of an earlier abort, but the microphone goes on until the answer comes
  (`lib.rs:728`); what the models show is that such a start never becomes a recording
  (`CancelledStartsStaySo`) and that its microphone stops (`UnseenMicrophoneStops`);
* with decisions and two uploads `BusyEnds` does not hold either, as a consequence of
  `dialog_over_recording`: the dialog's tap then confirms the request of the recording,
  `Confirmed` clears the pending request, and `finalize_recording`, which has set
  `is_busy`, finds nothing pending and returns (`lib.rs:839`, `859`); until the user
  cancels, the window stays busy;
* the preview of an image with an odd side drops the last column or row
  (`camera_frame.rs:36`), the crop does not (line 112): of 5 x 5 pixels the crop can be up
  to a pixel off the box on the screen;
* progress of the plan that is executing has no route and is a strike
  (`remote_session.rs:682`; `docs/ARCHITECTURE.md:22` says progress is routed by id);
* a decision not yet read is overwritten by the next event (`remote_session.rs:695`;
  `docs/REMOTE-PROTOCOL-V3.md:67` says its controls stay visible);
* a status that is not final answers the confirmation (`remote_session.rs:671`;
  `docs/REMOTE-PROTOCOL-V3.md:106` speaks of the final status);
* an empty upload is dropped by the client only, the next one finds the peer busy
  (`remote_session.rs:625`; `docs/REMOTE-PROTOCOL-V3.md:93` says one upload is active);
* `connect_session` subscribes after the session's task was spawned (`lib.rs:452`,
  `remote_session.rs:119`); an end in between counts as seen, and the window stays
  connected to a session that is gone (`docs/MOBILE-UI-MIGRATION.md:19` says a loss
  requires an explicit rescan);
* a decision that was shown and not answered outlives its request when that ends by
  itself, and the next dialog's answer goes to it (`lib.rs:739`;
  `docs/REMOTE-PROTOCOL-V3.md:69` says starting a recording clears it).
