# A verification of autoscrcpy

autoscrcpy is a scrcpy client for Windows: it speaks ADB by itself, starts
scrcpy-server on a phone, shows its screen, plays its sound, sends input back and
can be scripted in Scheme. This directory holds TLA+ models of it, the TLC runs
that check them on small instances and the theorems that hold for every instance.
Paths below are relative to `src/src/`.

```
cd tla
tlc -workers 2 -config shared_frame.cfg SharedFrame
tlapm ClientProofs.tla
```

`PROJECT.json` lists the components, the runs, the source lines each definition
stands for, a seeded fault for each property (a mutated definition the property must
catch), the hazards of the code with the properties aimed at them, and the theorems.

## 1. The system

Six threads: the **main** thread (window, rendering, script messages, start and
teardown), the **ADB reader** and the **control sender** (`device/server.c`), the
**video** and the **audio** thread (`pipeline/`), and the **script** thread
(`script/engine.c`).

```
 phone <== one TCP or TLS connection, ADB messages ==> ADB reader --socketpair--> video thread --mailbox--> main
           ^                                              |  \-----socketpair--> audio thread --> WASAPI      |
           |  (send_lock)                                 |                                                   |
           +---- control sender <---socketpair--- main <--+                    script thread <--three queues--+
```

| component | state | operations | with whom | hard behaviour |
|---|---|---|---|---|
| frame mailbox (`pipeline/pipeline.h`, `video_pipeline.c`) | one pointer, one flag, no lock | submit, acquire, destroy | video thread and main | interleaving of two atomic words; a wait that gives up |
| script queue (`script/message_queue.c`) | ring, critical section, semaphore | send, recv, try_recv, drain | script thread and main | count and semaphore change apart; full ring; `uint32_t` wrap |
| script engine (`script/`) | three queues, `running`, thread handle | start, stop, destroy, commands, queries, events | script thread and main | 5 s timeouts on both sides, late answers, early end of the thread |
| ADB session (`adb/session.c`, `adb.c`) | channel table, next id | open, close, handle message, shell, forward, push, disconnect | adbd, through one connection | reordered OPEN/OKAY/CLSE of several streams, retries that give up, fixed table |
| server and relay (`device/server.c`) | reader struct, socketpairs, channel ids | start, reader loop, sender loop, kill, destroy | reader, sender, main, adbd, scrcpy-server | three users of one connection and one lock, which two of them take and one of these not always; blocking relay; refused streams |
| ADB set-up (`adb/adb.c` connect, `protocol.c`, `tls.c`, `crypto.c`) | state, TLS context, retry counts | CNXN, STLS, AUTH, framing, poll, drain | adbd | messages that come in parts or too large, reads that end early behind TLS, seven failures with one exit |
| application (`app/application.c`) | everything above | init, run, destroy | all | order of teardown, partial initialization, sizes remembered in three places |
| audio pipeline, player, decoder (`pipeline/`, `decode/`, `audio/`) | running flag, codec, WASAPI client | set up, start, stop, thread loop | audio socketpair | starts though initialization failed; a sound card that stops |
| stream framing (`video_socket.c`, `audio_socket.c`, `demuxer.c`) | pending bytes | read packet | socketpairs | packets cut at any byte |
| window and rendering (`app/window.c`, `render/`, `input/input_transform.c`) | sizes, textures, render target | resize, render a frame, transform a touch | main | rotations, resizes and failed calls in any order |
| input (`control/`, `keycode_map.c`) | enabled, sizes | key and button handlers, serialize | window, control socket | Alt or the focus between key-down and key-up; a button released elsewhere |
| video decoder (`decode/video_decoder.c`) | codec, parser | init, decode | video thread | none of its own but what FFmpeg does |
| audio regulator, packet queue, frame buffer | ring, lock, condition | push, pull, pop, finish | nobody: not called, or not built | wrap-around; wake-ups |
| recorder, config, command line, REPL window, platform | library state | | main | none a model would reach |

What makes each correct: a frame has one owner and the last one is shown; the
semaphore counts the messages; answers reach the query that asked, no command is still on
its way when a later query is answered, and the engine stops whatever a script does; each
ADB message names the right stream by both ids and each WRTE is acknowledged once;
bytes of one stream reach that stream's reader whole, in order and never mixed; the
client's idea of which stream is video, audio and control is the server's; a handshake
acts on each message once and leaks nothing whichever way it ends; packets come out of a
stream as they went in; the device holds down the keys and buttons the hand does, and is
touched where the picture shows it; sound is heard in order, and what is not heard never
holds up the streams that share its connection. Several of these the code does not keep in
every case; section 5 lists where.

## 2. Modules

| module | models | state in the code | grain of a step |
|---|---|---|---|
| `LatestFrame` | abstract: a slot that holds the newest frame; it may be replaced, taken, lost only by being replaced | - | one operation |
| `SharedFrame` | mailbox, video thread loop, main's idle branch, capture query, shutdown | `shared_frame_t`, `video_pipeline_t`, `app->device_*`, what became of each frame's memory | each Interlocked operation, each free, each plain access |
| `MessageQueue` | abstract: a bounded FIFO | - | one operation |
| `ScriptQueue` | `script_msg_queue_t` with any senders and receivers | ring, head, tail, count, semaphore, each thread's place | one semaphore operation or one critical section |
| `AdbChannels` | the channel table as operators: what each message does to it and what is replied | `conn->channels` | - |
| `AdbSession` | one thread using a connection, adbd at its other end, a link that may break | table, next id, adb_push under way, both directions | one handled message, one call |
| `AdbRelay` | reader with the answers of session_handle_message, control sender, main during and after server_start, its wait for the audio metadata, server_kill, pipeline threads that read or have ended; scrcpy-server and adbd, which may ask for a stream, a signature or TLS of its own accord | table, `conn->state`, thread places, socketpairs, headers and payloads on the wire | one lock region, one send of a header or a payload, one field assignment where fields are read without a lock |
| `ScriptEngine` | start, stop, destroy, thread loop, commands up to the dispatch that has no callback for them, queries, answers with the tests of their size | three queues, `running`, thread, waits | one queue operation, one test, one wait |
| `ServerLifecycle` | server_start from the connection on, its cleanup, application_run around the main loop, server_destroy, application_destroy; the four threads as far as they block, look at their flag and use memory | the two `goto cleanup` outcomes, reader struct, connection, decoders, socketpair ends, handles waited for | one call of the main thread, one blocking call of another |
| `AdbHandshake` | `adb_connect` in the clear and behind TLS, the framing of ADB messages, session_poll and the drain loops of server_start as later readers, adb_disconnect | `conn->state`, retry counts, payload buffer, socket, TLS context, bytes on the wire | one piece received, one message acted on, one turn of the loop |
| `StreamFraming` | the three packet readers over a socketpair, with the twelve bytes server_start keeps pending | `pending`, the partial read, the packets returned | one `recv`, one header or payload completed |
| `Input` | key and button messages from WndProc through `on_key_event` and the controller to the serialized message, and the device obeying them | `ctrl->enabled` and sizes; what the hand and the device hold down | one window message with everything it causes |
| `Display` | sizes and textures: metadata, a frame of another size, WM_SIZE, a minimized window, each Direct3D call failing; the transform of touches | sizes in the controller and the renderer, textures, render target | one window message or one frame, to its end |
| `AudioPath` | set-up of decoder and player, the audio thread's loop, decoder, resampler, WASAPI buffer | `codec_ctx`, `swr_ctx`, the player's client, allocations of the loop, the sound card's padding | one library call of the loop |

`AdbHandshake` ends where `AdbSession` and `AdbRelay` begin, with a connection; it shows in
which cases their assumption holds that messages arrive whole. `StreamFraming` takes up
what `AdbRelay` puts into a socketpair, and `AudioPath` and `SharedFrame` what comes out of
it. `Input` assumes that every control message arrives: `ControlInOrder` of `AdbRelay` shows
only that those which do arrive come in order and none twice, and a message that is dropped on
the way (`device/server.c:115`) leaves a key or the finger as it was. Where a touch lands is
`Display`'s concern.

`AdbSession` and `AdbRelay` both EXTEND `AdbChannels`: the same handlers once under a
single thread with pushes and once under three threads with an unlocked table.
Eight modules hold the theorems. `ScriptQueueProofs`, `ScriptEngineProofs`,
`ServerLifecycleProofs`, `AdbSessionProofs`, `AdbRelayProofs`, `AdbHandshakeProofs` and
`StreamFramingProofs` each EXTEND the module they are named for and change nothing in it.
`ClientProofs` EXTENDS the four modules of the client that stand for themselves,
`SharedFrame`, `Input`, `AudioPath` and `Display`, which is why the last three name their
specifications `InputSpec`, `AudioSpec` and `DisplaySpec`; they share no variable and are not
composed.

`ServerLifecycle` leaves the traffic to `AdbRelay` (a message opens a channel, puts
data into a socketpair or does neither) and keeps what `AdbRelay` leaves out: failure
of each step, the waits with a limit, what is freed and closed, in which order.
`ScriptEngine` uses the queue as a bounded FIFO, which `ScriptQueue` is shown to
implement; the two together cover the queue's internals and its use. `SharedFrame` is
shown to implement `LatestFrame`. The MC modules only name constant values a cfg
cannot write.

Where the environment matters it is modelled by what the code assumes of it: adbd
numbers its streams itself, acknowledges each WRTE, sends a stream's next WRTE only
after the OKAY of the last, may close a stream at any time and refuse one until
scrcpy-server has taken its first connection. That it refuses none afterwards is an assumption
about adbd, on which `RolesAgree` rests; the code does nothing to ensure it. scrcpy-server
takes its connections in the order it gets them. FFmpeg yields a frame or none. What
a Scheme script computes is left open, it may issue any requests in any order.

## 3. Runs

| run | bounds | what it shows |
|---|---|---|
| `shared_frame` | 3 frames, 2 sizes, capture queries on | no frame is leaked, freed twice or used after it was freed (until main gives up waiting for the video thread after 3 s); none stays in the slot unannounced; at rest the last one published has been taken; the mailbox is a `LatestFrame` |
| `script_queue` | 2 senders, 2 receivers, 2 messages, 2 slots, counters modulo 8 | ring count and semaphore agree up to the calls under way; a receive never finds an empty ring, no signal is lost at the semaphore's maximum, drain included; the queue is a `MessageQueue`, with its fairness |
| `adb_session` | 3 entries in the table, 4 opens, 2 writes to a push | ids are never mixed up, also when an entry is reused, a push gives up before its OKAY, or both ends close; each WRTE of a live stream is acknowledged exactly once |
| `adb_relay` | five loads: 2 video and 1 audio payload with 2 control messages; 1 of each with 1 control message and 1 fault (a refused or closed stream, something adbd asks, a pipeline thread that ends, a broken link); 1 of each stream, the shell's too; 2 video, 1 audio and 2 device messages; 2 video and 3 audio payloads with a fault. Socketpairs of 1 payload; 1 foreign stream | what is relayed is neither lost, doubled nor reordered, what arrives of control messages neither doubled nor reordered; messages are whole until something is sent without `send_lock`; a refused or failed stream never shifts the others' roles; video is held up for good by nothing but the four things `HeldUp` names |
| `relay_misroute` (violation) | the same | shell output that comes before video's OKAY is relayed as video |
| `script_engine` | 2 kinds of query, queues of 2, 5 requests, 2 events | answers keep the order of the queries; one is stale only by as many as timed out, and without a timeout is turned into a value unless it is that of a capture; when a query has its own answer, what was issued before it has reached the main thread or was refused by a full queue; stop and query end; nobody is left when the queues are destroyed |
| `server_lifecycle` | 4 messages from the device, 1 control message | for every choice of audio and control and a start that fails at any step: nothing is freed under a thread that main has waited for; every socketpair end is closed, none twice, but for the exceptions below; the teardown ends whatever the device does, and so do the threads |
| `adb_handshake` | 3 turns of each loop, 4 messages of the device, 1 TLS record without data, payloads of each size the code tells apart | unless one of three named things happened (a receive that ended inside a message, a payload without room, session_poll finding no message) every message is acted on whole, once and in order; nothing is leaked on any of the seven exits; adb_connect returns or stands in a receive a silent device never ends |
| `stream_framing` | 3 packets, payloads of 0 to 2 pieces and of one size that is refused | for any splitting and any end of the stream each of the three readers returns the packets that were sent, with their own payloads; the audio thread, which alone calls its reader, gets all of them |
| `input` | 1 letter, the three shortcut keys, Alt, 2 buttons | the device holds the keys the hand does except those that changed under Alt or without the focus; its finger is down while one button is, unless the button changed outside the window or two were used at once |
| `display` | frames of 4x10, 10x4 and 4x6, windows up to 10x10, a screen of 13x11 | after any sequence of rotations, resizes and failures of Direct3D a touch lands where the picture on the screen shows it, up to rounding, unless the scale of the last frame could not be written or the frame not presented; frames are copied into textures of their own size unless the textures could not be created |
| `audio_path` | 4 packets of 0 to 2 frames, a codec that holds 2 frames, frames of 2 units in a sound buffer of 3 | whatever failed in the set-up and fails in the loop, sound is heard in order and none twice, and no decoded frame is missing as long as no call failed and the sound card had room; the thread crashes only without a codec or without a resampler; memory is given back; the socketpair is drained although the sound card has stopped |

Why the bounds are enough. Three frames are one shown, one in the slot and one being submitted,
the most the mailbox can tell apart, and two sizes make a change of size visible. Two senders
and two receivers over two slots give a full and an empty ring with a call of each kind under
way on both sides; the ring indices wrap after two messages. Three channels and four ids let an
entry be reused and leave a third party to be hit by a wrong lookup. In the relay every stream
sends, each socketpair can be full, and a foreign stream makes the device's ids differ from the
client's, without which a swapped pair of ids would go unnoticed; three audio payloads are one
in the socketpair, one in the reader's hands and one that waits behind it when the audio thread
is over. Two slots and five requests let a queue be full while a query times out twice and its
late answers meet the next one. Four messages from the device open video and audio and deliver
the metadata of both, so the life cycle is run with everything going. Four messages let the
device ask for TLS twice and for a signature before it accepts, or accept at once and leave
messages for the later readers; a message in four pieces and a reader that takes two can be out
of step by either. Two pieces of payload make a read end inside one, and three packets put one
before and one after a packet that is read wrongly. The three video sizes are a rotation and a
size that differs in one dimension only, which a comparison of the other would miss; windows
reach from 1x1 past the frames in either direction, and the screen is small enough to clip the
window of a rotated frame. A sound buffer of three units holds one frame and a half, so a frame
is cut, written whole, or finds no room. Every bound is a CONSTANT or a guard of the module it
bounds; when a bound is reached the actor simply does no more.

Three systems really may stop, and their runs set `CHECK_DEADLOCK FALSE`. In `AdbRelay`
the device may be done sending, and reader and sender block in recv for good, which is
what the code does until it is closed. In `ServerLifecycle` the program ends, and before
the window shows the main thread may wait for metadata that never comes. In
`StreamFraming` a reader waits for a packet the other end does not send.

The exceptions `FreedAlone` and `EndsClosed` state, because the code has them: a thread
that does not end within 3 s (2 s for audio) may find its memory freed; after a
successful start nobody waits for the control sender, which then uses the freed reader;
after a failed start `application_destroy` closes the read ends a second time, since
`video_sock.fd` and the others keep the closed value; after a successful one the write
ends of audio and control are left to the end of the process; and create_socketpair, when it
cannot make its second end, closes the first, which the cleanup of server_start closes again
from the same array. `ThreadsEnd` speaks of threads that end by themselves, not because the
process does.

`HandledInOrder`, `KeysInStep`, `TouchInStep`, `FramesFitUnlessFailed`, `TouchesWhatIsShown`,
`SoundAccounted`, `WholeIfLocked` and `VideoArrives` name their exceptions the same way: each
is something the code does (see section 5), kept in a variable of the model (`lost`, `astray`,
`slipped`, `mixed`, `failed`, `missed`, `faults`, `unlocked`, `ended`), and the property says
that there is no other. `SoundAccounted` does not follow frames one by one through the losses:
with a failed call or a full sound card it says only that what is heard is in order and not
repeated. `AudioPath` lets a packet give two frames, which no codec of scrcpy does: the decoder
fetches one for each packet, so the surplus stays, and what is claimed only without such
packets says so (`several`).

### Fairness

- `SharedFrame`: weak fairness on the steps of the two threads that are not waits for
  input, and on the idle branch: the scheduler runs a runnable thread, and PeekMessage
  runs dry again and again. The decoder owes no frame, the user need not quit. It is
  used by the liveness half of the refinement only.
- `ScriptQueue`: weak fairness on each thread's steps inside a call, on the receivers'
  polling (main loop and script thread call recv again and again) and on the end of a
  drain.
- `AdbRelay`: weak fairness on the reader, on the control sender, on the main thread once the
  audio metadata it waits for is there, and on the reads of the video and the audio thread,
  which are enabled only from `video_pipeline_start` (`app/application.c:184`) until the thread
  ends: a blocking `send` or `recv` returns once it can. Nothing is assumed of adbd, the
  network, the user, a socketpair that nobody reads, or the main thread's wait for metadata.
- `ServerLifecycle`: weak fairness on the main thread (its waits have a limit, except the two
  reads of metadata, whose steps are enabled only by data), on reader, sender and the two
  pipeline threads; `send`, also of the CLSEs that adb_disconnect sends for open channels
  (session_disconnect, `adb/session.c:281`), and a decode return. The device owes no message,
  the connection need not break, the user need not quit.
- `AdbHandshake`: weak fairness on `Host`, the steps of adb_connect once a select, a receive
  or the TLS handshake can return. Nothing is assumed of the device; `Starved` names the
  receives that then never return.
- `StreamFraming`: weak fairness on the reader of sound, which `audio_thread_func` calls until it
  fails. The other two have no caller in the program (`video_thread_func` calls recv itself), so
  nothing is assumed or claimed of their progress.
- `AudioPath`: weak fairness on the audio thread; none of its calls waits but the read of a
  packet. Neither the device nor the sound card owes anything.
- `Input` and `Display` state safety only: every handler runs to its end on the main thread.
- `ScriptEngine`: only that the two waits with a limit end: `WaitForSingleObject(5000)`
  in the stop and the 5 s of `query_sync`. Nothing is assumed of the main loop, which a
  modal window may hold, nor of Scheme code.

## 4. What is proved

Theorems hold for every value of the constants under the named ASSUMEs of the modules.
The ASSUMEs give the constants their types; beyond that they ask for a socketpair that
holds a payload, queues with a slot, at least one turn of a loop, disjoint sets of
threads, `Modulus > Capacity` in `ScriptQueue` (with a modulus no larger, count
would wrap), frames, window and screen with sides of at least 1 in `Display`, and in `Input`
letters whose keycodes are not those of the shortcuts or of Alt+P, as in
`vk_to_android_keycode`. A property in parentheses is the one of the run.

| theorem | states |
|---|---|
| `ClientProofs!TypeCorrectness`, `FrameOwnership` (`Ownership`), `NothingStranded` (`NotStranded`), `Delivery` (`LastFrameDelivered`) | types; every live frame has one owner and freed ones none; a frame in the slot with the flag down is about to be announced or taken; at rest the last frame has been taken |
| `ClientProofs!Refinement`, `ScriptQueueProofs!Refinement` | each step of the mailbox is a `LatestFrame` step or a stutter; each step of the ring is a step of `MessageQueue` or a stutter |
| `ScriptQueueProofs!TypeCorrectness`, `SemaphoreCounts` (`SemaphoreCountsMessages`) | count stays in 0..Capacity; the semaphore counts the messages up to the calls under way |
| `ScriptEngineProofs!TypeCorrectness`, `DestroyedAlone` (`NoUseAfterDestroy`), `Barrier` (`QueryIsBarrier`), `Freshness` (`StaleOnlyByTimeout`) | types and queue lengths; no thread is left when the queues are destroyed; when a query has got its own answer every earlier request has been in the main thread's hands or was refused by a full queue; answers keep the order of the queries and are stale only by as many as timed out |
| `ServerLifecycleProofs!TypeCorrectness`, `NothingFreedInUse` (`FreedAlone`), `EveryEndClosed` (`EndsClosed`) | types; nothing is freed under a thread that was waited for; ends of socketpairs are closed once but for the exceptions of section 3 |
| `AdbSessionProofs!TypeCorrectness`, `Routing` (`RoutedRight`), `Addressing` (`AddressedRight`), `Acknowledgement` (`AckedOnce`) | bounds of the table; a channel has the id of its own stream or none; messages name streams by both ids; each WRTE of a live stream is acknowledged exactly once |
| `AdbRelayProofs!TypeCorrectness`, `Addressing`, `Acknowledgement` | the same of three threads with an unlocked table |
| `AdbRelayProofs!Wholeness` (`WholeIfLocked`), `RolesAgreement` (`RolesAgree`), `ControlOrder` (`ControlInOrder`), `RelayOrder` (`RelayedInOrder`) | no message is torn until server_kill or an answer to an OPEN, AUTH or STLS is sent without the lock; both sides agree on the roles; control messages arrive in order, none twice; so does what is relayed of each stream, without a gap |
| `AdbHandshakeProofs!NothingLeft` (`HeldAtReturn`), `Messages` (`HandledInOrder`) | nothing outlives a failure of adb_connect; messages are acted on whole, once and in order unless one of the named losses happened |
| `StreamFramingProofs!Packetized` (`PacketsAsSent`) | packets come out of a stream as they went in, however it is split or cut |
| `ClientProofs!KeysFollow` (`KeysInStep`), `TouchFollows` (`TouchInStep`) | the device holds down the keys the hand does, but for those that changed unseen; its finger follows the buttons unless one changed outside the window or two were down at once |
| `ClientProofs!SoundKept` (`SoundAccounted`) | sound is heard in order and none of it twice; without a failed call or a full sound card each decoded frame is heard, in the codec or in hand; the audio thread frees what it allocates and crashes only without a codec or a resampler |
| `ClientProofs!FramesFit` (`FramesFitUnlessFailed`), `TouchesMeet` (`TouchesWhatIsShown`) | frames are copied into textures of their own size; a touch lands where the picture shows it, up to a pixel of the window and one of the device, for every size of video, window and screen, unless the last frame lacked its scale or was not presented |

Each argument is an inductive invariant; TLC checked each of them on the instance of its
run before it was proved. What it adds to the property, and why:

**SharedFrame.** Ownership alone is not inductive: that a frame just swapped out is
live follows only from where each thread is and from the order in which frames were
decoded. `IInv` adds `Places` (which places can hold a frame at which point of each
thread) and `Order` (taken, in the slot and being submitted are numbered in that
order). `Delivered` says of an empty slot at any time what `LastFrameDelivered` says
only at rest: what was published was seen.

**ScriptQueue.** The invariant is an equation with cardinalities: messages in the ring =
semaphore + senders between ring and signal + receivers between wait and ring.
Each step moves one thread from one set of places to another, so the lemma `Move`
states once what that does to two cardinalities. The refinement also needs that `tail`
is `head + count` modulo the capacity (`RingInv`), so that storing a message appends it
to the sequence read from `head` on and taking one removes its head.

**ScriptEngine.** The barrier rests on an order of requests: what was answered and what
waits in `response_q` is older than everything the main thread has not yet seen, which
is itself in the order it was issued. The property alone says nothing about answers
that wait and so is not inductive. `Accounted` says where every request is: handled, refused, or
still in `to_main`; with the order, an answer then finds all earlier ones handled or refused
(`Covered`). A termination while the script thread is at work is one step: the proofs take
`TerminateThread` as done when it returns, though the call is asynchronous and the code waits
for nothing after it. `DestroyedAlone` needs to know that a thread exists
only between start and the end of stop (`ThreadBound`), including that `running` may
stay TRUE after the thread ended. `Freshness` counts: the queries under way are never
more than those that timed out and the one that waits (`FewUnderWay`), and answers given
and waiting lie in one increasing line (`Increasing`); the count of queries in a queue
is followed by the lemmas on `Queries`.

**ServerLifecycle.** What main may free depends on where it came from. `Waited` says which
threads have ended or been given up at which place of the main thread, `FreedLate` which place
it must have passed to have freed something, `PairsMade` which socketpairs there are, and which
one was left with a single end (`half`), and `ClosedSoFar` how often each end has been closed
at each stage of the teardown, after a start that succeeded and after one that failed.

**AdbSession.** Routing and addressing are inductive with what the messages on their way
say: an OKAY or a WRTE of the device names a stream together with its channel
(`NamedRight`), and a push writes only once it knows the id (`PushKnown`). That a WRTE
is acknowledged needs two facts more: no channel gets two streams, because each OPEN on
the wire carries a local id that no stream and no other OPEN has (`OneStreamEach`), and
the OKAY that tells a stream's id comes before the data of that stream (`ToldFirst`).

**AdbRelay.** `Inv` is the same for three threads: it adds the frame in the hands of
reader and sender, the answers of session_handle_message among them (`ReplyRight`), what the
sender may have read of the table, and that a header sent without the lock has set `unlocked`
before its payload follows (`HeaderUnlocked`). On it rest, one on
the other:
- `Mended`: payloads follow their headers, and the only header without its payload is
  last on the wire and the sender's, who holds `send_lock`. It holds until a message is sent
  without the lock (`unlocked`), which server_kill does and the reader when it answers an OPEN,
  an AUTH or an STLS; nothing is claimed of whole messages from then on.
- `Roled`: OPENs on the wire ascend and are later than all accepted ones
  (`OpensInOrder`); each stream's role tells its channel (`RolesRight`); audio is not
  skipped between video and control, because nothing is refused once scrcpy-server has
  accepted video (`NoneSkipped`).
- `ControlHeld` and `ControlSent`: control messages lie in order in the socketpair, the
  sender's hands and on the wire, and what scrcpy-server obeyed is before all of them.
- `Placed`: each channel has one stream, and the OKAY of an accepted stream is handled,
  in the reader's hands, or on its way before any data of that stream or of a later one
  (`AllTold`). So the reader, which takes a WRTE for video's until it knows better, never
  sends the data of one of the three streams elsewhere (what the shell writes may go to
  video, as the run `relay_misroute` shows). `Relayed` then follows the trail of a stream,
  which is consumer, socketpair, reader and wire in one sequence, through each step.

**AdbHandshake.** `Holdings` is what adb_connect holds at each place; `HeldAtReturn` is its
last line. For the order of messages `InStep` says, as long as nothing was lost, that the
pieces on the wire follow each other when records without data are skipped
(`Consecutive`), that what was read is the beginning of the message due (`Begun`), that the
wire goes on where the reader stopped (`Resumes`) and ends where the device did
(`AllSent`, without which the next piece sent could not be placed).

**StreamFraming.** One `recv` takes any number of pieces, so the invariant relates any two
pieces of the stream and not only neighbours: `Apart` says what y is when it comes d pieces
after x, unless a packet boundary is passed on the way. With it the bytes in hand are
the beginning of the header or payload due (`Reading`), also when server_start keeps
the first two in `pending` (`Kept`), and the stream goes on behind them (`GoesOn`).

**Input.** What the device holds down and what the hand does agree only for keys that have
a keycode and while the window is enabled, which `MappedHeld` adds; the lemma `Obeyed` says
what the at most two messages of a key leave held. For the finger, `OneButton` says what
`mixed` stands for: while it is FALSE no two buttons are down.

**AudioPath.** The numbers of packets lie in one line (`AudioOrder`): those heard, the one in
hand, those in the codec, the one to be decoded, those in the socket. The line is strict and
the codec empty between two packets as long as none gave several frames. `AudioSum` counts
where each frame is as long as nothing spoilt one, `AudioPlaces` says what is allocated where
the thread stands; that it runs only after the set-up is why a codec that is missing stays
missing.

**Display.** `FrameInv`: what is remembered as the video's size is the size of all four
textures, unless they could not be created. `WindowInv`: once the window is shown and while
it is visible, controller and renderer remember its size, and a picture whose scale was
written and that was presented is of the size the controller knows for the device, at the scale
of the renderer's sizes; a rotation, a resize and a failure each change these
together. Then it is arithmetic. The lemma `Near` bounds one axis of a touch: with the
picture covering `s1 / s2` pixels, of which the code takes `r`, truncated, all quantities are
multiplied by `s2` and the cases are whether the pointer is before, on or behind the picture.
The division by a render size of 0 has no value to speak of and is left out (`Positions`).

Only model-checked:
- Everything that must eventually happen: `StopEnds`, `QueryReturns`, `VideoArrives`,
  `ShutdownEnds`, `ThreadsEnd`, `ConnectEnds`, `AllRead`, `SocketDrained` and the
  fairness halves of `FifoSpec` and `MailboxSpec`. Liveness under fairness and ENABLED
  are beyond the prover.

Every safety property of a run that passes is proved.

## 5. Findings

Places where the code and what the repository says of it part, or where the code cannot do
what it is meant to. `PROJECT.json` quotes the lines. The fourth has a run of its own whose
counterexample shows it; the others are steps of a model, and the property that would
otherwise be broken names them as its exception, or they were met while reading.

1. `script/bindings.c:47`: an answer that comes after the timeout goes to the next query
   (`StaleOnlyByTimeout`).
2. `app/application.c:412`: capturing a frame keeps it from being rendered
   (`LastFrameDelivered` speaks of the frame taken, not of the one shown).
3. `adb/session.c:265`: CLSE is matched by the device's id against local ids (`OnClse` of
   `AdbChannels`).
4. `device/server.c:140`: the first WRTE names the video channel, whoever sent it: run
   `relay_misroute`.
5. `device/server.c:654`: server_kill writes to the connection without `send_lock`, and so does
   the reader when session_handle_message answers an OPEN, an AUTH or an STLS (`:181`;
   `WholeIfLocked`).
6. `app/application.c:134`: audio is taken to be available whenever it was asked for;
   without its channel the program waits for good before its window shows.
7. `adb/protocol.c:163`: a receive behind TLS that would have to wait forgets what it has
   and reports a message (`HandledInOrder`, "cut" and "stale").
8. `adb/tls.c:185`: the read timeout that is set is never used (`Starved`).
9. `decode/audio_decoder.c:95`: a decoder that did not open is used all the same
   (`SendToNothing`); `:134`: the fallback copy without a resampler reads past a planar frame
   (`CopyOverruns`).
10. `render/video_renderer.c:134`: after textures could not be created the old size is still
    remembered (`FramesFitUnlessFailed`).
11. `app/application.c:366`: a resized window is not drawn until the next frame (`picture` of
    `Display` is then unknown); `render/video_renderer.c:282`: a failed Map of the constant buffer
    is ignored and the frame drawn with the old scale, and a failed Present leaves the old
    picture; until the next frame touches miss what is shown (`missed` of `Display`).
12. `control/control_msg.c:51`: the action of BACK_OR_SCREEN_ON is not serialized
    (`BackOrScreenOn` of `Input`); `control/controller.c:53`: Alt+P repeats while held;
    `app/window.c:65`: the wheel's screen coordinates are taken for the window's.
13. `device/demuxer.c:54`, `pipeline/video_pipeline.c:11`, `device/device_msg.c:22`: the wrong
    bit for a session packet, pending bytes that nobody reads, and a length that the
    round trip of a clipboard message leaves in its text. The first and last have no caller.
14. `app/application.c:258`: the callbacks of all ten commands are NULL, so that no command of a
    script is ever carried out; the model ends a command where it is taken off the queue
    (`MainProcesses`), and `QueryIsBarrier` speaks of that.
15. `script/bindings.c:395`: a frame does not fit into a message, so a capture query always ends
    in `#f` (`Captures`).

Four more are part of what `VideoArrives` states, as `HeldUp`:

- The reader relays device messages (clipboard) into a socketpair that nothing in the program
  reads (`control_socket_recv_msg` has no caller). Once it is full the reader blocks in `send`
  (`device/server.c:159`) and every stream stops.
- The main thread waits for the audio metadata without a limit (`app/application.c:135`) before
  it starts the video thread (`:184`): until it comes nobody reads video.
- A pipeline thread that has ended reads no more, and data for it blocks the reader the same way
  once its socketpair is full.
- An STLS makes the reader begin a TLS handshake, from where on the model does not follow it.

## 6. Not modelled, and why

- Keys, certificates, RSA, the contents of TLS records: library code that succeeds or fails.
  What `AdbHandshake` keeps of TLS is that a read may end early.
- FFmpeg, WASAPI, Direct3D: external; they only appear as the outcomes the code
  distinguishes. The Direct3D objects that never change, shaders and window styles are left
  out of `Display`. Of the video decoder only its outcome is modelled.
- Byte layout of control messages; device messages, which nothing reads; mouse wheel and
  clipboard input: single messages without state.
- Text parsing (config, command line): sequential, no state beyond the result.
- Recorder and muxer: not called, the state is libavformat's. Audio regulator, packet queue
  and frame buffer: not called or not built, so there is no use to be faithful to.
- The REPL window: a text box whose lines no other component reads.
- What a terminated thread leaves locked in the C runtime, and that it may run on for a moment
  after `TerminateThread` returned.
- A `send` to the device that never returns because the network takes nothing more: it has no
  limit (`adb/protocol.c:44`), and no thread of the program would get past it. Every claim of
  progress assumes that it returns.
- In `AdbRelay` a start without audio or without control (`ServerLifecycle` has every choice),
  the channel the push has used, and what happens after the device asked for TLS in the middle
  of a session.
- `--no-video`: `server_start` opens a video channel and reads video metadata all the same
  (`device/server.c:409`, `:526`), while scrcpy-server, told `video=false`, takes the first
  connection for audio. Every role is then off by one whatever the timing, which needs no
  model to see; both server modules start with video wanted.
- An allocation that fails in application_init.
- Waits are not timed: one that has a limit may end at any moment it could, which
  includes every real timing.

## 7. What is left

The parts with state of their own are modelled and their safety properties proved. Left are:

1. the refinements' liveness halves and the eight properties of progress, which stay with TLC;
2. `--no-video` in the two server modules, with roles that are off by one from the start;
3. the relay of device messages, once something in the program reads them;
4. `AdbRelay` behind TLS, where a handshake may also begin in the middle of a session;
5. the audio regulator, the packet queue and the recorder, once the program calls them.
