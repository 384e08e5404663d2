# A TLA+ development of chan_discord

chan_discord is an Asterisk channel driver, written in Rust, that places calls
into Discord voice channels. These modules model its concurrent core: how calls
get a Discord server to themselves, how one call lives and ends across three
kinds of threads, how its voice task talks to Discord, what becomes of calls when
the module is unloaded, and the packets their audio travels in. TLC checks small
instances; TLAPS proves their safety properties and refinements for every value
of the constants.

## Inventory

Threads: Asterisk's own, which run the callbacks of the channel technology and
block on the answer to a request; the *Discord worker thread*, a single-threaded
tokio runtime on which every task below runs; and the *queue thread*, which
queues audio frames on channels.

| Component (source) | State | Operations | Talks to | What is hard |
|---|---|---|---|---|
| Registry, dispatcher, main loop (`discord/mod.rs`, `thread.rs`) | map from server to event sender, async mutex | `exclusive_server_events`, `handle_event`, `PrepareCall`, `Stop` | every call | old and new calls on one server, a send with the mutex held |
| Voice gateway connection (`voice_gateway.rs`) | web socket, two bounded channels, heartbeat | `socket_task`, `send`, `close`, `next_event` | voice task, voice server | full channels in both directions, ends of either side |
| Voice task (`voice_task.rs`) | `VoiceTaskState`, connect info, request and event channels | `run`, `wait_for_event`, `handle_event`, `close` | call worker, gateway, global gateway | awaits in handlers, order of the protocol, how it ends |
| Call worker (`call.rs`) | its `VoiceTaskState`, mixer, requests | `run`, `handle_request`, `handle_call_event` | callbacks, voice task, queue thread | who ends first, channel locks |
| Channel technology, queue thread (`channel_tech.rs`, `queue_thread.rs`) | `tech_pvt`, the lock, the queue | `requester`, `call`, `write`, `hangup`, `fixup` | worker, Asterisk | blocking with the lock held |
| Request channel (`request_channel.rs`) | queue of requests with one-shot answers | `request`, `request_blocking` | all of the above | dropped requests |
| RtpReceiver, jitter buffer (`rtp_receiver.rs`, `jitterbuffer.rs`) | participants, cached next frame time | `handle_packet`, `fetch_packet`, `map_user_id`, `unmap_user_id` | worker | a stale cached time, wrapping timestamps, frames of different lengths |
| Voice data channel, encryption (`rtp.rs`, `crypto.rs`, `utils/rtp.rs`) | key, counters | `connect`, `send_voice`, `receive_packet` | voice task | packet layout, nonces |
| Module lifecycle (`lib.rs`) | `WORKER` under its lock, `QUEUE_THREAD`, logger | load, unload, `with_worker` | Asterisk, Discord thread | unloading with calls and requesters under way, loading again |
| Connect info (`WaitForConnectInfo` of `voice_task.rs`) | fields of two updates | `apply`, `start_gateway` | dispatcher, Discord | updates in any order, about other users, for an earlier call |
| `Ao2` and wrappers (`astobj2.rs`, ...) | reference counts, locks | clone, drop, lock | all | ownership across C and Rust |

What makes each correct: the registry gives a server to one call at a time and
routes its events there; the gateway connection keeps commands in order and
never outlives its task; the voice task takes back every join and answers every
request; the worker tells Asterisk about every end it did not ask for; callbacks
return; a request ends with an answer or an error; a channel is destroyed when
its last owner lets go; unloading comes to an end; a packet opens to the frame it
was made from. `PROJECT.json` lists the hazards behind these, line by line.

## Modules

`ServerRegistry` - the Discord worker thread seen by many calls. `channels` is
`DiscordInner::channels`, `rx[c]` says who holds the receiver handed out by
`exclusive_server_events` (worker, voice task, or nobody), `sending` is the call
the dispatcher awaits room for with the mutex held. Code between two awaits is
one action: the runtime has one thread. `Stop` is unloading.
`ExclusiveServer` is its abstract specification: servers have owners, a request
is refused only while there is one. `MCServerRegistry` instantiates it,
`ServerRegistryProofs` proves it.

`VoiceGateway` - `GatewayConnection` and its socket task, one action per branch
of its `select!`; `gwOut` is an event that waits for room. The voice server is
external: it greets once, accepts one identification and one selection, and may
send any `Chatter` or hang up. Its actions are the `Peer...` operators.

`VoiceTask` (extends `VoiceGateway`) - `VoiceTaskRunner`: one action per branch
of `wait_for_event` together with its handler. `tpc` tells where the runner is:
in its loop ("select"), in UDP discovery ("connecting"), waiting for room in its
events channel ("emit") or on its way out. The steps of `VoiceTaskHandle` are
free here, so that the module says what the task does under any owner. The end of
the global events (`recv()` gives `None`) is the one branch that is no action: the
registry keeps their sender while the call listens (`RoutedWhileOpen`).

`AsteriskChannel` - the channel's lock, what has been queued on the channel, and
the queue thread. `CallWorker` (extends it and `VoiceTask`) - `CallWorker::run`,
one action per branch and per await that can wait. "answering" and "hangingUp"
are the two places where the worker stops the whole thread for the lock.

`DiscordCall` - the composition: each callback is an action that takes the lock
and sends the request and one that takes the answer and lets go of the lock.
`CallPromise` is its abstract specification: seat, answer, audio and end of a
call in the order Asterisk and Discord may rely on, and `DiscordCall` implements
it (`KeepsPromise`). What the task does in `DiscordCall` are the actions of
`VoiceTask` themselves, with what the call adds to them as further conjuncts.

`RtpReceiver` - the participants, their jitter buffers and the cached time of the
next frame, against `mixed_packet` of the worker, which sleeps until that time
(`mixer = "sleep"`) or for good (`"pending"`). Every other branch of the worker's
`select!` starts it afresh, which is the conjunct `Restarts`. Due times are
relative: `Tick` counts them down, and 0 is now or any time before. The buffers
are Asterisk's: what is modelled is the order of frames, capacity and return
codes. "overflow" and "outOfBounds" are panics. A frame goes behind all that are
not due after it (`Queued`), and `Scheduled` is what that does to the cached time.

`AsteriskObject` and `RequestChannel` are building blocks without a `Next` of
their own: references and locks of `Ao2`, and request channels with one-shot
answers. `RemoteCall` is the abstract specification of the latter: a call ends
with an answer, or with an error if the server is gone, and nobody stays pending
at a server that is gone. A request that is sent and never answered is a notice
there: `FixUp`, which a live worker takes and drops. `ModuleLifecycle`
instantiates both and composes them into the module as Asterisk sees it:
`load_module` and `unload_module` step by step with the `RwLock` in `WORKER`,
`requester`, the main loop of the Discord thread, and calls reduced to what they
own (references, locks, requests). It implements `RemoteCall`
(`RequestsAreCalls`). A callback has one request under way, so `Callback(c)`
stands for whichever of the four kinds the callback sends. In a masquerade the
old and the new channel are one channel of the model, the one that has the call;
after `fixup` it runs no more callbacks (`fixedUp`), as the handle they would use
is freed (`DiscordCall`'s subject), and its worker ends. `SetupDone` has both
outcomes of `WORKER.set`; that it never fails is part of the invariant
(`Phases`).

`ConnectInfo` - calls on one server one after the other, and the two kinds of
updates each waits for. Unlike `VoiceTask`, which only knows which fields of the
connect info are set, it keeps whose session and which call's token they hold.
Discord is external: it answers intents in order, with its updates in either
order, may give up a voice server, and reports what other users do.

`VoicePackets` - a packet is a sequence of cells (header, tag, voice, nonce) and
the cipher is symbolic: a cell opens under its key and nonce and nothing else.
`EncryptPacket`, `DecryptPacket`, `ReceivePacket` and `SkipOverExtensions` are
operators; the actions are `set_key`, `write_frame` and `send_voice` on one
reused buffer with wrapping counters.

Definitions called `Bug...` are mutations of the definition that follows them,
each a plausible mistake at that place; no specification uses them. `PROJECT.json`
says which property each of them breaks.

## Abstractions

* Payloads, encoders and addresses are left out; a decryption or socket error
  is a choice of the environment. In `VoiceTask`, `info` keeps which fields of
  the connect info are set, not their values.
* The mixer in `CallWorker` only knows whether it holds audio and may deliver
  whenever it does; `DueFramesTaken` of `RtpReceiver` is all it promises, so the
  liveness properties of calls assume nothing of it. That
  mixing does not panic is assumed there, though it may (`MixStaysInBounds`).
* In `ModuleLifecycle` an answer and what the answering task drops right after
  it are one step; the counts are atomic, so only the thread that destroys the
  channel differs. `Remap` is the loader: the statics start anew once the library
  was unmapped, which the queue thread prevents for good after the first call.
  A new reader of `WORKER` waits for a writer that waits, as in Rust's `RwLock`.
* In `VoicePackets` random nonces are distinct, Discord gives out a key once,
  and the random start of counters is right before they wrap. Received packets
  have no contributing sources and fit the buffer; they may be cut, sealed with
  another key, or name more extension entries than they have.
* In `RtpReceiver` a packet is the frame it decodes to. A buffer drops a packet
  or a frame when it likes, and asks for interpolation when it likes, but not for
  ever. A frame that comes late is due at once.
* A leave that cannot be sent counts as announced: without a session on the
  global gateway the bot has no voice state.
* A callback on a freed `CallHandle` is undefined behaviour; the model stops
  following the channel there, after finding it (`FixupKeepsHandle`).
* `ServerRegistry` and `VoiceTask` meet at the events channel: `GlobalArrives`
  delivers while the task's receiver lives, which `RoutedWhileOpen` proves of the
  registry, and the registry's `Join`, `Stall`, `Take` and `Leave` are the voice
  task's use of it.

## Runs

| Run | Instance | Shows |
|---|---|---|
| `registry` | two calls on one server, one on another, event channels of 2 | `OneCallPerServer`, `RoutedWhileOpen`, `JoinedWhileOpen`, `OnlyOwnLeave`, `PrepareAnswered`; implements `ExclusiveServer` |
| `task` | all kinds of messages; socket events, task events and global events 1 each | `LeaveFollowsJoin`, `CommandsNeverBlock`, `FullyConnectedMeansListening`, `CommandsInOrder`, `RequestsServed`, `SocketEndNoticed` |
| `call_safety` | a whole call with one kind of chatter, all channels 1, one audio frame queued | `HangupMeansLeft`, `AudioOnlyAfterAnswer`, `RemoteEndQueuesHangup`, `NoTaskWithoutWorker`; implements `CallPromise` |
| `call_live` | a whole call without chatter and queued audio | `CallbackReturns`, `ReleasedCallEnds`, `EndIsReported` |
| `rtp_receiver` | two users, two sources, buffers of 2, due times up to 2, frames of two lengths | `UsersHaveParticipants`, `CacheIsAFrame`, `DueFramesTaken` |
| `lifecycle` | two channels, two frames in the queue thread, loads and calls without a bound | `OwnersMatch`, `ServedWhileLoaded`, `NoRequesterDropped`, `UnloadReturns`, `ChannelsAreFreed`; implements `RemoteCall` |
| `connect_info` | two calls in a row, two updates about others, two voice servers | `StaleOnlyInFlight`, `WaitingEnds`; endpoint and token are of one server (in `TypeOK`) |
| `voice_packets` | four frames of up to three cells, two keys, all modes; 360 kinds of received packets | `SentIsReadable`, `NoncesRepeatLate`, `ReceivedIsSent` |
| `lock_cycle` | as `call_safety` | finds the Discord thread waiting for a lock held for a request to it |
| `fixup_frees_handle` | as `call_safety` | finds `fixup` freeing the handle the channel keeps |
| `mix_out_of_bounds` | as `rtp_receiver` | finds frames of two lengths mixed beyond the shorter one's end |
| `connect_identity` | as `connect_info` | finds a call identifying with another user's session or an earlier call's token |

No run checks for deadlock: a call ends, a module is unloaded and a
panic stops the worker for good.

Bounds. Three calls on two servers are the least that has an old and a new call
on one server and a third party held up by them. Channels of one or two slots
fill up at once, so all the back-pressure of the real capacities (32 and 8)
appears, and more often. With one slot for socket events two are under way, the
second waiting for room. `GwCmdCap = 3` stands for 8: `CommandsNeverBlock` checks
that no more than three commands ever wait, so `Command` needs no waiting.
`QueueBound` bounds the unbounded channel of the queue thread. `call_live` keeps
it at 0, as the audio in it has no influence on who waits for whom but for the
lock's short holders. In `RtpReceiver` two users and two sources are the least
with which a source changes hands; buffers of two frames have one due and one
not, and two ticks have a frame that is due before and after the cached one.
`task` leaves out the two kinds of global events that only `ConnectInfo` tells
apart from others. In `lifecycle` two channels are the least with which one
call's frame waits behind another call and one requester holds up the unloading
for another; a channel that was destroyed comes back, so the number of calls has
no bound. Loads may repeat until the first call: from then on the queue thread
keeps the library mapped and, as the model shows, the module cannot be loaded
again. In `connect_info` two calls have a predecessor, and two updates about
others a join and a leave. In `voice_packets` sequence numbers count modulo 2,
timestamps modulo 6 in steps of 4 and the counter modulo 3, so that four frames
are enough to bring nonces back in both modes: timestamps after 3 frames, and
after 2 packets and a frame that was not sent with the same sequence number.

## Fairness

The runtime polls every task that was woken and `select!` polls its branches in
random order, so a branch that is enabled again and again is taken: strong
fairness of the branches, weak fairness of steps that stay enabled. A mutex with
waiters is passed on in order, and an Asterisk lock that is released again and
again is got. In `VoiceTask` the strongly fair branches are those of requests and
of the voice gateway. In `RtpReceiver` time passes while the worker waits, but
nothing makes any other branch of its `select!` ready. In the registry nothing
makes Asterisk place a call it requested, so the receiver of a prepared call may
stay with a worker that polls it never. In `ModuleLifecycle` nothing makes a
worker or the registry answer; in `ConnectInfo` the dispatcher is polled and
Discord answers its intents, which is what the bot waits for. Nothing is assumed
about the network (the socket's connection, messages, the answer to UDP
discovery), about the next callback, or about global events. The liveness
properties therefore name the waits nothing ends:

* `Discovering`: a lost UDP discovery answer, there is no timeout;
* `Backpressure`: the worker awaits the runner, which awaits room in the
  channel the worker drains;
* `LockCycle`: the Discord thread waits for a lock held by a callback that waits
  for the Discord thread;
* `DispatcherStuck` in the registry: the dispatcher waits, with the mutex, for room
  at a voice task that stalls, or at a call that was prepared and is never placed and
  whose slots (32) filled up; in `ModuleLifecycle` (`Preparing`) it is the unloading
  that waits for it in turn;
* `MixerStalled` in `RtpReceiver`: the mixer pends, perhaps with due frames queued;
* `Waiting` in `VoiceTask`: discovery or room, during which the runner serves no
  request and does not notice that its socket task ended (`SocketEndNoticed`);
* the queue thread, which waits for the lock of one channel with other calls'
  frames behind (`ChannelsAreFreed`);
* `overrun`: another user's leave that takes the bot's channel out of the connect
  info (`WaitingEnds`).

## Findings

`NoLockCycle` is what a comment in `queue_thread.rs` promises, and `queue_control`
and `queue_hangup` in `call.rs` break: they are called on the Discord thread,
although `ChannelWriteKind` has variants for them. `FixupKeepsHandle` is what
`fixup` needs by its own comment: `Box::from_raw` frees the handle, the channel
keeps the pointer, and the call ends. `MixStaysInBounds` fails in the mixer: the
mixed frame is as long as the shortest one but indexed by all. `IdentifiesAsTold`
fails as `apply` looks at no user and at no intent: somebody who joins a voice
channel of the server between the bot's two updates lends it their session.

Not a run of its own: `fetch_packet` reports `NoneQueued` also when it only found
nothing to take now, since the cached time outlives its frame. The branch then
pends, with frames queued, until something else wakes the worker: a packet, a
callback, an event of the voice task. If nothing does, the audio stays where it
is; `DueFramesTaken` has that stall (`MixerStalled`) as its exception and shows
there is no other. No text of the program denies it. Unloading sends no leave and
queues no hangup for running calls; `ServedWhileLoaded` and `RequestsAreCalls`
say what it does guarantee.

## Proofs

Each component has a module `...Proofs` that extends it. Together they state, for
every value of the constants, every invariant, action property and refinement
that a passing run checks; what is left to TLC alone is at the end of this section.

The assumptions are the `ASSUME`s of the components: sets that are disjoint where
the code has `Option` or an enum, capacities that are positive, and two that say
more. `GatewayAssumption` wants room for three commands to the socket task; the
code's channel has eight. `PacketAssumption` wants `MaxPacket >= 6` cells, the
header, tag and nonce that `MAX_OPUS_PAYLOAD_SIZE` subtracts from
`MAX_RTP_PACKET_SIZE`. TLC evaluates all of them on every run. `FrameCap`,
`KeyCap`, `Calls` and the like bound the model and are any numbers here.

Every safety proof has one shape: an inductive invariant, a lemma for `Init`, a
lemma or a case per action, and a theorem per property that it implies.

**Registry** (`RegistryInv`). `OneCallPerServer` follows from
`RoutedWhileOpen` (the map has one entry for a server), but a step of the
dispatcher that waited, `SendFails`, removes the entry of the server it looked up
*before* it waited. That this is never the entry of a successor needs
`SendingIsRouted`: the call it waits for is still in the map, since nobody else
gets the mutex. `OpenWhileRunning` says that after `Stop` nothing listens.
`OwnLeaveStep` proves `OnlyOwnLeave` from it, and `RefinesInit` and `RefinesNext`
that each step is one of `ExclusiveServer` or a stutter under the mapping
`owner[s] = channels[s] if its receiver is alive`.

**Voice task** (`TaskInv`). That a command never waits for room is a fact about
the whole protocol: Hello and Ready come once, each answer to them is given once,
so besides `Close` and the heartbeat's interval at most one of `Identify`,
`Select` and `Listen` waits (`CommandsOnce`). This needs to know what is in flight
towards the runner (`HelloOnce`, `ReadyOnce`) and that the voice server is where
the runner believes it to be (`InStep`), which is also why commands arrive in
order. `Beginning`, `Ending` and `Owning` tie the join and the connection to
where the runner is.

**Call** (`CallInv`, on top of `TaskInv`). As the task's steps in a call are
those of `VoiceTask`, `TaskInv` holds in calls and is not proved twice (the lemma
`CallIsOfTask`). `CallInv` adds that a callback has one request under way and the
lock (`Callbacks`), for whom the worker waits (`Serving`), what a worker that has
ended has seen to (`WorkerEnded`), and, for `AudioOnlyAfterAnswer`, that
`FullyConnected` is ahead of every packet in the events channel or was read
before (`AudioInOrder`). `PromiseKept` shows with it that each step is one of
`CallPromise`.

**RtpReceiver** (`ReceiverInv`). A cached time in the future is that of the first
frame of its source. That rests on the order of the buffers: a put makes a frame
the first one only if it is due before all others, which `PlaceInOrder` and
`PutInOrder` show for buffers of any length.

**Module lifecycle** (`LifecycleInv`). The invariant relates the views three
kinds of threads have of the same thing: how far load and unload are and what
there is of the thread (`Phases`), requesters and the read lock (`ReadersAsk`), a
queue and those who wait for its answers (`QueuesMatch`, `RequestsMatch`),
receivers and tasks (`ReceiversMatch`). References are counted owner by owner
(`Counted`), where the frames of a channel in the queue thread are a cardinality
that changes by one when a frame is sent or taken, and a `FixUp` under way is an
owner like the others (`FixUpPending`). `RequestsRefineRemoteCall` maps each step
to `RemoteCall` with `Outcome`: all requests but `FixUp` end with an answer or
for want of a receiver, `FixUp` only for want of a receiver or because it was
dropped.

**Connect info** (`ConnectInv`). That a token is of the call's own seat is not the
bot's to know: `AllIsOwn` follows it from the intents through what Discord owes to
the wire and the events channel, and `LeftBetweenCalls` says why a seat is given
back before the next call.

**Voice packets** (`PacketInv`). `Numbers` makes the timestamp a function of the
frames written, and `NoncesUsed` ties each nonce of the present key to the
numbers of its packet and frame, or to a counter that the present one is ahead of
by the packets sent since. Two that are equal therefore lie a multiple of each
period apart (`ComesBackLate`, with the arithmetic in `Around`, `Shifted` and
`CountedUp`). That nonces never repeat cannot be said: nothing in the code
changes the key when numbers have gone around, in the normal mode after 2^26
frames. `Layout` says that the last packet carries its payload (`Carries`):
header, tag, ciphertext and suffix are where `decrypt_packet` looks for them,
whatever the reused buffer held (`Encrypted`, `CarriedIsRead`). A packet that was
cut, or sealed with another key, has a tag for another ciphertext or key
(`OtherTagRefused`); `VoiceRemains` covers `skip_over_extensions`, also when it
is told of more entries than there are. Received packets are those of `Incoming`:
up to one extension entry and two cells of voice, but any mode, key and counter.

Two definitions were restated so that they can be reasoned about, with the same
meaning: `Queued` of `RtpReceiver` counts the frames before a new one instead of
filtering, and `OwnersMatch` of `ModuleLifecycle` counts with `Cardinality`. One was
wrong: `Scheduled` was a `CASE` whose guards overlapped, for which TLC takes the
first arm and TLA+ leaves the choice open; no proof could go through it, and it
now says which arm applies.

Only model-checked: the liveness properties (`PrepareAnswered`, `RequestsServed`,
`SocketEndNoticed`, `CallbackReturns`, `ReleasedCallEnds`, `EndIsReported`,
`DueFramesTaken`, `UnloadReturns`, `ChannelsAreFreed`, `WaitingEnds`), as
fairness and `ENABLED` are out of the prover's reach, and the properties of the
four runs that find a violation, which do not hold.

## Not modelled

Configuration, formats, logging, constants and errors keep no state;
`asterisk-sys` is generated. The inside of Asterisk's jitter buffers, Opus and
the cipher are external, as is the reconnecting of the global gateway's library.
Snapshots, address parsing and the ranking of encryption modes do not meet any of
the properties. `Ao2` objects other than channels (formats, capabilities) are
owned by one thread at a time.

## Plan

1. Received packets of any length and any number of extension entries in
   `ReceivedIsSent`: `VoiceRemains` uses the bounds of `Incoming` only for the
   values of cells that could be taken for a mark.
2. What holds in spite of the findings: the conditions under which `NoLockCycle`
   and `MixStaysInBounds` cannot fail (all frames of one length, no callback under
   way), as theorems.
3. Safety parts of the liveness arguments: that a wait named under Fairness is the
   only way for a callback to be stuck, as an invariant.
