# Verification of SENSOR Remote

TLA+ models of the concurrent and distributed parts of this repository, with TLC
runs on small instances and TLAPS proofs for every value of the constants.
`PROJECT.json` lists the runs, the theorems, the mutants each property is known to
catch, and the source lines each definition stands for.

Run a model with `tlc -config <cfg> <module>`, check proofs with `tlapm <module>.tla`.

## 1. The system

Two Windows endpoints (crate `sensor-desktop`) hold one authenticated session for
remote desktop, chat or a file. They meet directly, through a *rendezvous server*
(`sensor-rendezvous`), or through a *provisioned relay* (`sensor-relay`). Neither
server sees plaintext: the endpoints run their own handshake and record layer
(`sensor-session`, `sensor-crypto`, `sensor-transport`) over the stream they are given.

| Component (source) | State | Operations | What is hard | What makes it correct |
|---|---|---|---|---|
| Rendezvous server (`sensor-rendezvous/src/main.rs`) | device directory, one thread, socket and guard per connection, connection and session counters | accept, register, heartbeat, connect, offer, relay, expire, remove | check and use of an entry under different lock holds; a socket that changes threads; cleanup of an old connection after a new registration; time-outs | an entry is true of a live thread; one initiator per registration; sockets and guards never lost; busy resolves; the limit counts what is open |
| Provisioned relay (`sensor-relay/src/lib.rs`) | two role slots, rejections, deadline, two copying threads | accept, authenticate, reject, ready, copy, half-close, end, start over | endpoints vanish at any point; half-close against reset; a retry that meets its own stale stream | nothing leaks between attempts, a clean end is lossless, waiting is bounded, the relay survives |
| Desktop host session (`sensor-desktop/src/worker.rs`, `sensor-windows/src/input.rs`) | generation, format, pending reconfiguration, the shared `InputTarget`, a bounded channel, keys held down | input, Select, Close, capture/encode, adapt, fall back, abort, join | two threads and one lock; input in flight while the screen changes; full channel; blocked reader | input lands on the monitor it was meant for, is never off for good, and is released on every way out |
| Desktop viewer session (`worker.rs`, `remote_input.rs`) | command channel, writer thread, assembler, decoder, `Control` | send input, Format, Fragment, ack, stop with a 750 ms watchdog | stop racing connect; a full channel; feedback for an old generation | stopping always ends; no input after Close; a release is never lost alone |
| Listener and jobs (`worker.rs`: `execute`, `Job`, `Control`) | listener, backoff, cancellation socket, consent | wait, refuse, retry, consent, serve | cancellation while connecting or waiting for consent; late answers | a session follows its own answer; a refusal leaves the listener waiting; stop is never missed |
| Client bridge (`sensor-render/src/lib.rs`) | resolver slots, heartbeat clocks, pending bytes in both directions | resolve, open, register, wait, bridge | resolver threads outliving callers; partial writes; a silent service | slots are not leaked, bytes keep their order, silence is noticed and health is not mistaken for it |
| Secure connection (`sensor-transport`, `sensor-session`, `sensor-crypto`) | handshake state, sequence numbers, shared duplex state | initiate, accept, send, receive, split, abort | two halves sharing one session; failure of one half; frames lost or repeated on the way | what is received is a prefix of what was sent, by the peer that was expected |
| File transfer (`sensor-files`, `sensor-client`) | partial file, metadata, offset, lock, published name | begin, resume, chunk, pause, cancel, finish | crash and power loss between any two file operations; two sessions on one transfer; a source that is edited | a published file is whole and never replaced; a resumed transfer continues its own prefix |
| Endpoint protocol and consent (`sensor-client`, `permissions.rs`) | consent state, operation, audit records | accept, reject, operate, close | failure between an act and its record | nothing privileged before a recorded consent; the log accounts for every file |
| Audit log (`sensor-audit`) | lines, hash chain, head, lock, failed flag | open, append | partial append, crash, power loss, two runs | the log is a chain but for a torn end, and keeps what it promised |
| Congestion control (`adaptive.rs`) | bitrate, ceiling, counters of good windows | observe, target | bounds and oscillation; windows without feedback | no increase without feedback; it settles, or hunts slowly |
| Video path (`worker.rs`, `adaptive.rs`, `sensor-media/src/lib.rs`, `ui.rs`) | encoder, flight window, assembler, decoder, shared picture | submit, fragment, assemble, decode, acknowledge, show | generations change under way; acknowledgements of old ones | no reference is missing, nothing stays in the window, a click hits what is shown |
| Clipboard (`clipboard.rs`) | fingerprint of the last text | poll, apply | echo between two peers, switches | a text is sent once, never back, and never what was there before |
| Remote input (`ui.rs`, `remote_input.rs`, `worker.rs`, `input.rs`) | what the window believes held, the generation it sends, what the injector holds | frame, release all, Select, receive, new Format | several events in one frame; generations that change while input is on its way | what is let go of comes up; window and host agree while nothing changes the generation |
| Window (`ui.rs`) | one job, one listener, prompt, composer, grant, view | poll events, ask, answer, stop, disconnect, revoke, send input | two workers that end at any time share one window | one session; a prompt has its worker; revocation reaches every session; the device keeps listening |
| Key files (`sensor-identity`, `sensor-relay/src/main.rs`) | `identity.bin` and its lock, `relay-seed.bin` | load or create, save | first starts at once, death in the middle | one identity, whole, for good; one seed |
| Grant and settings files, updates | one file each | load, save, stage | crash in the middle of a write | readers see old or new |
| Wire format, pixels, capture, codecs, legacy | – | conversions, calls into Windows | – | left to unit tests |

The endpoints' sessions use the streams the bridge or the relay hands them; the
client bridge speaks to the rendezvous server; the host session reads
`Control` (stop, abort) which the window thread and watchdogs set; everything durable
(audit log, transfers, grants) is written by the session's own thread.

Hazards are listed with their lines in `PROJECT.json`; those without a property say why.

## 2. Modules

Each module states in its header what it stands for and where it abstracts; `PROJECT.json` ("map")
names the lines behind each definition. A definition marked "Mutation" is not the code but a plausible
bug in it; no specification uses it, and `PROJECT.json` ("mutants") says which property it breaks.

| Layer | Modules | Checked through | Proofs |
|---|---|---|---|
| servers | `Rendezvous` (implements `Matchmaking`), `PairRelay` | `MCRendezvous`, `MCPairRelay` | `RendezvousProofs`, `PairRelayProofs` |
| reaching a peer | `Connection`: `RenderClient`, `Presence`, `ClientBridge`, `SecureChannel` (implements `Pipe`) | `MCConnection` | `ConnectionProofs` |
| program | `Jobs`: `DesktopApp`, `HostListener`, `RemoteViewer` | `MCJobs` | `JobsProofs` |
| session | `EndpointSession` over `AuditLog` (implements `Ledger`) | `MCEndpointSession` | `EndpointSessionProofs` |
| remote desktop | `HostDesktop`; `Media`: `VideoPipe`, `Congestion`, `ClipboardSync`, `RemoteInput` | `MCHostDesktop`; `MCMedia`, `MCRemoteInput` | `HostDesktopProofs`, `MediaProofs` |
| disk | `Files`: `FileTransfer` (implements `Publication`), `KeyFiles` | `MCFiles` | `FilesProofs` |

### Rendezvous, Matchmaking

`Rendezvous.tla` models the server in full. A connection `c` is a TCP socket, its
`ConnectionGuard`, its thread and the `connection_id` it draws. `pc[c]` is the
position of the thread: `request` and `challenge` (`handle_connection`, `register`),
`inserted`/`unsent` (entry made, `Registered` not yet sent or not sendable),
`top`/`recv`/`read` (the three parts of an iteration of `endpoint_loop`),
`finding`/`found` (before and after `find_target`), `pairing`/`relay`
(`relay_pair`), `leaving` (before `remove_device`). `sock[c]` follows the socket and its guard
from the thread that accepted it through the channel to the thread that relays it.
Every action on the directory is one hold of its mutex, so that expiry, replacement
and removal happen between any two of them. `channel[c]` is the `sync_channel(1)` of
a registration: dropping its receiver closes the socket queued in it.

Time is a tick that ages entries and `last_seen`; `PresenceTtl` ticks stand for 90 s,
and the 30-day token lets `EndLoop` happen at any time. Message contents are reduced to the
ID, the key and the `listen` flag; `Claims[c]` is what the client of `c` is able to sign.

`Matchmaking.tla` is what the server promises without any of this: a registration is
listed at most once and given to at most one initiator. `Rendezvous` instantiates it
with `listed` = entries that are not busy, `spent` = registrations made, `partner` = the
match of each initiator.

### PairRelay

`serve_forever` as a loop of attempts. `relay` is the position in the current
attempt, `streams` and `rejected` are `serve_pair`'s locals, `copy[r]` the `io::copy`
reading from role `r`. `end[c]` is what client `c` did with its socket, which the relay learns
by reading or writing: a write to a closed peer succeeds once and turns it into a
reset. `EndAttempt` is every return of `serve_pair` and the drop of its locals; its argument
says what `serve_forever` does with the result: the next attempt (`accepting`), or the
end of the process (`stopped`; `broken` when the listener itself fails).
Which key a client proves is the constant `Presents`.

### HostDesktop

Two threads. `reader` is the position of `spawn_host_reader`: `top` (stop flag), `receive`,
then for a Select `zero` (keys released) and `send` (input off), and `closing` (Close was
passed on). `main` is the position in `host_desktop`: a pass is `drain`, `observe`, then either
`configure`, `advertise`, `activate` or directly `encode`. The lock of `InputTarget` makes
the injection of one event, the zeroing and the activation atomic; everything
else interleaves. `down[k]` is the keyboard as Windows has it, with the generation of the press;
`held` is what the `Injector` remembers. `refused` records that Windows refused a release, the
case in which the injector forgets keys that are still down.

The viewer may send any message a viewer sends, with any generation whose Format has been
sent. The adaptive controller, the hardware encoder, capture and the socket may
decide or fail at each of their steps. `chosen` and `cut` are history variables: no
guard reads them.

### RenderClient, Presence, ClientBridge

`RenderClient` is a job of `sensor-render` from `resolve` to the confirmed peer. `pc[j]` is its
position: the slot (`reserved`), the resolver thread, connecting with its pause between attempts, `First`,
`Challenged`, `Registered` for the answers of the service, `stream` at the end. `resolver[j]` is the thread of the
current run and `leftover` counts the threads of runs that gave up; `inFlight` is `DNS_IN_FLIGHT`. `Cancel` and
`DeadlinePasses` happen at any time, and each phase notices them where the code looks.

`Presence` is the time of a listening client: `HEARTBEAT` and `CONNECT_TIMEOUT` at the client,
`PRESENCE_TTL` at the server, messages with a bounded delay, a network that is cut for good, a computer that sleeps.
`Tick` lets five seconds pass and requires that what both loops do at once (they poll every few milliseconds) is done.

`ClientBridge` is one thread with two non-blocking sockets. `at` is the position in a pass, in the order of
the code: flush, read TCP, send, read the service, write TCP, account for progress. `unsent` and `blocked` are what
tungstenite holds; `pendingTcp` is `pending_tcp` from `tcp_offset` on.

### SecureChannel, Pipe

The handshake of `SecureConnection`, the split, and the two halves with their threads. `stream[e]` is the TCP
stream towards `e`, `sealing`/`opening` are the record numbers, `failed[e]` is `DuplexState.failed`. A write has a
start and an end, so that a frame can be cut; the network may disturb it (lose, repeat, swap, reset). A record opens
only under the transcript and number it was sealed for. `late` counts what an end delivers after its other half
failed. `Pipe` is the promise: per direction, a prefix of what was sent.

### DesktopApp, HostListener, RemoteViewer

`DesktopApp` is the window: `worker` has the job and the listener with task, phase and whether they were stopped or
closed, `events` their channels, `batch` what `App::poll` collected, `polling` how far it got. A poll is `Collect`, an
`Event` for each, then `Finished`, `Lost` and `PollEnds` (which starts the listener again); the user acts between
polls, the workers at any time.

`HostListener` is the `Host` branch of `execute` on its three routes (direct, relay, rendezvous): accept,
register the socket, verify, ask, serve or refuse, with `Stop`, `Abort` and `Shut` as separate steps of the window's thread.
`handle` is the socket in `Control`. The answer of the user may come after nobody waits for it.

`RemoteViewer` has the threads of a viewer's job: the window (`window`: idle or inside `stop`), the worker
(`worker`), the writer (`writer`), the watchdog (`watchdog`), and the shared `Control` (`cancelled`, `localStop`, `sender`,
`socket`). `abort` is two steps, as in the code: the flag, then the socket. `queue` is the bounded channel,
`toPeer` what was written.

### EndpointSession, AuditLog, Ledger

`AuditLog` is the file as a sequence of lines, each a record with number, previous hash and event, or
`Torn`. `Open` takes the lock and verifies; an append is `Write` (or `WriteFails`, which may leave a torn line) and
`Sync` (or `SyncFails`); `durable` is how far the disk has it, `promised` how far `append` returned `Ok`. `PowerFails`
keeps any length from `durable` on, torn or not. `Ledger` is the promise: entries are added at the end, the promised ones stay.

`EndpointSession` puts `serve` and `operate` over it: what the peer asks, consent, the operations, and
for each of them the records in the order of the code, each a step that may fail (`NotLogged`) or be interrupted.

### FileTransfer, Publication

`sensor-files` as its single file operations. `parts`, `meta` and `dest` are the names in the directory;
`content` and `durable` belong to the inode, which the part file and the published name share after the hard link.
No directory is synced anywhere: `finish` syncs the file, then links, unlinks and answers. So `disk` is what the disk has of the three names;
it learns them at any time (`Settle`), and only the sync of the metadata file brings that file's contents with it.
`host[s]` is the position of the session that serves `s`, `sender[s]` that of `send_file`. `TornChunk` is a chunk
written by half; `HostFails` is any error or death; `PowerLoss` takes the names back to those in `disk`, keeps synced blocks and any of the others, or garbage
in their place, and ends the sessions that had begun; later ones go on with what is left. `Publication` is the promise to users of the directory: a name is given
once, to a whole file, and what a sender is told of is there when it is told. `Keep` is the disk learning the names, `PowerFails` takes those it has not learned
(`kept`), an acknowledged one among them: that much the code does not promise.

### KeyFiles

`identity.bin` under its lock file (`lock`, `load`, `generate`, temporary file, `sync`, rename) and `relay-seed.bin`
(`create_new`, write, sync), each with two programs that start together. `settled` is the identity the disk has for good.
As in `FileTransfer`, the disk learns of a name at some time after the rename (`Settle`), since the code syncs no directory.
In both models the file system keeps the names in the order of their changes, as a journal does, and may keep any number of them.

### Media: VideoPipe, Congestion, ClipboardSync, RemoteInput

`VideoPipe` follows pictures through the encoder, `send_video_packets`, the wire, `Assembler`, the
decoder, the acknowledgement and the slot the window draws from. `flight` and `bytes` are `FlightWindow`; `generation` is the
host's, `decoding` the viewer's, `format`/`shown` what the window has. `Counted` adds up the bytes of the window frame by frame.

`Congestion` is `Adaptive` with the numbers of the code: `bitrate`, `ceiling`, `healthy`, `fps`
(`fps_ceiling`), `faster`. `calm`, `paid`, `quick` and `last` are history: what the windows really were.

`ClipboardSync` has the two clipboards, `fingerprint` and `enabled` of each side, the messages on the
wire and between threads; `owner` and `owed` are history.

`RemoteInput` goes from the user to the `Injector`. The toolkit collects `events`; a frame is a step for each of them, in the order of
`App::remote`: the pointer buttons (`HandleButton`), then a paste or the modifiers, which are polled (`PollModifiers`), then text and keys (`HandleKey`), then
the loss of the focus (`FrameEnds`). `modifiers` and `button` are what the window believes to hold, `known` the generation it sends with
every message. The host's reader drops input of another generation than `accepted`, releases included, and at the first of a new one lets everything go (`TakeInput`,
`DropInput`); a Select turns input off and releases (`TakeSelect`). A new encoder sends its Format (`Advertise`) and then accepts its input (`Activate`), at any time, while the window takes Formats
between two frames and keeps what it believes (`TakeFormats`).
So window and host need not agree, and the properties say when they do. `Agreed`: the window sends the generation the host accepts and has injected. Then the
host holds no more than the window believes, no key without the focus, and nothing but a text key that the user let go of. `Undisturbed`: the first generation,
nothing selected. Then they hold the same.

## 3. Runs

| Run | Question | Instance | States |
|---|---|---|---|
| `rendezvous` | is an entry true of the thread behind it, does an initiator meet whom it asked for, does a fresh entry only change hands by its own doing, is every socket counted once and in one place | 4 connections: two listeners of one device, perhaps with two keys, and two viewers; limit 3 | 2.5 M |
| `rendezvous_live` | does the server implement `Matchmaking`; are offers answered, do busy entries resolve, do silent clients leave | 3 connections: a listener that restarts or calls, a viewer | 125 k |
| `pair_relay` | does an attempt leave nothing behind, does a clean end lose nothing, does closing end the pair, is waiting bounded | both endpoints, a retry of one, a stranger; 2 rejections; 1 byte each | 423 k |
| `host` | is input meant for the monitor it hits, does it come back after a Select, is a key ever held across generations, does the session end released | 2 monitors, 2 keys, channel of 2, 2 generations | 742 k |
| `endpoint` | does the log verify and keep its promises, does it read as sessions, does it account for every file | 3 runs of 2 peers at once or in turn, 2 transfers, every failure | 1.7 M |
| `files` | are published files whole, and never replaced, is a sender told of what is there, does resuming continue the file, is there one identity and one seed | 2 sessions of one peer and one name, 2-block files, 2 transfer IDs; 2 programs, 2 relays | 614 k, up to symmetry |
| `connection` | are resolver slots accounted, is presence kept and silence noticed, do bytes arrive in order, is each end talking to whom it expects; does what waits end | 2 jobs, one of them run twice, 2 slots; 5-second ticks; 2 bytes each way; 2 messages, 1 disturbance | 317 k |
| `jobs` | one session at a time, prompts that belong to their worker, revocation, a listener that stays; a release never lost; does whoever is stopped end | all tasks; 3 connections, 2 retries; channel of 2, 2 inputs | 253 k |
| `media` | are references complete and the window drained; are rates earned and do they settle; is a text sent once and never back; does the host hold what the window believes and the user presses, whatever generations come in between | 3 pictures, 2 generations; 3 copies, 2 switches; 2 events between two frames, 1 message, 2 generations | 429 k |
| `pair_relay_stopped` | *violated*: only a failing listener ends the relay | as `pair_relay`, 3 rejections | |
| `host_selection_lost` | *violated*: the selected monitor is the one shown | 2 monitors, 1 key, 3 generations | |
| `input_generation` | *violated*: leaving the picture releases the keys | 3 events, 2 generations | |

**Runs of several models.** `Connection`, `Files`, `Media` and `Jobs` hold models that share no variable.
The variable `part` is chosen in the initial state and says which of them moves; the others stay as they
began. A product would add no behaviour to any of them, only interleavings that none of their properties sees, so each is
explored in full. `EndpointSession` and `AuditLog` do share state and are composed.

The proofs are about `Connection`, `Files`, `Media` and `Jobs` as they stand. Three of their MC modules check fewer behaviours, to
keep the runs small. In `MCConnection` a service that says more than one message does so to one job alone (`OneTalks`); one job is run again, beside a
resolver thread its first run left behind, and while it is the service says nothing (`OneReruns`); the initiator of a channel has one identity (identities are only compared), the responder and all
expectations are any up to the end of the handshake, but only a pair that expects each other exchanges
messages (`Known`, `FewTalk`). `MCMedia` has, for `RatesSettle`, behaviours whose windows all tell the same (`Steady`) or report one link
(`Links`), beside those in which windows and profiles change (`Changing`); and, for the arrival of texts, behaviours in
which only the viewer's user copies (`alone`). In its input the user presses Ctrl and a letter, Ctrl and the button, or an arrow (`Hands`), and the host moves as soon as a message is there, the user only between frames (`InOrder`): the host waits for nothing but
messages and the window for nothing but Formats, what the user does during a frame is for the next one anyway, and the properties speak of moments in which everything is handled (`Quiet`), so that any other order of the same steps meets the same ones.
The unrestricted `Next` is in the violated run, with three events, and under the theorem. `MCFiles` explores files up to symmetry: sessions, IDs and the two last blocks are interchangeable in the specification and in every property. `MCJobs` has every task with one event at a time in a channel (`EveryTask`), and
listening and viewing, with peers the grant does not name, with two (`ManyEvents`). A part that does not move begins in one state. What these restrictions leave out is what the theorems cover.

**Bounds.** Connections, clients, runs and sessions are each used once, so their number bounds a behaviour.
Four connections give a listener, its replacement and two viewers racing for them. `PresenceTtl` = 1
lets entries be fresh or expired, which is all that the comparisons tell apart; `Tick` saturates. `MaxConnections` is
one below the number of connections where the limit matters. Two slots are full when one job runs again beside its leftover resolver and the other asks,
so that a capacity refusal happens. The relay survives `MaxRejected - 1` rejections (15 in the
code, 1 here). `QueueSize` and `DrainLimit` (64 in the code) are small so that the channel fills and a drain stops early.
`MaxGeneration` stops `Configure`; at the last generation the session can still end, and liveness is judged on the earlier ones as
well. `MaxMessages` = 1 message to the host is enough because the host takes messages one by one and the window reads nothing from it but Formats; `MaxFormats` = 2 lets a generation change come
before, in and after a frame, and before or after a message is received. A file has two blocks, so that a chunk, a resumption and a power loss can stop in its middle; a chunk of two blocks
makes it torn. `Presence` counts ticks of five seconds: the heartbeat is due after 5 of them
in the code and after 2 here, the limits are 18 and 7; only their order with the delay matters, and
`DurationsAssumption` states it. `MaxAnswers` stops the responder of `SecureChannel` after one message. `Congestion` rounds
bitrates down to `Grain` (20 kbit/s; 1 in the code) so that there are finitely many; delivery times and work times are
chosen on both sides of every threshold. Links are chosen between the tiers of the encoder.

**Deadlock.** The rendezvous server never stops and is checked for deadlock. Relay attempts, sessions,
runs, jobs and transfers end, and the models bound what users do, so the other runs say `CHECK_DEADLOCK FALSE`;
that nobody waits for ever is what their liveness properties say.

**Fairness.** Nothing is assumed of peers, users, the network or the service unless stated.

- `Rendezvous`: every thread is scheduled, because each blocking call has a time-out (10 s before registration, 5 ms
  polls in the loop, 30 s for writes), except a relay, which lasts as long as its endpoints want; the clock ticks.
- `PairRelay`: the pairing deadline passes; the accepting thread and both copies take their steps, because
  sockets have deadlines before "ready" and the idle time-out after it.
- `HostDesktop`: both threads run, and a receive on an aborted socket fails; a receive on a live one need not return.
- `RenderClient`: a job takes its steps, since every wait in it polls; resolver threads and the service need not answer.
- `ClientBridge`: passes go on (sockets do not block) and the program reads; the service need not.
- `SecureChannel`: a reader whose stream has something, or has ended, reads; a writer that can write does.
- `DesktopApp`: the window polls (it is repainted on a timer), a stopped worker ends (`HostListener` and
  `RemoteViewer` show it), and the two seconds after Disconnect pass. The last needs strong fairness: polling and the
  check of the clock alternate, so that the check is enabled again and again but not all the time.
- `HostListener`: the steps of `stop`, waits that poll `cancelled`, and operations on a socket that was shut.
- `RemoteViewer`: window, worker and writer take their steps, writes end, and the watchdog's 750 ms pass. A receive of
  the worker ends only when the peer sends or the stream is shut.
- `VideoPipe` and `ClipboardSync`: the loops of both sides run; for `Congestion`, windows go by. The host's five-second
  limit on acknowledgements may still end the session at any time, which is an outcome of `WindowDrains`.
- `EndpointSession`, `FileTransfer`, `KeyFiles`: safety only. A host may always die.

**The three violations.**
`pair_relay_stopped`: the comment in `serve_forever` promises that an abandoned attempt
does not take the relay down, but only `Timeout` and `Unauthorized` are survived. A client that
authenticates, resets, and is then written its ready byte makes `serve_pair` return an I/O error,
which `serve_forever` returns and `main` exits with.
`host_selection_lost`: the index of a selected monitor waits in `reconfigure`; the
adaptive block of the same pass writes `format.display.index` over it, and so does a profile change later in
the same drain. The host starts a new generation of the old monitor, turns input on again, and
the selection is forgotten.
`input_generation`: the reader drops input of another generation, releases included, and releases what is held only at the first
input of a new one. With an arrow held down the host changes its encoder, for the adaptive rate or a
fallback; the user leaves the picture before the window has taken the new Format; the `ReleaseAll` it sends is dropped, and the arrow stays down until
there is input again, although "leaving the viewport releases held keys and buttons".

**Known and without a run of their own** (no text of the repository clearly promises otherwise):
a letter is sent as a key only while a modifier is down, and the same test decides about its release (`ui.rs:1741`): press Ctrl, press S, let go of Ctrl,
let go of S, and the host holds S until the window releases everything (C, X and V would not show it: the toolkit turns their presses into Copy, Cut and Paste);
pictures still inside the encoder are not in the byte budget of the flight window, so that their bytes can exceed it
(`adaptive.rs:144`); between the Format of a new monitor and its first picture a click on the old picture is sent
for the new monitor (`ui.rs:812`); a text of the host that reaches the viewer while another waits in the channel of one is
dropped (`worker.rs:1478`); a clipboard switched off and on again between two polls is not looked at as if for the first time, so that
what was copied in between is sent (`clipboard.rs:61`); after a generation change the window goes on believing that a button or Ctrl is held which the host
has let go of (`ui.rs:812`, `worker.rs:820`), and sends no press until the user has let go; a published file of which the sender was told can be gone
after a power loss, since its name was never synced (`sensor-files/src/lib.rs:306`).

## 4. Proofs

All theorems are proved from the assumptions (`ConstantsAssumption`, `LogAssumption`, `SessionAssumption`, and the
`InstanceAssumption` of `Connection`, `Files`, `Media` and `Jobs`, which is those of the parts) of the
modules, which say only that sets, sentinels and bounds are sensible (`None` is no member, limits are positive). Sets of connections,
jobs, clients, IDs, keys, monitors, runs, events, texts and all bounds are arbitrary. In `ConnectionProofs`, `FilesProofs`,
`MediaProofs` and `JobsProofs` each part has its own inductive invariant, and the theorems follow for the whole because the parts that do not move keep theirs.

**Rendezvous** (`RendezvousProofs`). `IInv` joins the type invariant, `NoGhostEntry`, `PairsAgree` and
`AtMostOneInitiator` with three strengthenings: `ThreadState` (what a thread has done by each
position), `MatchState` (an initiator's match, the channel it is in and the relay it is part of name
each other) and `GivenIsBusy` (a registration given away is busy while it is listed). The
last is what makes exclusivity inductive: `find_target` refuses busy entries, nothing clears the flag, and a
re-registration is another connection. `DirectorySameOrGone` says that
no action but `Register` and `FindTarget` does more to the directory than take entries off or renew their age; with
it each action is a few lines. `DirectoryCorrect` is the run's `DirectoryIsTrue`. `Implementation` maps `Register` of a listener to
`List`, `FindTarget` to `Match` and every other step to `Unlist` (of nothing, mostly).
`Exclusive` proves of `Matchmaking` itself that what is given is spent and off the list. `Discipline` is the run's `DirectoryDiscipline`.
`SocketsInv` adds to `IInv` where each socket may be, given the step its own thread is at and the thread it was handed to
(`SocketPlaces`), that the two counters are cardinalities of finite sets of connections (`Counted`), and `BusyExplained`. `Counted`
is kept because a step moves at most one connection into or out of a set and `SocketPlaces` says which; `EverySocketAccounted`, the run's
`SocketsAccounted`, reads the owner of each socket off `SocketPlaces` and `MatchState`.

**PairRelay** (`PairRelayProofs`). `IInv` joins the type invariant and `NothingLeaked` with `Handled` (a client is being
authenticated in one place, and both streams exist from "ready" on) and `ReadToTheEnd` (a copy that ended without a
shutdown has read everything there will be). The last makes `CleanEndIsLossless`, an action property, follow from
the state before the step; without it a copy could have ended early and unnoticed. `LeavesNothing` is the run's `AttemptsLeaveNothing`.

**HostDesktop** (`HostDesktopProofs`). `IInv` joins the type invariant, `InputComesBack` and
`HeldInOneGeneration` with `RequestKept` (a thread between two of its steps still has the request it is working on),
`TargetMatchesFormat` (the target names the monitor advertised for its generation and lags behind main while main
switches) and `CutIsOver` (every generation a Select was received in is over). `PressIsOfTarget` shows
that a key goes down only in an injection, with the target's generation; the two
action properties that make up `InputIsMeant` follow from it with the last two conjuncts.

**AuditLog** (`EndpointSessionProofs`, first part). `IInv` joins the type invariant, `OnlyTheEndIsTorn` and `HeadIsCurrent` with `Locked`
(who may append has the lock), `Clean` (who is ready or writing has a file without a torn end) and `Kept` (what was promised is
durable and readable). `HeadIsCurrent` needs `Locked`: only the holder changes the file. `PromisesKept` maps `Write` to an entry
added, `Sync` to a promise, and a torn line or a power loss to entries dropped beyond the promise.

**EndpointSession** (second part). Every step of a session is a step of the log or leaves it alone
(`StepIsLogStep`), so `IInv` of `AuditLog` holds of sessions too and `ChainIsSound` comes with it. `SInv` adds the type
invariant, `LogReadsAsSessions`, `EndsWithIts` (the last line agrees with the phase of the session that holds the log),
`Accepted` (from the answer on a session holds the log, and its acceptance is in the part that is synced) and `HasFile`.
`EndsWithIts` makes the reading order inductive: a session adds a line that may follow the last one because the last
one is its own; `Accepted` carries that through a power loss, which cuts only what was not synced.
`WorkInv` adds what the log accounts for. Two cardinalities are not inductive, so it says who corresponds to whom: an injection from the transfers
that were begun into the synced offers of their owners (`Offers`), which leaves the last line free while a transfer is yet to
begin (`BeginsSynced`: the line is synced before), and an injection from the completions in the log to published transfers (`Completions`),
which leaves one free for the session that has yet to record it; `Working` says that what a session publishes is a
part of its own peer. A power loss shortens the log, which takes completions but no synced offer. `LogAccounts` is the run's `LogAccountsForWork`.

**Files** (`FilesProofs`). `TransferInv` (a file on its way) joins the type invariant and `OffsetIsLength` with `Messages` (what is on
the wire is a part of the file that the sender described, at the place it says), `Working` and `Beginning` (a transfer in
hand is on record under its peer; one that begins is nobody else's and empty), `Locked` (who writes or publishes has the lock),
`Verified` (what is about to be linked was compared with the record and synced, and what was linked is there), `OnRecord` (what is published is
what the record describes, with its contents synced), `Answered` (a session that publishes or completes has a sender that waits for it or has given up) and `OnDisk` (a name the disk has is there, and of the same inode). `OnRecord` needs `Verified`, `Verified` needs `Locked`: another session of
the same peer would write in between. `TransfersSound` is the run's `TransferIsSound`, `ReceivedIsKept` its `NothingLost`, and `TransfersPublish`
maps `Link` to `Publish`, `Complete`, which tells the sender, to `Acknowledge`, `Settle` to `Keep`, `PowerLoss` to `PowerFails` and all others to stutters. `Answered` says that a sender is told once; `OnDisk` that a power loss
takes names and puts none back, and with `OnRecord` that what is left has its contents. `KeyInv` joins the type
invariant with `StoreLocked`, `SameIdentity` (what a program is about to rename into place is what the file already has, or the first
identity there is), `SettledIsCurrent`, `SeedInFile` and `SeedKept`; from it follow `KeysSound` and the action property `IdentityStays`.

**Connection** (`ConnectionProofs`).
`JobsInv` (`RenderClient`): the slots taken are the jobs with a resolver thread (`Slots`, a cardinality under reserve, hand-over and release), who has
a thread waits for it (`Waits`), and a job is where the words it heard lead to (`Spoken`).
`PresenceInv` (`Presence`): heartbeats on their way are a `Heartbeat` apart (`Spaced`); while nothing goes wrong the server
has heard one lately enough, and the answer is due before the limit (`InTime`); a silence is not longer than what the
client has noticed (`Silent`). The sums need only that `Ttl` and `AckLimit` exceed the heartbeat and the delays, as `DurationsAssumption` says.
`BridgeInv` (`ClientBridge`): what the program wrote, the bridge holds, the wire carries and the service got are one count without a gap, each way
(`Upwards`, `Downwards`, over the binary messages among all others), at most one message is held (`HeldOnce`), every ping is under way or
answered (`Answered`), and nothing is left behind on a hang-up (`Endings`). "The next binary message carries on where the last ended" is stated by a
function from positions to counts, so that no induction over the queue is needed.
`ChannelInv` (`SecureChannel`): every frame on the wire or in hand was written by the other end or repeats one (`OnlyGenuine`), sequence
numbers count what was sent and delivered (`Counted`), an end that opened a record has the other's transcript (`Handshaken`), and a
failed reader delivers nothing that was not being read already (`LateOnce`). `ChannelSound` is the run's `ChannelIsSound`; `ChannelDelivering` maps the steps to `Pipe`.

**Jobs** (`JobsProofs`).
`AppInv` (`DesktopApp`): what the window has taken and what still waits comes from the worker there is (`Sent`); "finished" is the last thing a
worker says, in the batch and in its channel (`EndIsLast`), so that no event is handled for a job after the one that started in its place;
a listener that shows a prompt or serves is busy, and then no job runs (`Busy`); the view and its close are of the job
(`Viewed`), and a listener that is switched on is there and not stopped (`Kept`). `OneSession`, the cardinality, follows from `Busy`.
`ListenerInv` (`HostListener`): whoever is asked about or served was verified in this connection and served by nobody before (`Numbered`), and
a listener that waits has closed everything before (`Closed`), wherever the three steps of a stop come in between.
`ViewerInv` (`RemoteViewer`): who has a stream, a writer and a sender, by the position of the worker (`Places`); what a stop, an abort and
the watchdog leave behind even if they come before the socket is registered (`Marks`); nothing but acknowledgements after Close, in the channel
and on the wire (`CloseIsLast`). `InTurn` says how the channel continues what was written: its first input is what is due
next, two inputs in it with none between them differ, and the last of them is the key as the window has it as long as it can send. With it, a
press that finds the channel full cannot break the turn. `WindowAgreeing`, `ListenerAnswering` and `ViewerSound` are the run's
`WindowAgrees`, `ListenerAnswers` and `ViewerIsSound`.

**Media** (`MediaProofs`).
`VideoInv` (`VideoPipe`) has two halves. `StreamInv`: each message fits behind the one before, from what the assembler holds to what
the host sends next (`Joined`); the fragments can be numbered by the frames they belong to, and the numbers go
on from what was decoded to what was produced (`Ranked`, so that `ReferencesComplete` can be seen to be kept by every
decoded frame). `WindowInv`: the pictures in flight ascend (`Distinct`), `bytes` is the sum of their sizes (`Totalled`, by a function of
partial sums that an acknowledgement out of the middle shifts), and each of them is in the encoder, being sent, on the wire or about to be
acknowledged. `StreamSound` is the run's `StreamIsSound`.
`RateInv` (`Congestion`): `Covered` relates the counters of `observe` to windows that really were healthy or
fast, and `Done` the frame rate to what the last window could do. The arithmetic is in four lemmas: a cut is
a cut and a growth a growth also after rounding, some tier is always left, the target is known to the encoder.
`ClipInv` (`ClipboardSync`): `Known`: a text this side's user did not copy is the fingerprint or will be looked
at for the first time. `Accounted`: messages and copies still to be sent together are no more than copies. From the first
follows `EchoPrevented`, from both `NoPingPong`.
`InputInv` (`RemoteInput`): what will be held of the window's generation once all messages on their way have been taken (`Down`, from what is held now
if the generations agree) is no more than the window believes, nor, in an undisturbed session, less (`Believed`); without the focus it is no key (`Focused`);
and in the middle of a frame the events yet to be handled lead from it to what the user holds (`Handled`, `Follows`). `Numbered` keeps the generations in order: what the window knows was advertised, and
no message is of a later one. `DownAfter` is defined by quantifiers over the messages, so that sending (`DownAfterOneMore`) and
receiving (`DownAfterOneLess`) are two lemmas without induction. `HostMirrored` is the run's `MirrorsHost`; what it says of keys the user has let go of leaves out the letter, whose release may not be sent (section 3).

The bytes of a window are a recursive function on `0 .. n`. What holds of all its values follows from `Counting`, which rests on
a fact the library states without an operator parameter, the pigeonhole principle, so that this induction is proved too.

**Model-checked only**: all liveness, which is out of the prover's reach with `ENABLED` (`RequestsResolve`, `AttemptsEnd`, `HostResolves`, `RouteEnds`,
`ReleasedOrEnded`, `StopEnds`, `MediaSettles`). Every invariant of a passing run is a theorem.

## 5. Not modelled

- **Codecs and capture** (`codec.rs`, `desktop.rs`, `pixels_avx2.rs`): calls into Media Foundation, DXGI and GDI. `VideoPipe` relies on
  their returning every picture in order, later, or failing; `HostDesktop` on their failing at any time.
- **Pixels, wire format, key derivation and device IDs**: conversions without state, left to their unit tests.
- **Cryptography**: what a signature or an AEAD guarantees is assumed where a client proves a key or a record opens.
- **Signed updates** (`updates.rs`): one thread that parses, verifies, copies and publishes; no state survives an interruption but
  an unreferenced file.
- **Settings and grant files, DPAPI, the start-up entry**: replaced through a synced temporary file like `identity.bin` in
  `KeyFiles`; what a grant lets in, and revoking it, is in `DesktopApp`.
- **Chat** is a phase of a session; its text is data. Contacts, pages and drawing of the window, and the legacy stub,
  scripts and deployment, have no protocol.
- Within modelled components: the pacing and copying of `relay_pair` is a phase that ends at any time; mouse moves and the wheel, which
  hold nothing down, are left out of `HostDesktop` and `RemoteInput`; the listing of incomplete transfers is read-only; taking a
  lock that was poisoned is left out, since no thread panics while holding one.
- The layers are not composed into one state machine. Each is modelled against everything its neighbours may do
  (any delay, any end, any order the layer below allows), and the module that shows what the neighbour does is named in its header.

## 6. Plan

1. A desktop session as one machine: `RemoteViewer` and `HostDesktop` over the two FIFO directions of `Pipe`.
2. Reconnection as one machine: `HostListener` and `RenderClient` against `Rendezvous`.
3. The engine of the asynchronous encoder (`codec.rs`): its events, input requests and draining.
