# asli: a verification project

asli keeps the clipboards of one person's devices in step. Devices hold a shared account key, seal
what they copy with it, and exchange sealed frames through a relay that can read none of them. This
directory holds TLA+ models of the program, the TLC runs that check them on small instances, and
TLAPS proofs of the properties that matter most. Every definition is a translation of code; the
`map` of `PROJECT.json` says of which lines. The `hazards` there list what is hard to test in this
code, each at its line, with the property that would catch it going wrong.

Paths below are relative to the repository; `app`, `net`, `core`, `crypto`, `clipboard` and `history`
stand for the `src` directories of the crates `asli-app`, `asli-net` and so on.

## 1. The system

| Part | Where | State | What makes it correct |
|---|---|---|---|
| Room registry | `server/src/rooms.ts` | rooms, their connections, a retained clip each, recent message ids, a byte counter, presence timers | counter exact, nobody evicted while connected, only a fresh newest clip served |
| Relay connections | `server/src/server.ts` | a session per socket: handshake, nonce, room, buffer, parked clip, strikes, image assembly | rooms isolated, clips in order, newest never lost, messages delivered or the receiver given up |
| Relay limits | `server/src/limits.ts` | token buckets, daily quotas, counts per address | forgetting an address or a room gives it nothing |
| Client session | `net/session.rs`, `core/replay.rs` | handshake phase, what the relay is known to forward, peers, replay guard, assembly | a clip at most once and in its sender's order; nothing carried over from another connection |
| Client connection | `net/client.rs` | queue, copy not yet confirmed, pings awaited | copies in order; the newest arrives |
| Connection loop | `app/daemon.rs`, `net/backoff.rs`, `net/state.rs` | address, pacing, connection state, sequence reservation | never too soon, never a number twice |
| Clipboard bridge | `app/clipboard_io.rs`, `core/echo.rs` | inbox of the writer's thread, memory of own writes, wake-up flag | no echo while a write is remembered, the newest clip queued wins, a clear spares what others copied but for the moment between its look and its release |
| Platform clipboards | `clipboard/*.rs` | selections, offers, marks, deferred events | what is written reads back as sent, what is marked stays unread, the newest copy is read whole |
| Images | `crypto/chunk.rs`, `handleChunk`, `on_chunk` | pieces on three sides | whole or not at all, and the next one is not blocked |
| File transfer | `app/transfer/mod.rs`, `app/direct.rs` | two state machines, two threads, window, queue limits | what is reported sent was kept; private files stay local; both ends come to an end |
| Devices, key changes | `app/devices.rs`, `app/daemon.rs`, `crypto/rekey.rs` | list of devices, pinned keys, bundles under way | the list is right; whoever was removed has no later key; the maker of a key follows it |
| Enrolment | `app/enroll.rs` | invitation, attempts, answers by two ways | the key reaches the device approved and no other; nobody waits for ever |
| History | `history/lib.rs`, `app/history_store.rs`, `app/window.rs` | list, sealed file, revision, what is drawn | a start finds a list that was there |
| Secrets, settings, start-up | `app/secrets.rs`, `config.rs`, `instance.rs`, `cli.rs` | keychain and file, `config.json`, lock and request files | a start uses what was stored last; files are whole; one Asli comes up |

The relay is a single Node process: a handler runs to its end. What interleaves are connections,
draining sockets and timers. A client is a Tokio program of several tasks and threads joined by
channels, watch cells and mutexes; its connection loop races the socket, the clipboard and timers,
its clipboard has a thread that watches and a thread that writes, and files in its configuration
directory are shared with other processes.

How the parts interact: the platform watcher hands a copy to the bridge, which asks the echo guard
and gives it a number (`Sequence`); the connection sends it (`Link`) through the handshaken session
(`Handshake`); the relay orders, retains and forwards it (`Relay`, `Rooms`); the receiving session
judges it (`Replay`, `Images`) and the receiving bridge writes it (`Clipboard`, `Offers`). Device
messages take the same way and carry announcements (`Roster`), keys (`Rekey`), files (`Transfer`) and
invitations (`Enroll`), encoded as in `Messages`.

## 2. The modules

| Module | Models | Actions |
|---|---|---|
| `Rooms` | `rooms.ts` as functions from a registry to those it may leave | no state of its own |
| `Registry` | the registry as `server.ts` drives it, with a clock | join, leave, accepted clip, lookup, sweep |
| `Relay` | `server.ts` on top of `Rooms` | one per handler or timer: handshake, forwarding under backpressure, presence, heartbeat, flusher, shutdown |
| `Admission`, `Quotas` | connection limits; daily quotas and the sweeper | connection, refusal, close, charge, sweep, clock set back |
| `Sequence` | `reserve_sequence`, `raise_reservation`, `SequenceWatch` and the two threads that use them | one per step between which the other thread may run; crash, failed write |
| `Link` | `run_once`, `converse`, `send_local`, `coalesce`, confirmation | one per step between two awaits; five ways a connection can go wrong |
| `Handshake` | one `Session` over its connections, with relays that know fewer frame types | each frame handled, each frame sent, dial, end |
| `Supervisor` | `run_connection_loop`, `Backoff`, the state machine of `state.rs` | dial, outcomes by close code, waiting, a changed address |
| `Replay` | `ReplayGuard`, acceptance, `apply_clip`, the saved memory | delivery of any clip ever sealed, write, save, request, crash, restart |
| `Images` | `chunk.rs`, `handleChunk`, `on_chunk` | queue and send pieces, relay, receive, lose, time out |
| `Clipboard` | both bridge threads, the inbox and the four backends' own-write tokens | copy, queue, interrupt, wake, write, confirm (X11's question, Windows' change number), the clear's look and its release, serve, look, report; the end of a memory by the clock |
| `Offers` | what each platform reads of an offer and offers for a clip, with the normalisation | look, send, write, look again |
| `Conversion` | the reading of an X11 selection, whole or in pieces, while copies go on | events, each answer, each piece, what is put aside, timeouts |
| `Selection` | the reading of a Wayland selection and the life of its offers | announcements, what is pending after a batch, the pipe, timeouts |
| `Transfer` | one file, directly or through the relay | offer, answer, fetcher and listener threads, pieces, acknowledgements, ticks, cancel, disconnection |
| `Roster` | presence, announcements, cards, the device list | connect, announce, relay, lists, departures |
| `Rekey` | making, sending and following an account key; removal | each step of sender and receivers, cards, goodbyes, dropped connections, refusals, a full queue, a store or wipe that fails, restart |
| `Enroll` | invitation and attempts, over the relay and nearby | both loops, clicks, answers, expiry |
| `Messages` | the messages of `asli-crypto`: what every encoder writes and, in tables of their own, what every decoder reads; frame, padding, signature, seal | write a field, sign and seal (or another build does, otherwise), relabel, open, read a field, be done or refuse |
| `History` | list, file, resealing, clearing, and the window that draws it | record, forget, clear, rekey, save steps, draw, crash |
| `Secrets` | keychain, fallback file, wiping, a drawn device key | each step between which the process may end: keychain, temporary file, rename, and the overwriting and the removal of an old file |
| `Settings`, `Register` | the saving of `config.json`; the abstract register it implements | lock, load, open, write, rename, crash |
| `Instance` | lock, restarts, request files | launch, claim, quit, leaving an account, command, watch |
| `MCRegistry`, `MCRelay` | symmetry for the runs of `Registry` and `Relay` | |
| `MCGuards`, `MCClipboard`, `MCDevice`, `MCStart` | several components, each on its own instance, in one model | |
| `RoomsProofs`, `RegistryProofs`, `RelayProofs`, `GuardsProofs` | proofs: the registry; the relay; sequence numbers, admission, quotas and messages | |
| `ClipboardProofs`, `TransferProofs`, `DeviceProofs`, `StartProofs` | proofs: the bridge and the reading on X11 and Wayland; file transfer; what `MCDevice` puts side by side; enrolment, start-up and settings | |

`MCGuards`, `MCClipboard`, `MCDevice` and `MCStart` put components that do not share state side by
side: `part`, fixed in the initial state, says which one a behaviour is of, its variables sit in slots
or stand still while another part runs, and each property is the component's own. Nothing is composed by it; it only lets one run ask one question of many.

`Relay` and `Registry` are built from the same `Rooms`: `Relay` keeps the clock still and says who is
sent what; `Registry` lets time pass and says what is kept. What `Relay` leaves to a choice, whether a
cap, a bucket or a quota refuses, is decided in `Admission` and `Quotas`.

Abstractions. A frame is a record of its kind and a number; an id, a room or a connection is a model
value; bytes are small numbers (in `Messages` a value is its bytes: lengths, counts, limits, padding and
trailing bytes are real, and the fixed fields, shorter than in the code, have a width each of their
own, so that two exchanged fields show); `bufferedAmount` counts frames. Signatures and sealing are ideal: records of what they bind.
A handler of the relay is atomic because Node runs it to its end. In the client a step ends where the
code awaits, unlocks, or shares what it reads or writes with a second thread or process.

A definition introduced by "A mistake" is a changed form of the definition below it, a plausible slip
in the code. `PROJECT.json` pairs each property with one that breaks it; nothing else uses them.

## 3. The runs

| Run | Shows | Bounds |
|---|---|---|
| `registry` | `BytesAccounted`, `ServesNewest` | four rooms, three slots, a budget of two with clips of one to three (three is too large to keep): a store evicts none, one or two others, a join evicts a room with a clip |
| `delivery` | `ClipsInOrder`, `MsgsNotDropped` | two connections of one room, every kind of frame, two clips, buffer limits one and two: below, at and above each |
| `lifecycle` | `RegistryMatchesSessions`, `RoomIsolation`, `PresenceCurrent` | three connections, three rooms, two slots: an eviction and a refusal for want of a slot both happen |
| `timers` | `NewestClipArrives` (liveness) | two connections, two clips, buffer limits zero and one |
| `guards` | `NumbersCovered`; `ForgettingMintsNothing`; `RoomQuotasKept`; `HeardIsSaid` | blocks of ten and twelve copies: the reservation is raised; two addresses, four sockets, bursts of two, the clock set back once; two rooms, windows of two ticks, the stretch looked at picked beforehand; texts, names, pieces and blobs of no byte or one, up to two addresses and two boxes, frames padded to four bytes and announcements to sixteen: the empty, the single and the full count occur, and padding of every length |
| `link` | `CopiesInOrder`, `NewestCopyArrives` (liveness) | three copies, one message, two lost connections, one failed send, one abandoned connection, one refused frame |
| `transfer` | `SentMeansKept`, `PrivateStaysLocal`, `NoNeedlessFailure`, `Settles` (liveness) | three pieces under a window of two, so that the window closes and opens; one fault of any kind anywhere, Same Network Only changed once |
| `clipboard` | `NoEcho`, `NewestWins`, `ClearSparesCopies`, `WorkIsTaken` (liveness); `NewestIsRead` | two clips, a token and a secret, three changes of either side, each platform; two applications and three copies of up to one piece more than the limit of two; one highlight |
| `device` | the twelve properties of `MCDevice` | per component in `Device.cfg`; each has one crash, loss, failure or refusal, and room for two of whatever may collide; three devices, two key changes and one card in `Rekey` |
| `start` | `OnlyTheApproved`, `EveryoneEnds`, `NoTransferLost`, `ComesBack` (liveness), `WholeConfigs` (refinement) | two devices with one code, one of them nearby, two clicks, one fault; three launches, two transfers and a key change asked for, one restart; four saves by the window's and the daemon's threads |
| `sequence_race`, `link_older_copy` | violated: see section 4 | as small as the counterexample |

The properties of `device`, by component:

- `LastBegunIsShown` (`Images`): with pieces lost, repeated, interleaved and timed out, what a receiver shows is whole and is the last image begun at the relay.
- `RestartKeepsList` (`History`): a start after a crash anywhere in a save, a clear or a resealing finds a list that was settled or about to be.
- `ReadsBack`, `SecretsUnread` (`Offers`): a clip written on another platform reads back as the text sent; nothing under a mark is read.
- `ListIsRight` (`Roster`): once all is quiet, whoever announced is listed under the connection it has and whoever left is not.
- `MakerFollows`, `RemovedStaysOut` (`Rekey`): the maker of a key ends on it when the others do, or has told the person that it could not save it; a device left out of a key never has a later one, and is sealed one only if its card came to the maker between its move and its restart.
- `LoadsLatest`, `DeviceKeyKept` (`Secrets`): a start uses the keys stored last or being stored, or fails on a file a crash left as zeros; and it keeps the device key the others pinned, where no crash or error left an old file.
- `NeverTooSoon` (`Supervisor`): no attempt comes before the delay the failures and the close codes so far ask for.
- `AboutThisConnection` (`Handshake`): what the session holds of a relay, and what it sends, is about the connection it has.
- `ClipsInOrder` (`Replay`): a device's clips are written at most once, in the order it made them, across restarts; a crash between a write and its save is the exception.

`HeardIsSaid` in `guards` is of `Messages`: for each of seventeen messages the decoder reads the fields
and values the encoder wrote, and refuses a body cut, lengthened or of another version, a frame padded
with something else and a frame under another header. What lies behind a clip's content is not looked
at, and one zero more in an announcement means nothing.

In `clipboard`, `NoEcho` and `ClearSparesCopies` name the one way each there is to the contrary: the
memory of an own write ended, by the clock, while the write was under way; a copy was made between two
calls of the writer's. Both happen in the run (section 4).

`NewestIsRead` in `clipboard` is of `Conversion` and `Selection`: once the X11 or Wayland watcher has gone
through its events, it reported the newest copy and all of it, however many were made while it read; on
Wayland no offer object is left over.

`registry`, `delivery` and `lifecycle` use the symmetry of rooms, connections and message ids, and
`device` that of its devices and contents; none of them checks liveness. Deadlock is not checked where the system may come to rest: every client gone,
the bounds used up, or the process stopped.

**Refinement.** `Settings` describes inodes, a shared temporary name, threads under a mutex and crashes
between any two system calls. `WholeConfigs` states that it implements `Register`: the value is what
`config.json` holds, what is offered are the configurations fully written under the temporary name. It
holds for the threads of one process. With a command in a terminal (`Commands` not empty), which the
mutex does not reach, it does not (section 4).

**Fairness.**
- `timers`: intervals and timers fire while the relay is up (`setInterval`, `setTimeout`), and a socket
  being closed is closed in the end (the library has a close timeout). Nothing is assumed of the
  network: `NewestClipArrives` has it as its premise.
- `link`: the client's task goes on (Tokio polls a task that is woken), and a relay that is there reads.
  That connections stop failing is a bound, not fairness.
- `transfer`: each thread and each tick of the pump goes on, the way from device to relay to device is
  read in order, and a connection lost comes back. Drops are faults, and there is one.
- `clipboard`: the writer's thread runs, and the call that wakes it, once begun, returns. Nothing is assumed of
  the person or the watcher.
- `start`: deadlines pass (the ten minutes of an invitation), a loop that has an outcome reaches its end,
  a process told to stop stops, and a command that took the lock to look returns it.

## 4. Where the words and the code part

Two runs end in a counterexample of a sentence in the repository:

- `sequence_race`: two threads raise the sequence reservation by reading the file and writing it, with
  nothing held in between. The later write can lower it, which the comment on `raise_reservation`
  excludes. `NumbersCovered` makes an exception for it, as for a write that fails.
- `link_older_copy`: a copy is noted as unconfirmed only once its ping has been written. If the ping
  fails after the copy was read, the older copy before it is sent again, after the newer one.

The modules state further sentences that TLC refutes; each stands at the end of its module and can be
checked by naming it as an invariant or property of that module alone; some need a constant the runs
switch off (`Late`, `Overlaps`, `Together`, `Vanishes`, a member of `Commands`). Most cost little.

| Statement | What the code does |
|---|---|
| `Link!UnconfirmedCopyKept` | a changed relay address drops the future of `run_once` (`app/daemon.rs:1674`), and with it the copy that `net/client.rs:319` says "goes out again on the next one" |
| `Handshake!AnnouncesWhereForwarded` | two `msg` frames are under way to a relay that knows only `announce`: the first refusal settles `msg`, the second is taken for a refusal of announcements, which then stop for this connection |
| `Transfer!LateFallsBack` | a receiver that waited too long closes the local connection before it asks through the relay (`app/direct.rs:162`); a sender whose write falls in between ends the transfer, though `app/direct.rs:229` says the relay carries it |
| `Clipboard!Pasteable` | on X11 the notice of an earlier copy is read after this device has taken the selection and drops the payload it is to serve (`clipboard/linux_x11.rs:759`); paste then finds nothing |
| `Clipboard!NeverEchoed` | the memory of an own write ends after five seconds by the clock (`app/clipboard_io.rs:232`, `core/echo.rs:125`), also while the write waits in the queue or its change for the watcher; the change is then a copy, where `app/clipboard_io.rs:218` says the guard "catches it at the clipboard" |
| `Clipboard!ClearSparesAll` | each platform asks whether the clipboard is its own and empties it in a second call, on Windows after waiting up to 255 ms for it to open; a copy made in between is erased, which the comments above the question exclude (`clipboard/linux_x11.rs:278`, `linux_wayland.rs:454`, `windows.rs:574`). On Windows the number of an own change is read after the clipboard was closed, and a copy made in between is taken for ours |
| `Conversion!LargeIsTold` | a text too large that comes in pieces ends as a read error and is swallowed, though `ClipContent::TooLarge` is "Reported so the person is told, not left wondering why it never arrived" |
| `Conversion!NewestIsRead` with `Late` | an answer that comes after the reader gave up is told apart by its target only (`clipboard/linux_x11.rs:437`); the next read asks for the same target, and takes a late refusal or a late list for its own |
| `Selection!OnlyTheFirstIsLeft` | a copy announced in one batch with the selection from before the start replaces it as pending and is taken for it: it is not reported, though "the first event describes whatever was already on the clipboard" |
| `Supervisor!NewAddressTaken` | the flag that asks for a reconnection is cleared after the address was read; an address saved in between is used only when this connection ends by itself |
| `Images!ImageStartsFresh` | the last piece of an image is lost and the next image is one piece long, which is no beginning to `handleChunk`: it is refused as interleaved, though `server.ts:402` says a begin always starts fresh |
| `Offers!UnreadableMeansNo` | on Windows a mark whose payload cannot be fetched counts as permission (`clipboard/windows.rs:374`), where the comment above `dword_permits` says it does not |
| `Roster!NewcomerLearns` | one device leaves and another joins within a presence delay: the count is the same, nobody announces, and the newcomer learns of nobody until the next change |
| `Rekey!NeverMovesAlone` | a bundle the relay refused for its rate is confirmed by the ping behind it; the maker moves to a key nobody received |
| `Rekey!ForgottenOnceMoved` | a device that has forgotten the one it removed hears its card before it restarts and lists it again (`app/devices.rs:199`), where `app/daemon.rs:104` calls the removed "forgotten once the move is done"; a later key is then sealed to it, though it is in no room to receive it |
| `Secrets!NeverTheOldAccount` | the keychain's service is away when an account is replaced or forgotten and back later: a start then uses the old one |
| `Secrets!FileIsOldOrNew` | a key file that is dropped is overwritten with zeros and then removed (`app/secrets.rs:250`); a process that ends in between leaves a file that is neither "the old contents or the new ones" (`app/secrets.rs:307`), and a start that comes to read it fails |
| `Enroll!AskedUntilAnswered`, `ExpiredUnused` | an approval is confirmed while the new device is between two connections and nobody sends it again; an invitation that ends before the confirmation is reported as unused though a device joined |
| `Instance!StartsWhenAlone`, `NoRekeyLost` | asking whether Asli runs takes its lock for a moment, and a launch at that moment ends as "already running"; a second key change asked for within half a second replaces the first |
| `Settings!AlwaysParses`, `SettingsKept` | a command in a terminal shares the temporary name but not the mutex, and two saves interleave; every caller loads, changes and saves with no lock over the three, so that a setting changed in between is put back |
| `History!NothingLeft`, `ThumbnailIsRight`, `ForgetsTheRowShown` | a temporary file left by an interrupted save survives clearing and leaving the account (sealed); a row is named by its index when drawn, and the list may have moved under it |

Known and accepted by the models as what the code does: a frame refused for its rate is confirmed by
the ping behind it (`Link`); a budget below the largest clip is exceeded by that clip alone, since
`evictUntilWithinBudget` never gives up the clip just stored; quotas called rolling in
`docs/PROTOCOL.md` start afresh at a fixed time, hence "two allowances"; a peer whose number advanced
by more than `MAX_SEQ_JUMP` is refused from then on; a clip that arrives while sync is paused counts as
accepted; a copy sent again has a new number and reaches devices twice; a kill between the storing of a
new account key and the resealing of the history leaves a list that cannot be opened; a pending key
change does not survive its process; a request a command left is removed when the account is left; two key changes at once may leave devices on different keys; the
same clip twice in a row may be sent once too often (`Repeats` in `Clipboard`).

## 5. The proofs

TLC checks the instances of section 3; TLAPS proves the following for every value of the constants
that satisfies the named assumptions of the modules (`RoomsAssumption`, `RelayAssumption` and so on:
sets are finite, limits are positive, `None` is not a value). A proof module EXTENDS the module the
runs check, so a theorem is about the same properties. For the components that `MCDevice`, `MCGuards`,
`MCClipboard` and `MCStart` put side by side it says two things: the component's own specification implies the
property, and so does `MCSpec`. `PartStarts` and `PartGoesOn` carry one over to the other. For the
bridge `ModelIsBridge` says it once: every behaviour of `MCClipboard` is one of `Clipboard`.

The theorems have one pattern: an inductive invariant that holds at first, that every action keeps
(one lemma or step per action), and that implies the property. What is added to the property:

| Theorems | The inductive invariant, and why it is needed |
|---|---|
| `RelayProofs`: `RegistryAgrees`, `RoomsIsolated`, `ReadySessions` | `Occupied`: a room with someone in it is in the map, without which an eviction or a sweep takes connections along. `Handshakes`: a socket not connected has done nothing, and a ready session has a room and no nonce outstanding; without it a closed connection's slot could be in a room already when it authenticates |
| `RelayProofs`: `ClipsOrdered`, `MsgsKept`, `PresenceIsCurrent` | `Numbered`: no clip under way has a number the relay has not given out; `InOrder`: sent, buffered and parked clips of a receiver have rising numbers, in that order; `Counted`: the messages owed to a receiver are those in its buffer; and a room with a stale device has its presence timer, whatever becomes of the room |
| `RegistryProofs`: `NewestServed` | `Tidy`: only a room in the map keeps a clip, without which a room opened again would serve an old one; `KeepsNewest`: what a room keeps is its newest |
| `RegistryProofs`: `CounterIsRight`, `RetentionBounded` | `Kept`: the counter is the size of what the rooms keep (`Accounted`), each clip is small enough to be kept, and the total fits the budget or one clip. The total is the cardinality of a set of units, so that a clip that goes takes its own share with it by `BytesSplit`, without induction over the rooms |
| `ClipboardProofs`: `NewestIsWritten`, `CopiesSpared`, `NeverEchoes` | `Covered`: every own write on the clipboard is in the echo guard's memory, on its way to it, marked by the platform, or its memory ended while it was under way; `Once`: in one of those places only; `NumberIsOurs`, `AlwaysSeen`: whose a change number or a notice can be; `OwedIsLast`: the last write in the inbox is the newest queued; `CameBetween`: what somebody copied is there between two of the writer's calls only if it came in between; `ServedOrCancelled`: on Wayland, a source still served is the selection or its cancellation is under way |
| `GuardsProofs`: `NumbersAlwaysCovered` | `Counted`: a copy is counted by the watch before it gets a number, up to those sent again; `Ahead`: count and margin stay below a ceiling that is on disk, except while the bridge raises it; `WithinMargin`, `NothingHeldWhenOff` |
| `GuardsProofs`: `ForgettingIsFree` | `NotAhead`: no bucket is ahead of the clock; `Even`: the bucket kept and the one never forgotten hold the same at the present time |
| `GuardsProofs`: `TwoAllowancesAtMost` | `Covered`, through `Owed`: before the stretch a room owes nothing, in it what its open window tells and, if that began in it, a full one more; afterwards two full ones; and two for each time the clock was set back |
| `DeviceProofs`: `AttemptsInTime` | `FloorCovers` and `WaitCovers`: floor and wait outlast what the relay asked for; `FailuresCount`: every failure since the last stable connection counts; `UpIsWelcome` |
| `DeviceProofs`: `StartsUseLatest`, `DeviceKeyStays` | `StoreSteps`: what each step of an operation cut short leaves behind, a file of zeros included; `StoreLatest`: what can be found is what was stored last or was being stored, or zeros; `PinsAgree`: whatever can be found carries the device key pinned for its account, as long as no old file was left |
| `DeviceProofs`: `HoldsOfThisConnection` | `UpHere`, `DownHere`: what the frames under way, either way, may say of the connection and of its relay; the session is ready only under this connection's number and with this relay's limit, and takes messages for refused only where they are |
| `DeviceProofs`: `RemovedAreOut` | `Forgotten`: whoever has a key lists nobody that key left out, but for those whose card came after the move; `BundlesMakeSense`: a bundle is made on an earlier key, not by a device it removes, and is sealed to none of those; `InItsRoom`, `OnItsWay`: cards and bundles stay in the room of the key they were sent under, so that a device left out, which is in none of the later rooms, is neither heard there nor reached |
| `DeviceProofs`: `MakerIsFollowed` | `Alone`: with one change at a time, all that is under way is about the key made last; `Follows`: once that key may be elsewhere, its maker has it, has told the person that it could not save it, or goes on sending its bundle, which it then can; `Earlier`: the keys before it are settled |
| `DeviceProofs`: `OnlineIsListed` | `CountsTold`: between two broadcasts connections only come or only go, so a device was told no more, or more, than there are now; `CardsDated`: the cards of a device's other connections are older than its last; `Learnt`: whoever is connected will say so yet, has said so in a card not read, or is listed under its connection with nothing newer under way; `Present`: whoever is listed has a connection in the room, or the list is about to be emptied |
| `DeviceProofs`: `NoClipAgain` | `GuardCovers`: the highest numbers, in memory or on disk, cover every clip written, and the clip in hand is its device's newest; `Listed`: the order of recency lists every device once, so that the guard never pushes one out and restores what was saved |
| `DeviceProofs`: `StartsFindTheList` | `Findable`: what a start would find at this moment is a list it may find; `SaveUnderWay`: what is about to be renamed is what is in memory, and a file about to be overwritten may be found empty; `KeysReached`: no file is under a key the account has not reached |
| `DeviceProofs`: `MarkedStaysUnread` | `MarkSeen`: a clip written concealed carries a mark that the watcher of the same device looks for |
| `DeviceProofs`: `LastImageIsShown` | `ImageTypes`, with `Genuine`: a piece under way is one sealed for the position it claims; `InPlace`: what is put together holds pieces of one image in their places; `Numbered`, `Accepted`: numbers are used once and what was shown is not newer than the last accepted; `UnreadIsNowhere`: an image none of whose pieces was read is nowhere but with its sender; `CleanRun`: of the image begun last the first pieces are forwarded, fewer have arrived, and those between are on their way in order with no other beginning among them |
| `GuardsProofs`: `WhatIsSaidIsHeard` | `TablesAgree`, `FollowsIs`, `PrefixIs`, `ValueIs`: each decoder names the fields of its encoder, continues after a count as it did, takes lengths of the same width and accepts every value let through; these compare two tables each, which the code has too. `Script`: the values written so far determine, before each field, the fields still to come and the bytes there are, so no induction over the fields is needed; `FrameIs`, `BodyFound`: the frame opened is the body sealed; `BecameOf`: what damage and padding left of those bytes; `Progress`: the reader stands at the place in the script that the values it read say, and got nothing wrong, until the bytes differ |
| `ClipboardProofs`: `NewestCopyIsRead`, X11 | `ReadInv`: reader, applications and server are together in one of five places (`AtRest`, `IsAsked`, `IsAnswered`, `IsWanted`, `IsThere`), each of which says what is in the inbox, the property and the event queue, and which pieces are read and which are to come; and as long as no new owner is noticed or about to be (`Fresh`), all of it is of the newest copy. Without the places an answer could be one to an earlier question |
| `ClipboardProofs`: `NewestCopyIsRead`, Wayland | `Alive`, `Named`, `Wired`: the offer objects there are are exactly those still to be announced, the one kept and the one read, each once, so that a destroyed number used again is never taken for the old offer; `Formats`: what is known of an offer is what it carries; `NewestOffer`: the selection announced last is the newest, and once none is under way what is kept or read is the newest or was told. `Spare` shows by counting that a free number is always there |
| `TransferProofs`: `SuccessIsKept`, `FileStaysLocal` | `Types`, `Reported`, `Carried`, `Unoffered`, `Noted`, `Addressed`: what each frame under way proves of the end that sent it, so that the last acknowledgement is that of a file kept, and a relayed frame that of a transfer both ends allow |
| `TransferProofs`: `NoFailureIsNeedless` | `CalmInv`: as long as nothing went wrong the two ends and the wires are in one of a list of places (`Nothing`, `Proposed`, `Asked`, `Fetching`, `Relayed`, ... `Settled`), each of which says what is under way and which numbers agree; `Steady` and `Counted` bound the window and the counters in between |
| `StartProofs`: `ConfigsAreWhole` (refinement), `ConfigsParse` | `OneSaves`: who saves holds the mutex; `HoldsConfig`; `TmpIsMine`: `config.tmp` is another file than `config.json`, and the open one of whoever saves. `UnusedExists` shows by counting that a fresh inode is always there |
| `StartProofs`: `ApprovedAlone` | `FirstCounts`: the answer is the first decision; `Told`, `Sent`: what an attempt was told is what the answer says to it; `Nearby` |
| `StartProofs`: `TransfersRead` | `LockOwned`: the lock has one owner; `ReadByOwner`, `OneCommand`, `SlotFree`, `ReadIsThere`: what was read is in the running Asli's hands and a writing command found the file gone |

Hypotheses beyond the assumptions, each a case in which the code does not keep the promise (section 4)
or the runs leave out: `~Repeats` (`NeverEchoes`: a clip put there again while an own write of it is
remembered or under way may be sent once too often), `~Vanishes` (`StartsUseLatest`, `DeviceKeyStays`:
the keychain's service does not go away once used), `~Concurrent` (`MakerIsFollowed`: one device changes the key at a time), `~Overlaps`
(`OnlineIsListed`: no broadcast reports comings and goings together), `~Late` (`NewestCopyIsRead`: no
answer comes after the X11 reader gave up), `Commands = {}`
(`ConfigsAreWhole`, `ConfigsParse`: no command in a terminal saves), `~Together` (`TransfersRead`:
commands come one after the other), and `MarksAreNoFiles` (`StartsFindTheList`: the model's two marks
for damaged files are not sealed lists).

What stays with TLC:

- Liveness (`NewestClipArrives`, `NewestCopyArrives`, `Settles`, `WorkIsTaken`, `EveryoneEnds`,
  `ComesBack`): fairness and ENABLED are outside the prover's reach.
- `CopiesInOrder`, `ReadsBack`: they rest on what a fold or a recursive definition over sequences
  computes (the filter of `coalesce`, normalisation), and induction over data cannot be stated to the
  prover.

## 6. What is not modelled

- In `Rekey`, a process killed between storing a key, or forgetting an account, and the restart that
  follows; processes end there only to restart. What such a kill leaves of the stored key is in
  `Secrets`, what it leaves of the history is named at the end of section 4.
- In `Clipboard`, a write that fails after it has emptied the clipboard.
- Cryptographic primitives, encodings (JSON, base32, PNG), the relay's configuration and log: no state
  to explore, or pure conversion.
- The health and metrics endpoints; syntax checks of frames, of which only the outcome appears.
- The window beyond what it does to shared state (settings, history list, invitations), the tray,
  notifications, shortcuts, drag and drop, installation: presentation and I/O.
- Clock skew estimation and pacing by wall-clock time in the client: choices in the models.
- The macOS and Windows event loops below what they offer and read; the window systems themselves are
  what the code expects of them, marked external in the map.
- In `Replay`, more devices than the guard has room for.

## 7. What is left

A composition worth stating is that sender, relay and receiver together implement a last-write-wins
register per account: `Link`, `Relay` and `Replay` each keep the order it needs.
