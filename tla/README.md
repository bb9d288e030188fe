# A TLA+ model of keybridgeBT

keybridgeBT forwards a Mac's keyboard and trackpad to a Windows PC over Bluetooth
RFCOMM. `mac-sender` captures input, encrypts it and writes it on a channel;
`win-receiver` opens the channel as a COM port, decrypts, and injects the input with
`SendInput`. This directory models the two programs and the link between them,
checks the models with TLC on small instances, and proves some of the results with
TLAPS for all of them. Paths below are relative to `src/`; `mac/` and `win/` stand
for `mac-sender/keybridgebt_mac/` and `win-receiver/keybridgebt_win/`.

## 1. Inventory

| Component | State | Operations | Meets the rest through |
|---|---|---|---|
| Mac daemon (`mac/main.py`) | `_forwarding`, `_encryptor`, `_seqno` under `_lock` | capture callbacks, `_send_packet`, connect / disconnect callbacks, `toggle_forwarding`, `stop` | called on four threads; calls `RFCOMMServer.send` |
| RFCOMM server (`mac/bt_server.py`) | `_channel` under its own `_lock`, `_connected` event | `send`, delegate callbacks on its run loop, publish, reject, close | IOBluetooth; the daemon's callbacks |
| Packet layer (`mac/packet.py`) | - | `build_packet`, `frame_packet`, `next_seqno` | pure |
| Crypto (`mac/crypto.py`, `win/crypto.py`) | push / pull state of a secretstream | `encrypt`, `header`; `decrypt` | libsodium |
| Capture (`mac/hid_reader.py`, `mac/trackpad_reader.py`) | running flag, device or tap, button mask | read loop, tap callback, `stop` | daemon callbacks, a thread each |
| Hotkey (`mac/toggle.py`) | running flag, tap | tap callback | `toggle_forwarding` |
| Windows daemon (`win/main.py`) | `_decryptor`, `_awaiting_header`, `_header_buf` under `_lock` | `_on_connected`, `_on_disconnected`, `_on_raw_data`, `stop` | called by the client thread, `stop` by the main thread |
| RFCOMM client (`win/bt_client.py`) | `_running`, `_serial`, `_connected` | connect loop with backoff, read loop, port detection, `stop` | pyserial; the daemon's callbacks |
| Packet reader (`win/packet.py`) | byte buffer, `_last_seqno` | `feed`, `validate_seqno`, `reset` | daemon |
| Rate limiter (`win/rate_limiter.py`) | timestamps of the last second | `allow`, `reset` | daemon |
| Injectors (`win/key_injector.py`, `win/mouse_injector.py`) | previous modifiers, keys, buttons | `inject_report`, `inject_pointer`, `release_all` | `SendInput`; called on two threads without a lock |
| Keycode map (`win/keycode_map.py`) | - | tables | injector |
| Pairing (`*/setup_wizard.py`, `mac/keychain.py`, `win/credential_store.py`) | four stored keys a side | `run_setup`, `has_completed_setup` | keyring; two humans |
| Menu bar, tray | - | display, toggle, quit | daemon |

What is hard: four Mac threads share state that is partly read outside locks; the
send happens after the lock is released; the end-to-end session is a cipher stream
that tolerates no gap and no exchange; connections end under either side at any
moment and both sides keep objects from one connection to the next; the Mac process
is killed and relaunched; releases of held keys race with injection.
`PROJECT.json` lists the hazards one by one, at their lines.

What makes each part correct:

- **Mac**: number and cipher position never part; nothing is sealed twice or written
  twice; one device's reports keep their order; a pause takes effect; the flags agree
  with the link once callbacks are done.
- **Windows**: what is opened is the current connection's stream, from its first
  message, without a gap; a lost link is retried; stop ends.
- **Injectors**: the desktop holds what the last report held, and nothing once a
  connection or the program has ended.
- **Capture and rate limiter**: once the last event of a device has arrived the desktop
  agrees with it, whatever was paused, refused or lost before; the mask follows the
  buttons; a report is refused only at the limit, and no burst gets past it.
- **Serial client and framing**: the packets of a connection come out whole and in
  order however the bytes are cut; retries are paced; the right port is found.
- **Pairing**: a complete store is of one run; no key is used that nobody confirmed;
  two running sides use the same key.
- **Both**: the abstract session stream (below), and a handshake that ends.

## 2. Modules

```
Link              the RFCOMM channel, units, callbacks        (external)
 |- MacSender     Daemon + RFCOMMServer, all their threads
 |   `- MacSenderProofs (with ModuloLemmas)
 |- WinReceiver   RFCOMMClient + Daemon + pipeline
 |   `- WinReceiverProofs
 `- KeyBridge     EXTENDS MacSender, WinReceiver: the whole path
     |  `- INSTANCE SessionStream   what a session promises
     `- KeyBridgeProofs   (with MacSenderProofs, WinReceiverProofs)
Injector          KeyInjector + MouseInjector on the desktop, client and main threads
 |- MCInjector    a small keyboard for it
 `- InjectorProofs
RateLimiter       the sliding window, in time
 `- HeldKeys      what the hands hold and what the desktop holds, end to end
     |- MCHeldKeys        its keys, buttons and symmetry
     `- HeldKeysProofs    with the limiter's lemmas
PointerCodec      the pointer event's bytes
 `- Framing       the bytes of a connection, header and frames
     `- ConnectLoop       ports, retries, and Framing on the Mac's port
         |- MCConnectLoop     its bytes and ports
         `- ConnectLoopProofs codec, framing and loop (with ModuloLemmas)
Pairing           both setup wizards, both key stores, main()
 `- PairingProofs
```

Three models of the path to the injectors differ in what they keep: `KeyBridge` has
every interleaving of the threads and no content, `HeldKeys` has content and only those
interleavings that decide what the desktop holds, `Framing` has the bytes. Each relies
on what another shows, and says where.

**Link.** Channels are numbered in the order they are opened; a reconnection is a new
one. `chan` is each channel's state, `wire[c]` everything written on it, `toMac` the
queue of delegate callbacks, `service` whether the Mac's service is published. The
unit is the write: a stream header, or one framed packet; `Deframed`, in `Framing`,
is why a reader may be given units. A packet record keeps what
the properties tell apart: its type, its clear sequence number, and for the ciphertext
`sess` and `idx`, the stream and the position it was pushed at. IOBluetooth and the
Windows stack are not in the repository, so every action of `Link` is external.

**MacSender.** The variables are the fields of `Daemon` and `RFCOMMServer`, plus `pc`
(where each thread is), `out` and `target` (the locals of a send in progress),
`accepting` (the argument of the accept callback), `sealed` (the state of each
encryptor, and the history of it) and `leaked` (history for the pause). A session is
named after the channel it is made for. A step is what runs between two points where
another thread can change what this one reads:

| Code | Steps |
|---|---|
| `_on_keyboard_report`, `_on_pointer_event` | `Capture` (reads `_forwarding`), `CheckConnected` (reads `is_connected`) |
| `_send_packet` | `Seal` or `SealDropped` (its lock section) |
| `send` | `SendFetch` or `SendNoChannel` (lock section), `SendWrite` or `SendFails` |
| accept callback | `ClientConnected`, `Announce`, `NewSession`, then a send of the header; or `ClientRejected` |
| closed callback | `ChannelClosed`, `DropChannel`, `EndSession` |
| `stop` | `StopCapture` three times, `TakeChannel` (lock section), `CloseChannel` (its failure swallowed), `ClearConnected`, `ProcessEnds` |
| toggle, crash, launchd | `Toggle`, `ProcessEnds`, `Launch` |

`Clients` is the environment: clients open and drop channels as they like, at most
`MaxOpen` at a time. One Windows PC is paired, so every run has `MaxOpen = 1`.
Assumed of IOBluetooth: callbacks run in order on the run loop; `closeChannel()` by
the Mac also produces the closed callback; publishing may fail. The joins of `stop()`
have timeouts, so `stop()` never waits for a thread in the model. Two bounds limit the
reports: `MaxReports` for each session, `MaxSealed` for all of them together; both count
the reports under way.

**WinReceiver.** `clientpc` is the client thread's place in `_connect_loop`,
`_read_loop` and the callbacks; `mainpc` the main thread's place in `stop()`.
`on_raw_data` is one action per fate of a unit: taken as header, misframed, refused by
number, refused by the cipher, rate limited, injected. `ReadChunk` is `serial.read`,
which needs an open port; `Deliver` is a turn of the callback over the units of that
chunk, which does not look at the port: `stop()` may have closed it. `port` is what
`_serial` has open, `serial` the connection whose chunk is being worked through. A unit
that arrives where another was expected leaves the reader off the frame boundaries;
`Garbled` stands for that, and nothing opens any more, since random bytes do not
authenticate. The rate limiter is the number of timestamps it holds, of which any may
expire between two reports. What an injected report does is `Injector`'s. `opened` is
history. The environment `AnySender` writes headers of the connection's own session and
packets whose number is their stream position (both are checked of `MacSender`),
otherwise anything, in any order, as often as it likes, of any session. `Exit` is the
join that ends with the client thread; `ProcessGone` is the end of the process under the
client thread wherever that is, because the join gave up after 5 seconds or by a kill.
Of the exceptions only `SerialException` is modelled: another one out of the connect
loop would end its thread.

**Injector.** The state is the memory of the two injectors (`prevModifiers`,
`prevKeys`, `prevButtons`), what the desktop holds (`down`), and for each of the two
threads its place and the batch it is about to send. `InjectReport`, `Releases`,
`Presses`, `SendKeys`, `StoreModifiers`, `StoreKeys` are `inject_report` line by line
(`key_injector.py:58-107`), since another thread may run `release_all`
(`109-123`) between any two of them; `InjectPointer`, `StoreButtons`, `SendButtons`
are `inject_pointer`, which remembers before it sends. `SendInput` inserts any part of
its batch, `MaxLost` events being missed in all: more than Windows does, which inserts
a prefix. `Connect` to `Exit` are the life of the connection as `WinReceiver` has it,
cut down to where the injectors are called; the join of `Exit` may give up with the
client thread anywhere. `Vk` is the keycode map as a function; the
assumptions on it say what the tables satisfy: every modifier has a virtual key of its
own and buttons are not keys. Codes may share a virtual key, as 0x28 and 0x58, 0x2E and
0x67, 0x31 and 0x32 do in `keycode_map.py`.

**RateLimiter.** `allow()` is `Allow` when it returns True and `Reject` when it returns
False; both evict first. The deque is the tail `passed[first ..]` of all events let
through since the last reset, so that its past can be spoken of. Time is a number that
`Tick` advances.

**HeldKeys.** From `keys` and `buttons`, what the user holds, to `down`, what the
Windows desktop holds. `KeyEvent` is `_read_loop` with `_on_keyboard_report`;
`ButtonEvent` and `Move` are the tap's callback with `_on_pointer_event`. All three end
in `Forward`, the test of `_forwarding`; a report that passed it is in `sending`, and
`Write` or `Lose` is what `send` makes of it later, so that a pause or a lost link may
come between. `ReadError` is the `break` of the read loop, `ButtonMissed` what the tap
does not see between its disabling by timeout and the callback's re-enabling. `Hotkey`
and `MenuToggle` are the two callers of `toggle_forwarding`. Each side learns of a lost
link in its own step, the Mac first (`LinkLost`) or the receiver (`Disconnect`).

On the receiver `InjectKeyboard` and `InjectPointer` are `_process_data` down to
`SendInput`, `Refuse` a refusal by number or cipher, `RateLimited` the limiter's.
`Refuse` may hit any report: which ones it hits is `WinReceiver`'s matter. `StopRelease`
and `StopReleased` are the `release_all` of `stop()`, which reads its memory and clears
it in two steps: reports are injected before, between and after. `ReceiverGone` ends the
process, after `stop()` or in the middle of a connection. `behind` and `missed` are
history: the devices whose last event did not reach the desktop, or of which it has let
go since, and the buttons whose last event the tap missed.

Left to `Injector`: events that `SendInput` does not insert, codes that share a virtual
key, and the steps inside one injection. A report is taken to name every key held, six
being the most it has room for; what a keyboard sends for a seventh is its own affair.

**PointerCodec** is the `"<BhhBB"` of both `main.py`s, with the width of a byte as a
constant: what is packed, and what is unpacked from it.

**Framing.** `stream` is the bytes of one connection and `taken` how many were read.
`WriteHeader` and `WriteFrame` are the Mac's writes, in any order, since a capture
thread may overtake the header. `Read(n)` is `_on_raw_data` on a chunk of any length up
to `ChunkLen`, what `serial.read` returns at most; the loop of `feed` is `FeedPacket`,
`FeedShort` and `FeedDone`, a turn each, and another chunk is read only when it has
ended. The cipher adds bytes in front and keeps the length: what `SessionStream` says of
it is not said again. `session` alternates, which is enough to tell a connection's bytes
from those of the one before.

**ConnectLoop** is `_connect_loop` on one thread. Its two paths are apart, as in the
code: without a port `NoPortFound` and then `SleepNoPort`, with its own sleep, doubling
and `continue`; with one `OpenPort` or `OpenFails`, the connection (`Stream`,
`LinkLost`), and `Sleep`. Ports appear and go, and the Mac serves or not, as they like.
`Choice` is `com_port` of the configuration or `detect_bt_port`, and only that port is
tried. A port opens when it is the Mac's and the Mac serves, or when it is one of
`Silent`: an incoming port opens with nobody behind it. `tries` and `slept` are history,
which stops counting at `MaxTries`. A connection's bytes are those of `Framing`, so it
can end in the middle of anything.

**Pairing.** For each side: where its program is, the wizard's locals (`own`, `peer`,
`storing`), its store, and the key its daemon loaded. `Start` is main()'s test of
`has_completed_setup`; `GenerateKeypair` to `StoreKey` are `run_setup`, a step ending
where a person is waited for or one entry is stored; `End` is any end of the process,
an exception of `keyring` included. The order of the two wizards differs and is kept:
the Mac displays its key before it asks for the other, Windows after. People may paste
any key either side ever displayed; they confirm only what is on both screens, and a
screen keeps its number after the process has ended. `DeleteKeys`, external, is the
script of `docs/RUNNING.md:403-425`: in order, stopping at a missing entry, and
possibly interrupted, which `cut` remembers.

**KeyBridge** runs both, the receiver being the only client, and reads units off the
wire in order, also after the channel has closed: `ReadUnits` fetches a chunk of as many
as there are, `TakeUnit` gives the pipeline the next one. It adds the two positions on
each channel, `fetched` and `taken`.

**SessionStream** is the promise: sealed messages are opened one after the other
from the first, each at most once, while their session is current, and no session is
returned to. `ImplementsSessionStream` is the refinement, with the decryptor's
session as `current`.

## 3. Runs

| Run | Instance | Shows |
|---|---|---|
| `mac_sender` | 2 channels, 2 readers, modulus 2, 2 reports a session and 3 in all, 1 failing write | `MacTypeOK`; `SeqnoMatchesStream`; `AtMostOnce`; `DeviceOrder`; `Coherent`; `PauseIsBounded`; `NothingLostOnALiveChannel` |
| `win_receiver` | 2 channels, limit 2, 3 messages a session, fair | `WinTypeOK`; `StreamInStep`; `OpensOwnSession`; `GapEndsSession`; `RetriesAfterLoss`; `StopEnds` |
| `reconnect` | 2 channels, both readers, 2 reports a session and 3 in all, no stop or pause | `BridgeTypeOK`; `OpensTheCleanPrefix`; `ImplementsSessionStream`, with every order of writes and reports carried over a reconnection |
| `handshake` | 1 channel, keyboard, 1 report, no pause, stops and crashes on both sides, fair | `HandshakeEnds`, `HeaderIsSent` |
| `injector` | 4 key codes of which 2 share a key and 1 is not whitelisted, 1 modifier, 1 button, 1 lost event, a stop whose join may give up | `InjTypeOK`; `DesktopFollowsReports`; `ReleasedOnDisconnect`; `CleanStop` |
| `pairing` | 4 key pairs, deletions, ends of either program anywhere | `PairTypeOK`; `StoredTogether`; `RunsWithConfirmedKey`; `KeysAgree` |
| `held_keys` | 1 key, the hotkey, 2 side buttons on one bit, limit 1 in a window of 2, 1 report in flight | `HeldTypeOK`; `DesktopAgrees`; `MaskFollowsButtons`; `WindowBound`; `PauseFreezes`; `OrphansStay`; `RejectsOnlyWhenFull` |
| `serial_client` | 3 ports, 4 values to a byte, header of 2 bytes, 2 frames, chunks of up to 12 bytes, fair | `LoopTypeOK`; `Deframed`; `ContentArrives`; `BackoffPaces`; `ReachesTheMac`; `CatchesUp` |
| `header_race`, `wire_order`, `stop_race`, `scroll_sign` | small ones that fail | the findings below |

**Bounds.** Two channels are enough for everything that relates a connection to an
earlier one: a packet, a callback and a session each carry over to the next connection
only. Two reports in a session are enough for two captures to exchange places and for a
counter of modulus 2 to wrap; three in all leave a second one to the session before or
after that of a single one, carried over or not. Two readers can both be between lock
and write. The limiter's bound of 1 or 2 makes it reject. `MaxFailures` is the only
bound on the environment of the Mac: with none, a session may fail every write.
`MacStops`, `Pauses`, `WinStops` and `Stops` switch stop, crash and pause on.
`reconnect` leaves them out, to afford its reports and both readers; `mac_sender` and
`win_receiver` have them on each side, `handshake` on both together, and that the stream
survives them in the composition is proved (`SessionStreamImplemented`). In `KeyBridge`
sessions are shorter than `SeqMod`: past a wrap the receiver refuses everything (hazard
at `mac/packet.py:37`), which `OpensTheCleanPrefix` would report. `Injector` needs no
bound on reports; its state is finite. Four key pairs in `Pairing` are two runs of the
wizard on each side, or three and one: enough for a first pairing and a second over what
the first left.

In `held_keys` one key, the hotkey without modifiers, is all that a pause by hotkey
needs, and the two buttons share a bit as all but the first two buttons do
(`trackpad_reader.py:133`), so that one can hide the other; symmetry exchanges them. Key
and button events are unbounded; `MaxTime = 2` is one window: a second
event comes at once, halfway, or in time, and the first may come halfway as well. One report between the check of the pause and the receiver is
enough for it to be lost, refused, paused behind or injected into a `stop()`; the proofs
have any number, and any keys. In `serial_client` a byte has four values, so a short has
sixteen and the event of the instance is beyond it on either side, and scrolls both
below zero and past a byte. Chunks have any length up to 12 bytes; the longest stream
has 32. So the header can come with a frame behind it, the end of a frame with the
beginning of the next, and a frame in any number of pieces; the proofs have any
`ChunkLen`. The ports are listed worst first: one that stays silent, one that never
opens, the Mac's. `MAX_BACKOFF = 6` is reached after three doublings, and `MaxTries = 4`
counts past it.

`OpensTheCleanPrefix` has an exception that the larger instance taught: a packet of
an earlier session written into this one does no harm when its number is not new,
since the receiver skips it before it looks at the ciphertext. With a new number it
ends the session, like any gap.

**Fairness** is used for the liveness properties only. It says that the threads are
scheduled and that calls return: weak fairness of the run loop, of a capture in
progress, of a `stop()` that began, of the client thread. Strong fairness of `ReadFails`
and `ReadUnits` says that `serial.read` cannot time out for ever on a lost link, or on a
port that has bytes; a chunk has an end. That a join gives up is not counted on. Nobody
is assumed to type, connect, toggle, stop or crash. `OpenFails` and `NoPortFound` are
never ruled out: a client may never get to open a port, and `RetriesAfterLoss` promises
an attempt, not a success. `ConnectLoop` says more, since it knows when a port would
open: strong fairness of `OpenPort` (a port that would open, again and again when it is
tried, does not fail for ever), and of the loss of a channel whose Mac or port has gone;
weak fairness of
the thread, which is at a try that fails, a sleep or a read. Nobody has to write. `HeldKeys`
has no fairness and no liveness.

**Deadlock** is checked in every run but those of `Injector`, where the receiver
really exits and nothing starts it again.

## 4. Findings

- `header_race`, `mac/main.py:118`. The encryptor is published under the lock and the
  header is sent after it is released, while `is_connected` is already true. A
  capture thread can write a packet first. The receiver takes its first 24 bytes for
  the header, loses the frame boundaries, and opens nothing for the rest of the
  connection, with both sides showing "connected". `docs/TASKS.md:112` wants the
  header before any data.
- `wire_order`, `mac/main.py:140`. Numbers are taken under the lock and packets are
  written after it, so keyboard and pointer packets can exchange places on the wire;
  `docs/ARCHITECTURE.md:29` has numbers increase. Since the cipher stream admits no
  exchange either, one exchange ends the session: see `GapEndsSession`.
- `stop_race`, `win/main.py:87`. `stop()` calls `release_all` on the main thread while
  the client thread may be inside `inject_report`; the two share the memory of the last
  report without a lock. A press sent after `release_all`'s `SendInput`, and
  remembered before its clearing of the memory, is forgotten: the second `release_all`,
  at the end of the connection, finds nothing to release and a key stays held after the
  exit. `docs/TASKS.md:453` calls `release_all` critical safety. `CleanStop` shows that
  without this overlap the second release makes up for everything, as long as the join
  does not give up on the connection.
- `scroll_sign`, `win/main.py:159`. Both scroll deltas are packed modulo 256 and unpacked
  unsigned (`"<BhhBB"`), where `docs/ARCHITECTURE.md:52` has signed bytes: a scroll by -1
  arrives as 255. `ScrollLosesItsSign` is the theorem.

More follows from the models and is kept here and as hazards, without a run of its own:

- a report sealed before a disconnect is written on the channel of the next connection
  (`mac/bt_server.py:127`; `docs/TASKS.md:113` has an encryptor serve one session). If it
  is the first thing there, it costs that connection its session. `OpensOwnSession` and
  `ImplementsSessionStream` show that it is never typed;
- the closed callback does not look at which channel closed (`mac/bt_server.py:235`): with
  two clients the end of the first ends the second's session. With `MaxOpen = 2` TLC
  refutes `Coherent` in this way;
- `stop()` on the Mac takes the channel under the lock and closes it after
  (`mac/bt_server.py:246`): a capture thread that has sealed a report finds no channel and
  drops it, though the client's is open, and stays open until the process ends when
  `closeChannel()` raises, which is swallowed. `NothingLostOnALiveChannel` therefore ends
  where the channel is taken;
- what a receiver leaves held, by a kill, by a join that gave up or by `stop_race`, no
  restart frees, where `README.md:194` advises one: `OrphansStay` says that only a new
  press of the key does. While it runs, the end of a connection is not a cause;
- a pause releases nothing on the Windows side (`PauseFreezes`), where at least the
  hotkey stays down, and every key-down of the hotkey toggles, repeats included. The
  configured mask `0x180000` (`mac/main.py:32`, `docs/RUNNING.md:292`, "Cmd + Shift") is
  Cmd and Option; `mac/toggle.py:17` has Shift at `1 << 17`, so that Cmd+Shift+F12 does
  not match it;
- the limiter counts reports, presses and releases alike (`docs/TASKS.md:508` compares
  its 20 events with keys typed), and what it drops may be a release: the key is held
  until the next report;
- the backoff starts again at every open, so a port that opens and dies at once is
  tried every second or so, and only the first port of the best rank is ever tried. An
  incoming port that opened is never left, though the Mac's port appears:
  the exception in `ReachesTheMac`;
- the keyboard's thread ends for good at its first read error (`ReadError`); everything
  else runs on, and what was held stays held until the connection ends;
- the counter wraps inside a session while the receiver requires growth, and a header
  whose write fails is never sent again;
- `Injector` allows for keys that share a virtual key, and for lost events: the release
  of one Enter releases the other, and what `SendInput` missed is never sent again;
- after a deletion script was interrupted it cannot be run again (it raises at the
  entry that is gone), and a setup that then ends after its first store leaves a store
  that counts as complete, with the old shared key. Without `~cut`, TLC refutes
  `KeysAgree` in this way;
- once one side has stored its keys and the other has not, the other can never finish
  alone: every run has a new key, and the number on the finished side's screen is the
  old one. `KeysAgree` holds because of that, and both stores must be deleted.

## 5. Proofs

Each theorem holds for every value of the constants. Assumptions are the named
`ASSUME`s of the modules: bounds are naturals, the modulus exceeds 1, limits are
positive, the keymap is finite, a packet's length and number fit their fields. Four
theorems have a hypothesis of their own, named below: two ask for one client at a time,
which is how the programs are used, one for sessions shorter than the sequence numbers,
and one for what `^` means.

Every invariant, every action property and the refinement that the runs check has a
theorem.

`MacSenderProofs`:

- `TypeCorrect`: `Spec => []MacTypeOK`;
- `SeqnoCorrect`: `Spec => []SeqnoMatchesStream`. The invariant is inductive once the
  types are known: `Seal` reads number and position in one lock section and advances
  both, the arithmetic being `(a + 1) % m = ((a % m) + 1) % m` (`ModuloLemmas`);
  `NewSession` zeroes both; every other step either leaves them alone or moves an
  aligned item from `out` to `wire`;
- `PauseBounded`: `Spec => []PauseIsBounded`. The invariant has to be strengthened:
  while forwarding is paused, the reports leaked so far and the readers that have
  passed the check together number at most the readers (`PauseInv`), since
  `Capture` is closed and each `Seal` moves one reader from the second group to the
  first. The cardinality facts come from `FiniteSetTheorems`;
- `WrittenOnce` (`AtMostOnce`) and `DeviceOrderCorrect` (`DeviceOrder`), for any number
  of clients at once. Both say something of the wires that only holds because of what
  the threads still have in hand; `StreamInv` adds it: what a thread holds was sealed
  (`Counted`), is written nowhere and held by no other (`Unsent`), and comes after
  everything its device has written (`Latest`); and the run loop is told once of a
  channel (`OpenedOnce`), so that no session begins twice;
- `CoherentCorrect` (`Coherent`), under `MaxOpen = 1`. `Coherent` speaks of the moments
  when the run loop is idle and nothing waits; `QueueInv` says what holds in between:
  the last callback in the queue is about the channel that is open, or says that none
  is, and when the queue is empty the run loop is as far as `Serving` or `Clearing`
  says. With two clients it is false: see section 4;
- `NothingLostCorrect` (`NothingLostOnALiveChannel`), under `MaxOpen = 1`, until `stop()`
  takes the channel: `TargetInv` says that a report or header of an open channel's
  session that is about to be written goes to that channel, so the one way to lose it is
  a write that fails, which is counted.

`WinReceiverProofs`, against any sender: `WinTypeCorrect`, `StreamCorrect`
(`StreamInStep`), `OwnSessionCorrect` (`OpensOwnSession`) and `GapIsFinal`
(`GapEndsSession`). None of them is inductive. `WinInv` adds where the client thread
holds no port and no decryptor, that nothing of a channel is opened before its header
was taken, and that the decryptor's session is that of the connection being read, whose
port `stop()` may have closed (`OnConnection`); so `Decrypted` can only open the next
message of that session (`DecryptedIsNext`), from which the two action properties follow.

`KeyBridgeProofs`, for the two programs on one link:

- `BridgeImplementsMac`: beside the receiver the Mac does what `MacSender` allows it, so
  that the theorems above hold of the whole path. `BridgeTypeCorrect` adds the types of
  the receiver and of its positions;
- `SessionStreamImplemented`: `BridgeSpec => ImplementsSessionStream`. Each action is a
  step of `SessionStream` or a stutter. `BridgeInv` carries the invariants of the two
  sides into the composition, from which a message that is opened is the next of the
  session of the connection being read, and was sealed; `ReadInv` says that a chunk
  being worked through lies within what was read of that connection's channel;
  `OrderInv` adds that channels are used in order, so that no session is returned to;
- `CleanPrefixOpened` (`OpensTheCleanPrefix`), under `MaxReports <= SeqMod`: a session
  carries no more reports than there are numbers, 2^32, past which they wrap and the
  receiver refuses all (hazard at `mac/packet.py:37`). Then a packet's number is its
  position in its stream (`Numbered`, from `SeqnoCorrect`). `PipelineInv` is what the
  receiver knows of the prefix it has read: while all of it was in place, it expects the
  next message and has had every number below (`InStep`); afterwards it has lost the
  stream or taken a number it cannot go back on (`Spent`). A unit in place is opened
  (`ReadInPlace`), one out of place is not and ends the prefix (`ReadOutOfPlace`), and
  what the Mac writes meanwhile moves nothing (`PrefixStays`).

`InjectorProofs`, for any finite keyboard and any lost events: `InjTypeCorrect`,
`FollowsReports` (`DesktopFollowsReports`), `DisconnectReleases`
(`ReleasedOnDisconnect`) and `StopReleasesAll` (`CleanStop`). These count what is down
against the events lost, at the places where no injection is in progress;
`ReleasedOnDisconnect` once the client thread has left a connection, with `stop()` at
any of its steps on the other thread. `InjInv` says it at every step of both threads,
until a `release_all` of `stop()` has overlapped an injection: what is down and no
longer remembered was lost (`HeldCount`); while a report is injected, the desktop
differs from what it should hold at that step by what was lost (`GapCount`); and a batch
in hand is the difference between the memory and the report, or covers all that is
remembered (`ClientInputs`, `ReleaseInputs`). Once they have overlapped nothing is
claimed: that is the finding `stop_race`.

`PairingProofs`: `PairTypeCorrect`, `StoredTogetherCorrect`, `ConfirmedCorrect` and
`AgreementCorrect` (`KeysAgree`). `PairInv` says that the shared key is in a store only
when a whole run is, that it is then the number on that side's screen, and that any two
sides past their confirmation (`Committed`) show the same number. `Confirm` is the one
step that commits a side and requires equal screens; `PasteKey` is the one that changes
a screen, and happens only on a side that is not committed.

`HeldKeysProofs`: `HeldTypeCorrect`, `WindowBoundCorrect`, `RejectsCorrect`,
`MaskCorrect`, `DesktopCorrect` (`DesktopAgrees`), `OrphansCorrect` and `PauseCorrect`,
for any keys, hotkey, buttons, bits, limit and number of reports in flight. The
invariant `HeldInv` adds `Remembered` (what the receiver remembers is down, nothing is
remembered without a connection, and what `stop()` is about to release is no orphan),
`SendingInv` (a report past the check says what its device says now) and `WireInv`: of a
device that is not `behind` and has nothing to write, the last report on the wire says
what the device says now, and the receiver remembers that when none is on the wire. An
action captures (`ForwardInStep`), writes (`WriteInStep`), takes a report off the wire
(`TakeInStep`), or is one of the rest (`QuietInStep`). The orphans are settled by looking
at the few ways the desktop can change (`DesktopStep`). For the pause `PauseStep` counts
what is in flight, which needs `sending` finite (`Counted`): a write only moves a report
from `sending` to the wire, and nothing but a report taken off the wire changes the
desktop while the connection lasts and nobody stops the receiver.
`WindowBound` is not inductive either: `Ordered` (events are let through in time order,
none in the future) and `Gone` (what was evicted is a window or more ago) make it so,
since `Allow` then finds the event `MaxEvents` places back among the evicted.

`ConnectLoopProofs`, for any even number of values to a byte, any header, reports,
events, chunks, ports and cap:

- the codec: a short survives packing (`ShortRoundTrip`); a pointer event arrives as
  `AsReceived` says (`MotionArrives`), its buttons exact and its movement clamped, which
  is what `ContentArrives` asks; a scroll is exact from 0 to 255 only
  (`ScrollLosesItsSign`), which is why `ScrollArrives` is violated;
- `DeframedCorrect` (`Deframed`) and `ContentCorrect` (`ContentArrives`). `Deframed`
  speaks of the pauses between two chunks; `FramingInv` holds at every turn of `feed`'s
  loop. On the Mac's side the stream is the header and then one frame behind the other
  (`LayoutInv`); on the reader's, the bytes collected for the header are a prefix of the
  stream (`CollectInv`), and afterwards the buffer is the segment of the stream from
  the end of the last frame returned to the last byte read (`BufferInv`). Then the
  buffer begins at a frame (`AtFrame`), a length in it is a frame's length
  (`FrameBytes`), and `FeedShort` cannot happen. A frame written meanwhile only
  lengthens the stream behind what was read (`WriteKeepsReader`), and a connection that
  ends anywhere leaves nothing (`FreshFraming`). When a capture thread wrote before the
  header, only the types are claimed: that is the finding `header_race`;
- `LoopTypeCorrect` (`LoopTypeOK`), with the invariant above, for the bytes;
- `BackoffCorrect` (`BackoffPaces`), by `BackoffInv`: the pause to come is the next of
  the doubling, and the time slept is at least the last one, on either path. Its
  hypothesis `PowersOfTwo` is what `^` means, of which the provers know no rule.

Only model-checked: all liveness (`RetriesAfterLoss`, `StopEnds`, `HandshakeEnds`,
`HeaderIsSent`, `ReachesTheMac`, `CatchesUp`), which is out of the prover's reach: it
rests on fairness and on `ENABLED`.

## 6. Not modelled, and the plan

Modelled only as far as section 2 says: the cipher, IOBluetooth, serial ports, the
`SendInput` structures, the tables of the keycode map (their shape is assumed, their
entries are data). Not modelled: the search for the keyboard device, the creation of the
taps and what happens without their permission, exceptions
of the connect loop other than `SerialException`, the hotkey's bit masks, the retry of
`_serve_loop`, display, packaging: they read the system once, or show things. Fingerprints
of different keys are taken to differ; by chance one in a million does not.

In the order planned:

1. The receiver's environment: that `KeyBridge`'s receiver is `WinReceiver`'s against a
   sender no worse than `AnySender`, as `BridgeImplementsMac` does for the Mac.
2. `Framing` under `Link`: that a stream of `Framing` whose header came first is read as
   the units of `Link`, in order, as a refinement.
3. The safety lemmas under the liveness properties: that where a thread waits, the step
   that wakes it is possible.
