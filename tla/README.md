# zerowire in TLA+

zerowire shares a USB device that is plugged into one machine (the *sender*: an
Android phone, or a Linux box) with another one (the *receiver*: a Linux
desktop) over TCP. Two lanes exist: the *HID fast lane*, in which the sender
reads input reports from a mouse or keyboard and the receiver replays them on a
virtual uinput device, and *USB/IP*, in which the receiver's kernel (vhci-hcd)
sends URBs that the sender executes on the real device.

This directory models the parts of the code that run concurrently, fail, or
keep state over several steps, checks them with TLC on small instances, and
proves with TLAPS, for every instance, the safety properties of the sessions, the
services, the pumps and the report decoder.
Paths below are relative to `src/`; `sender/` stands for
`android-sender/app/src/main/kotlin/zero/builtby/zerowire/sender/`.

## The system's parts

| Part | State it keeps | Operations | Talks to | What is hard |
|---|---|---|---|---|
| `sender/SenderService.kt` | listener, session list, accept flag, process-global `ServiceState`, notification | `onCreate`, `onDestroy`, accept loop, session threads, NsdManager callbacks | starts one `ReceiverSession` per connection | threads of two instances share the statics; `onDestroy` races the accept loop and sessions |
| `sender/ReceiverSession.kt`, `HidEndpoint.kt`, `UsbInventory.kt` | `running`, the device snapshot, the claimed interface, `seq` | handshake, bind, report loop, `stop()` | receiver, by envelopes; Android's USB host API | `stop()` from another thread, unplugging, blocking writes, failure after claiming |
| `desktop-linux/src/receiver.rs` (`run_receive`), `wire.rs` | chosen device, uinput device, `last_seq`, `stop` | mirror of the handshake, apply reports | sender; uinput | blocking read without timeout, order of teardown, the sequence wrap |
| `receiver.rs` (`apply_*_report`), `uinput.rs` | buttons and keys held | reports to key events | kernel | keys lost or stuck over a sequence of reports |
| `sender/UsbIpHost.kt`, `UsbIpFrame.kt` | claimed interfaces, `cancelled` set, `stopped` | pump loop, submit, unlink | receiver's vhci-hcd | unlink against completion, bodies on a shared stream, reuse of sequence numbers |
| `desktop-linux/src/urb_pump.rs`, `urb_driver.rs`, `bin/simulate_android_pump.rs`, `bin/mock_sender.rs` | fake device, transcript | the same pump in Rust and its scripted client | each other | one reply per request, in order |
| `usbip_receiver.rs`, `usbip.rs` | vhci port | pick a free port, attach, detach | kernel | the port may be taken between look and attach |
| `bin/linux_sender.rs` | one session at a time, its snapshot of the hidraw nodes, `seq` | accept, enumerate, handshake, pump reports | every mode of `zerowire-cli` | clients queue behind a stuck or idle one; nodes vanish; interfaces of one device share a busid |
| `hid_descriptor.rs`, `HidEndpoint.classifyDescriptor` | none | classify a report descriptor | | two implementations of one function, items of several sizes, truncation |
| `protocol/src/*`, `wire.rs`, `WireProtocol.kt` | the bytes of an unfinished envelope | envelopes, control messages, HID and USB/IP frames | TCP | partial reads, lengths, the limit, signed and unsigned fields, two languages |
| `discovery.rs` | none | mDNS browse, pick by name | LAN | |
| `tls.rs`, `psk.rs`, `TlsServer.kt`, `Psk.kt`, `PairingCodes.kt` | pairing code | key derivation, handshake, pinning in both directions | every Rust receiver and fixture sender | one side with a code and one without, different codes |

What makes each part correct:

* session: the two handshakes stay in step; both sides mean the same device;
  reports arrive once each and in order, across the 16-bit wrap; however either
  side ends (return, exception, `stop()`, kill) it leaves no claimed interface,
  socket or virtual device; every way of ending reaches the other side;
* service: the session count shown is the number of sessions; everything that
  was started is stopped by `onDestroy`; a long session does not keep the next
  receiver waiting; the mDNS flag agrees with NsdManager;
* pump: one reply per request, in order, no body byte read as a header, every
  interface released, every URB answered in bounded time;
* report decoding: a key is down on the virtual device exactly while it is down
  in the reports;
* USB/IP session: the device attached is the one asked for, success is reported
  only of what the other side did, no frame is lost, nobody waits for ever, and
  control messages pass only between ends with the same pairing code;
* Linux sender: the interface bound is the one the client picked, or one it will
  refuse; the reports it reads are all sent, clients are served in turn, a departed
  one is let go;
* framing: the reader gets the messages that were written, whatever pieces the
  stream comes in;
* descriptors: both classifiers decide by the first Generic Desktop usage.

`PROJECT.json` lists the hazards of this code line by line with the properties
aimed at them.

## Modules

| Module | What it is |
|---|---|
| `HidSession` | one session over one TCP connection: `ReceiverSession.run`, `run_receive`, `stop()`, and the environment |
| `MCHidSession` | its instance for TLC |
| `HidSessionProofs` | TLAPS proofs about `HidSession` |
| `SenderService` | the Android service around the sessions |
| `MCSenderService` | its instance for TLC |
| `SenderServiceProofs` | TLAPS proofs about `SenderService` |
| `UrbService` | abstract: a URB service that serves each command once, in order, by a reply its kind admits |
| `UrbPump` | the Android USB/IP pump, `stop()`, the device and vhci-hcd; implements `UrbService` |
| `MCUrbPump` | its instance for TLC |
| `UrbPumpProofs` | TLAPS proofs about `UrbPump` |
| `UsbIpSession` | USB/IP receivers, the senders a Linux host can run, TLS between them, and the ports of vhci-hcd |
| `MCUsbIpSession` | its instance for TLC |
| `UsbIpSessionProofs` | TLAPS proofs about `UsbIpSession` |
| `LinuxSender` | the serial Linux HID sender and the programs that dial it |
| `MCLinuxSender` | its instance for TLC |
| `LinuxSenderProofs` | TLAPS proofs about `LinuxSender` |
| `QueueLemmas` | lemmas about message queues, for the two modules of proofs above |
| `MessageChannel` | abstract: a connection as a queue of messages, which the session modules assume |
| `Framing` | envelopes, HID and USB/IP frames over a byte stream; implements `MessageChannel` |
| `HidDescriptor` | the two descriptor classifiers and a reference for them |
| `MCFraming` | the instance of `Framing` for TLC; extends `HidDescriptor` so that its assumptions are evaluated |
| `KeyMap` | `hid_usage_to_linux_key`, the modifier and button codes, over every usage byte |
| `HidReports` | how the receiver turns a sequence of reports into key events |
| `MCHidReports` | its instance for TLC, with the codes of `KeyMap` |
| `HidReportsProofs` | TLAPS proofs about `HidReports` |

### HidSession

The connection is two FIFO queues (`toS`, `toR`) of envelopes; `Fin` at the end
of a queue is the peer's close. `link` may go down once: what was not delivered
is lost and nobody is told. The program counters name the statement a thread is
about to run:

* `sPc`: `hello`, `list`, `attach`, `bind` wait for a request
  (`SHello` ... `SBind`); `ack` writes BIND_ACK; `stream` is the head of
  `while (running)`, `read` is in `readReport`, `send` in the write; `unbind`,
  `release`, `closing` are the way out (`ep.close()`, `socket.close()`).
* `rPc`: `start`, `hello_ack`, `device_list`, `attach_ok` are the handshake,
  `loop` the test of `stop`, `recv` the blocking read, `drop` and `close` the
  teardown in Rust's drop order.

`stop()` is two steps (`SStopFlag`, `SStopClose`) because the session thread can
run between them; the polite UNBIND reaches the wire only in that window.
`SReadNull` is every way `readReport` returns null, the error of an unplugged
device included. A write blocks when `NetCap` envelopes are under way; towards
a dead peer it may succeed for a while. What a program does on a message it
does not expect is modelled (`SUnexpected`, `RUnexpected`, the `fault`
variable), so that `NoFault` is a statement about the code and not an
assumption. Keepalive, control and USB/IP envelopes in the receiver's loop are
skipped by the code; this sender never sends them, so they do not occur.
One read together with the reply computed from it is one step: the thread touches
nothing shared in between except the socket, whose closing by `stop()` shows at
the next read or write.

### SenderService

`OnCreate`, then `onDestroy` in its steps `DestroyFlag` (flag, unregister),
`DestroyClose` (listener), `DestroyStop` (one `stop()` of the `forEach`),
`DestroyClear`, `DestroyReset`. Each instance has an accept loop with a
counter that moves between the statements that touch shared state (`ACount`,
`ASnapshot`, `ANotify`, `AAdd`, `ASpawn`); each connection has a session thread
(`TStart` ... `TNotify`; the `finally` also runs in a thread that throws,
`throw_remove` to `throw_notify`, before the exception leaves it). `TRun` stands for a whole `ReceiverSession.run`, whose
inside is `HidSession`. NsdManager is outside the repository: it
answers a registration at any time and its callbacks run in order.
`crashed` records that an exception left a thread, which ends the process.

### UrbPump and UrbService

`pumpUrbs` is a loop over one TCP stream: `PLoop` (the test of `stopped`),
`PHeader` (48 bytes), `PBody` (the data of an OUT URB), `PDispatch` (cancelled,
unknown endpoint, isochronous, or a transfer), `PTransfer`, `PUnlink`, `PReply`,
and the `finally` (`PCleanup`). A queue element stands for a header with its body
and its packet descriptors; `bodyLeft` and `packetsLeft` say what of the last
header read is still in the stream, so that a path that did not read it takes it for a
header (`desync`). For bodies that must not happen. The descriptors of an
isochronous URB the code never reads: the URB is answered -EOPNOTSUPP and at the
next header the pump meets them and leaves its loop (`PHeader`), which needs 48 bytes,
so fewer than three descriptors are met only with the next command behind them
(`HeaderThere`). `stop()` sets the flag and nothing else. The client is the kernel's
vhci-hcd (external): it numbers its commands, unlinks a URB it still waits for
at most once, and gives everything up when the connection is lost. Numbers are
modulo `SeqMod` and are not given twice while awaited. `UrbService` says what
the kernel relies on: commands are served one by one in their order, each by exactly one
reply that its kind admits (`Answers`). In the refinement `todo` is the command in
hand followed by `in` (nothing once the connection is lost), `done` is `out` and
`gone` is `lost`.

### UsbIpSession

A session is a receiver process (`rcv`), a sender process (`snd`) and the two
directions of their connection (`up`, `down`). How they were started is `conf`:
the receiver's mode (`drive` runs `urb_driver`'s script, `log` is `run_simulated`,
`real` is `run_real`), the pairing codes of both ends (`rpsk`, `spsk`), the busid
wanted, and the program at the other end: the pump fixture, the mock sender in USB/IP or HID mode, or the Linux HID
sender, which ignores the mode and answers with the old ATTACH_OK. Each action is a blocking
read with what the program does up to the next one. A result is `err` when the
peer is to blame and `local` when this host is (no vhci-hcd, no port, a file
that cannot be opened), so that `DriveVerdict` can say that the driver is
never let down by a pump that lives. URBs carry the fields that
`dispatch_submit` looks at, with the script's own numbers and lengths. The
kernel is external: `KSubmit` writes a header without envelope, `KAddress`
takes a port from state 5 to 6, `KDown` frees the port of a stream that ended
or that does not carry USB/IP. `find_free_port` and the write to `attach` are two
steps, between which another receiver may take the port. `RLogFrame` counts a frame
whether or not its line reached the transcript (`lines`, `unwritten`), because
`record_urb` drops the error of the write; only a transcript that cannot be opened
ends the session.

`Dispatch` and `ExecuteControl` have the endpoints and control requests that the driver's
script asks for; the others of `urb_pump.rs` (isochronous and further control endpoints,
unsupported descriptors) it does not reach.

TLS is its flights: `RTls` checks the sender's certificate and sends its own with
the first HELLO behind it, `STls` and `STlsFin` are the two halves of
`server_accept`. A certificate is a function of the code alone (`Identity`, from
`PskIdentity::derive`); `Matches` is `PinnedPeerVerifier`. A side with a code that
meets one without fails on the first bytes, except that a sender without one takes
a ClientHello for an envelope header whose length field asks for 2^16 bytes or
more, and waits (`SForeign`).

### LinuxSender

One thread (`sPc`, `cur`) serves one client (`cl[c]`) after the other; the others
are in the kernel's `backlog`, where they have already connected and written
HELLO. `SEnumerate` walks sysfs between HELLO_ACK and LIST_DEVICES, and may fail
when a node vanishes under it; its result `devices` is what LIST and ATTACH use.
`hid` are the nodes listed with `is_hid`: any subset, as an interface class that
cannot be read counts as 0. `pick_hid_device` takes the first listed node with the flag and
`find` the first of the busid without looking at it (`Pick`, `FindNode`); a node
without the flag, or whose protocol cannot be read, gets kind `other` in BIND_ACK (`Kinds`).
`SReadFails` is the end of the stream or the 60 s timeout of the handshake.
`SOpen`, `SReport`, `SGone`, `SSend`, `SSendFails` are `pump_reports`; only a write
tells it that its client has left. Two nodes may have one busid. `given[c]` is the
last report read for a client, so that the log a client keeps (`last`, `gap`,
`unbound`) can be compared with it. The clients are `connect`, `list`, `receive`,
`receive --simulate-source` and a USB/IP receiver, each with its own ends
and timeouts; a client may be killed at any time, or suspended for ever.

### Framing, MessageChannel and HidDescriptor

The writer encodes a message to bytes with the code's own layout (`Encode` and the
`Encode...` of each frame); the reader takes any piece of what is there (`RRead`)
until the header is complete, then the payload, and decodes. Rust checks the
header after the payload has been read, Kotlin before; only Rust limits what it
writes. The refinement maps the messages sent and received, the state of the
writer and whether the reader is still reading, to `MessageChannel`, whose fair
specification contains both safety and liveness: nothing else than the messages
written, in order, each field intact, no rejection of what the other side wrote,
and in the end everything or the end of the stream. `HidSession`,
`UsbIpSession` and `LinuxSender` rely on it when they take a connection for a
queue of messages. A 32-bit field is a signed word; control JSON is bytes.

`HidDescriptor` has `classify` and `classifyDescriptor` as recursive functions over the
bytes; the reference works on items. The assumptions compare them on all sequences
of up to three sample items (sizes 0, 1, 2 and 4, data that look like items), cut off
at every byte.

### HidReports and KeyMap

`MouseReport` and `KeyboardReport` begin a report; the loops of
`apply_keyboard_report` are `phase`s (modifiers, releases, presses) whose events
`todo` are emitted one at a time (`Emit`), each with its SYN_REPORT, since an
application sees the device between any two of them; the statics are assigned at
the end (`KeyboardDone`, `MouseDone`). Inside a loop the order of events is left open,
which covers the order the code uses. A report is the set of
modifiers, of keys and of buttons it holds; relative motion keeps no state. `profile` and
`eight` are independent, because the code picks the path from the length of the
report and the device's codes from the descriptor. `KeyMap` has no state; what is
said of its table are assumptions that TLC evaluates.

## Runs

| Run | Instance | What it shows |
|---|---|---|
| `session` | a mouse and a storage device, `SeqMod` 3, `NetCap` 2; 312,964 states | type, handshake in step, same device, teardown, no complaint across the wrap, order; `stop()` ends the session, the end reaches the receiver, reports arrive, Ctrl-C is noticed at the next envelope |
| `session_unplug` | one mouse, `SeqMod` 3, `NetCap` 1 | violated: see Findings |
| `service_safety` | two receivers, two instances of the service; 6,253,158 states with symmetry | count, list, mDNS flag |
| `service_live` | two receivers, one instance; 95,484 states | stopped sessions end, accept loop ends, listener serves |
| `service_outlives` | two receivers | violated: see Findings |
| `pump` | a control, a bulk, an isochronous and a missing endpoint, one or three isochronous packets, two commands under way, `SeqMod` 3; 581,304 states | framing, order, nothing forgotten, refinement of `UrbService`; every command is answered though the device hangs (unless an isochronous URB came before); a lost connection ends the pump; `stop()` is noticed at the next header |
| `pump_cancelled` | one bulk endpoint | violated: see Findings |
| `reports` | four usages (one without a code), two modifiers, three buttons, two slots; 26,912 states | held keys are those of the report, no false chord, no flicker; the assumptions of `KeyMap` on every usage byte (no two keys share a code, the letters follow the rows of the keyboard, F1 to F12 have their codes but for F11 and F12) |
| `usbip` | a session of every mode with every sender, beside one that attaches for real; two ports, two pairing codes, the script with one more URB, two frames; 327,116 states | the device asked for, the same pairing code or none, the driver's verdict, no frame lost, no attach reported that the kernel refused; sessions and senders end |
| `usbip_kernel` | two sessions that attach for real | violated: see Findings |
| `sender` | two nodes of one busid, one client that logs and one of every other kind, `SeqMod` 3, `NetCap` 1; 479,216 states | the node bound is the one picked or an earlier one not listed as HID, which a receiver refuses; the log is complete, clients get their turn, a departed one is let go |
| `framing` | 10 kinds of messages with fields at the edges of their ranges, two messages a stream, a limit of 60 bytes, three pairs of languages; 25,509 states | `Framing` implements `MessageChannel`; the assumptions of `HidDescriptor` |

Why the bounds are enough. `SeqMod` of the session stands for 2^16; with 3 the counter wraps
after as many reports, which TLC reaches, and the proofs cover every modulus
above 2. (At 2, "the successor of last_seq" and "last_seq" are all there is and
the jump test says nothing.) `NetCap` 2 lets a queue hold a report and a
BIND_ACK or UNBIND behind it and still be full. Two devices tell apart the wanted,
the listed and the HID ones. Two connections are enough for the races on the
count, the list and the notification, which are between two threads; two
instances for what a thread of an earlier instance does to the statics.
Two commands under way and two replies buffered let an UNLINK and its URB be in
every pair of places in the pump; three sequence numbers let a number come back
while it is still in the `cancelled` set; one and three isochronous packets are fewer bytes
than a header and as many. USB/IP sessions share only the ports, so one of
every kind beside one that attaches shows every interference; two ports, both free or both
taken by other programs at first, let a port be picked while another is free, and none. Four usages and two slots let a report
replace, keep and add keys at once.
In `sender` two nodes of one busid are the case in which the busid does not tell them apart;
two clients let one wait behind the other. The limit of `framing` stands for 2^20: a URB with
8 bytes is at it and one with 9 over it; two messages let a piece end in one and a
later read begin in the next.
Deadlock is not checked: a session ends, and a service that is down may stay so.
Symmetry over the receivers is used for safety only.

Fairness. Threads run (`WF` of the sender thread, the receiver, the steps of an
`onDestroy` or `stop()` that has begun); a write towards a dead peer does not
succeed for ever (`SF` of `SSendFails`: TCP answers with RST or gives up
retransmitting). Users, devices, NsdManager and the network owe nothing, so no
property depends on someone unplugging or pressing Ctrl-C, nor on a device producing reports.
In `SenderService` a session run is fair only once its socket is closed, which is what
`StopEndsSession` of `HidSession` provides. In `UrbPump` the pump's thread is fair,
`PTransfer` included, because `controlTransfer` and `bulkTransfer` are given
timeouts; the kernel takes the replies it is sent. In `UsbIpSession` the processes and the
kernel run, and a read that has a timeout ends; nobody need be killed, interrupted or detached.
In `LinuxSender` the sender's thread runs and so does every client that is not suspended;
`SSendFails` is strongly fair as in the session; no report need ever come. In `Framing`
only the reader is fair.

## Findings

Each is a run that TLC must find violated.

* `session_unplug`: `readReport` maps every error to null, so unplugging never
  ends the session; `docs/hardware-verify.md` says the receiver exits.
* `service_outlives`: a connection accepted just before `onDestroy` is added
  to the list after it was cleared, and runs on.
* `pump_cancelled`: transfers run inline, so by the time an UNLINK is read its
  URB has been answered; the number enters `cancelled` and stays.
* `usbip_kernel`: in real mode the kernel is given the socket on which the
  sender speaks envelopes. The pump reads the sequence number of the kernel's
  first header as an envelope length and waits for that many bytes, or
  fails on the magic; no URB is answered. The proxy `desktop-linux/README.md:61-66`
  describes does not exist.

Met while modelling, part of the modules' behaviour but without a run of their
own:

* the receiver tests `stop` between two blocking reads only (`RStop`), and the pump its
  flag (`PStop`): with an idle peer neither ends, although `receiver.rs:165` and
  `UsbIpHost.kt:132` list it among the ways out (the exceptions in `CtrlCNoticed` and
  `StopNoticed`); `--simulate-source` does not look at the flag at all;
* a jump of the sequence numbers cannot come from packet loss, as `docs/hardware-verify.md:369-374`
  says of the log line "seq jump: 1234 -> 1240 (drops or reorder)": TCP delivers in
  order, the sender counts what it sends, so the line is never logged with this sender
  (`NoComplaint`, also over the wrap and over every way a connection ends);
* the descriptors behind an isochronous URB (`protocol/src/usbip.rs:225`, `:264`) are never
  read by the Android pump, which takes them for the next header and ends, although
  `UsbIpHost.kt:149` promises only that the URB gets -EOPNOTSUPP; commands sent after it are
  never answered (`InFrame`, the exception in `CommandsAnswered`);
* the "small worker pool" of `UsbIpHost.kt:44-46` does not exist: URBs are executed on the thread
  that reads, so that a long bulk IN does hold up the next CMD_SUBMIT, until its timeout
  (`AnsweredInOrder`, `ServesInOrder`);
* `record_urb` drops the error of a failed write (`usbip.rs:206-212`), so a transcript may lack
  frames that the receiver counted as relayed (`RLogFrame`; `AllFramesRelayed` is what holds);
* the Linux sender may bind another interface than the client picked, when an earlier one of the
  same device had no readable `bInterfaceClass` (`linux_sender.rs:347-360`, `:164-166`);
  `receive` then refuses its kind, `--simulate-source` does not look at it and logs the
  reports of the wrong interface, and the USB/IP role and `--busid` pick as the sender does (the
  exception in `BoundAsPicked`);
* two sessions that end together may leave the older of two counts in the notification
  (`TSnapshot`, `TNotify`);
* F11 and F12 get the codes of NumLock and ScrollLock, because `code_for_f` adds an offset
  to codes that are not contiguous (`FunctionKeysButTwo` of `KeyMap`);
* an idle device pins the Linux sender to a client that has left, although
  `linux_sender.rs:248-249` says non-blocking reads make it notice "promptly" (the exception in
  `DepartedLetGo`); a suspended client does the same, as no write has a timeout;
* one failing `accept`, `set_nodelay` or `set_read_timeout` ends the Linux sender
  (`SAcceptFails`);
* `kind_for` does not "fall back to the descriptor classifier" (`linux_sender.rs:230-231`):
  an interface without a boot protocol is `other`, which the receiver refuses;
* the two classifiers, of which one "mirrors" the other (`HidEndpoint.kt:132-133`), differ on
  a vendor page such as 0xFF01, which Rust cuts to its low byte (`ClassifiersAgreeOnBytes`);
* `writeEnvelope` in Kotlin has no size limit, so that the Android pump could answer an URB
  with an envelope the receiver refuses (no message of the instance does);
* `receive --psk` in HID mode without `--simulate-source` connects without TLS, although the
  option says "the connection is wrapped in TLS" (`zerowire_cli.rs:96-98`, `:161`);
* a receiver with a pairing code and a pump without one wait for each other without
  timeout (`SForeign`, the exception in `SessionEnds`);
* the keepalive logic `receiver.rs:310` relies on does not exist: a receiver on
  a link that died silently stays in its read (`LinkDown`);
* `ReceiverSession.run` sets socket options before its `try`: a session that is
  stopped before that ends the process (`TThrow`);
* a late `decSessions` of a destroyed service uncounts a session of the next one
  (`TDec` against `OnCreate`); `NoPhantomSession` is the half that holds;
* `find_free_port` takes state 5 for free although its comment (`usbip.rs:67`) names
  state 4 only; 5 is a port whose device has no address yet, which the kernel
  refuses, so of two attaches close together the second fails while another port
  is free (`LooksFree`, `RAttachSocket`);
* a receiver that logs and a pump that waits for commands wait for each other
  without timeout (the exception in `SessionEnds`);
* an UNLINK of a completed URB is answered 0 and not -ECONNRESET as
  `protocol/src/usbip.rs:436` says (`PUnlink`).

## Proofs

`HidSessionProofs` proves, for every set of devices, every modulus above 2 and
every capacity, that each safety property of `session` holds
(`TypeCorrect`, `HandshakeInStep`, `DeviceAgreed`, `NothingLeftBehind`,
`NeverComplains`, `UnbindComesLast`, `InOrder`). The only
assumption is `SessionAssumption` of `HidSession`.

None of these is inductive alone: that the sender finds the message it expects depends on
what the receiver sent and how far the receiver got. The invariant `IInv` is the conjunction of

* `TypeOK`;
* `PhaseInv`: how far the sender is (`sPc`) bounds how far the receiver can be,
  and which ends of the connection are open;
* `AgreeInv`: `chosen`, `target`, `claimed`, `device` and the device wanted
  agree as far as they are set;
* `RequestsInv`: a request under way is alone in `toS`, is the one the sender
  waits for, and no reply is under way;
* `RepliesInv`: the same for replies, none of which is ATTACH_DENIED;
* `StreamInv`: each REPORT_IN in `toR` has the number after the one before it,
  the first the one after `last_seq`; UNBIND follows the last report;
* `TailInv`: what the sender is about to append fits the end of the queue;
* `Quiet`: `NoFault` and `NoComplaint` themselves.

The proof has a lemma per action, under it a step per conjunct the action can
disturb, and lemmas about appending to, taking the tail of and cutting a queue.

`HidReportsProofs` proves `TypeOK`, `HeldAsReported`, `CleanChords` and
`NoFlicker` for every set of keys, modifiers and buttons and every map of them to
codes that satisfies `CodesAssumption` (no two keys share a code, all are among the
declared ones, none is a button's; `KeyMap` has the first of all usages, and
`reports` evaluates the whole for its instance).
`HInv` adds to `TypeOK` that only the state of the report's own path is ever
filled (`PathInv`) and that the pending events are exactly the difference
between the codes down now and those down when the present loop is over
(`After`), in the direction the report asks for (`EventsInv`). That the codes
are distinct is what makes the difference of two reports the same as the
difference of their code sets.

`UrbPumpProofs` proves, for every set of endpoints, any numbers of packets and any number of
commands and replies under way, that the pump reads no body as a header and acts on nothing
after the descriptors of an isochronous URB (`StaysInFrame`), answers in order
(`InOrder`), forgets nothing (`NoneForgotten`) and implements `UrbService`
(`Refines`). The invariant `FInv` has as its core `LineInv`: while the
connection lasts, what the client waits for is exactly, in this order, the
commands whose replies are in `out`, the one the pump has in hand (at the
program points `Serving`), and those still in `in`. `DistinctInv` (no number awaited twice) makes
the command a reply names the first one; `FrameInv` ties an unread body to
the program point that reads it. In the refinement `CSend` is `Give`, `PReply` is `Serve`,
`CReceive` is `Take`, `CGone` is `Lose`, and the other steps stutter; that `PReply` serves the
first command with a reply it admits needs that `reply` is one of `AnswersTo(cmd)`.

`SenderServiceProofs` proves the four invariants of `service_safety` (`NeverPhantom`,
`FirstCountExact`, `AllTracked`, `MdnsTrue`) for any number of receivers and of
starts of the service, from `ServiceAssumption`. The bound on the count is not inductive by
itself: a `decSessions` keeps it only if its thread is still one of `Counted`, and an
`incSessions` only if the connection was not one before. `SInv` adds

* `HeldInv`: an accept loop holds a connection between `accept` and the start of its
  thread and at no other point, the connection is its own and has no thread, and it is listed
  before the thread is started unless `onDestroy` has begun;
* `FreshInv`, `ConnInv`: nothing belongs to an instance that was not created yet;
* `ListInv`: a listed connection without a thread is the one its accept loop is about to start;
* `CountInv`: the two properties of the count, and that it is 0 before the first start;
* `MdnsInv`: the property of the mDNS flag for the last callback that is still queued.

Counting rests on lemmas that say by how much each step changes the cardinality of `Counted`.

`LinuxSenderProofs` proves `BoundIsPicked` and `LogHasNoHole` for any number of clients
and nodes and any modulus larger than what can be buffered, from `SenderAssumption`. `LInv` is, for each client,

* `QueuedOK`: a connection in the backlog has its HELLO under way and nothing else (each is
  there once: `LineInv`);
* `PhaseOK`: what the thread waits for is what the client it serves has sent, or what it
  has answered is under way; from LIST to ATTACH the client picks from the `devices` the
  thread still holds;
* `StreamOK`: BIND_ACK comes first, each report has the number after the one before it,
  UNBIND is last and behind the last report that was read;
* `GivenOK`, `ProcessOK`: what has not been read, bound or acknowledged yet;
* `LogOK`: the property of the log.

Which node is bound although only a busid is sent comes down to a fact about minima: the
first entry with that busid that the thread finds is the first one the client accepts, or an
earlier one that the client passed over because it is not listed as HID (`Bound`). In the second case
the BIND_ACK under way to a receiver says `other` (`Refuses`), so that none is acknowledged. It needs that a non-empty set of nodes has a least one, which is
taken from the library's well-founded induction.

`UsbIpSessionProofs` proves the five invariants of `usbip` (`ServesTheRightDevice`,
`OnlyPairedTalk`, `VerdictIsTrue`, `EveryFrameRelayed`, `HandedToItsPort`) and `TypeCorrect`
for any number of sessions, devices, pairing codes and ports, any set of ways to
start the processes, a script with any number of extra URBs and any number of frames, from
`SetupAssumption`. `UInv` is `PortInv` and, for each session,

* `TurnsOK`: up to ATTACH one request or one answer is under way, the one that is awaited;
  a HELLO that meets a sender waiting for a ClientHello means that the codes differ;
* `MessagesOK`: what a message says is true when it is read: a certificate is the one
  of its sender's code, ATTACH names the device chosen, ATTACH_OK the import_id, a
  command comes from a driver whose sender has attached;
* `PairOK`, `DeviceOK`: the codes and the device agree from the step on at which one end
  has seen the other's;
* `FramesOK`: the frames relayed and those under way are together the frames pushed;
* `DriveOK`: the driver and the pump take turns; the pump has served as many URBs as the
  driver has counted, and one more while the answer is under way; a pump that has closed before
  the driver ended was killed or not paired (`Excused`).

`PortInv` says that the socket on a port belongs to a receiver that picked this port
and has handed its socket over; it is what makes the race between `find_free_port` and
`attach_socket` harmless. `VerdictIsTrue` also needs that the fake device answers each URB of the
script as the script expects, or the driver would give up on a pump that lives:
`ScriptServed` proves it from `Dispatch` for every length of the script.

Each of the three invariants was checked with TLC on instances like those of the runs before it was
proved. Two parts were found while proving, because the invariant was true but not inductive
without them: that commands are only under way to a sender that has attached, and that only the
mock sender pushes frames.

Every invariant and action property of a passing run is now a theorem, and so is the refinement
of `UrbService`. Only model-checked: that `Framing` implements `MessageChannel` (its
fair specification contains liveness, and what its codecs compute is recursive); the tables and
functions of `KeyMap` and `HidDescriptor`; and all liveness (the prover has no rules for fairness).

## Plan

Next, in order of importance:

1. the safety half of `Framing` against `MessageChannel`: that the reader's position is always
   inside the message it is about to deliver, for every way the stream is cut;
2. the Rust pump of `UsbIpSession` against `UrbService`, by refinement;
3. `pick_by_name` of the discovery.

## Not modelled

The cryptography under TLS (HKDF, Ed25519, certificate bytes: one injective function of the
pairing code here) and the Android app's `TlsServer`, `Psk` and `PairingCodes`, which no session
uses; `hid_simulate_source_loop`, the TLS twin of `run_simulate_source`; JSON of control
messages; the Android screen, argument parsing and printing (I/O); mDNS browsing (library); the
placeholder directories for other platforms; the synthetic hardware, the loopback scripts and
the mock sender's HID mode (test harness).
