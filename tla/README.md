# TLA+ models of posh

posh keeps terminal sessions alive on a host and shows them, locally over a Unix
socket or remotely over encrypted UDP, in a viewport that roams and survives
loss.  This directory holds the models of its protocol state machines, the TLC
runs that check them on small instances, and the machine-checked proofs.

## Reading order

| module | models | kind |
|---|---|---|
| `ScreenMirror` | what a viewport promises about the source's screen | abstract |
| `FrameSync` | `server_loop`, `FrameProducer`, `process_frame`/`apply_frame` | detailed, refines `ScreenMirror` |
| `FrameSyncProofs` | types, no row skipped, the server's base and the handshake, the refinement, for every instance | proofs |
| `ByteStream` | what a byte stream promises: typed bytes, in order, once | abstract |
| `InputStream` | `InputOutbox`, `InputInbox`, `EchoAck`, `SessionResume` along the mux path | detailed, refines `ByteStream` on one wire |
| `InputStreamProofs` | types, the resume cursor, what becomes of acknowledged bytes, echoes in time, the refinement, for every instance | proofs |
| `MuxChannels` | `mux_loop` and `mux_peer_loop`: references, channels, wires | detailed |
| `MuxChannelsProofs` | types, routes, references, agent exposure, for every instance | proofs |
| `SessionBridge` | the frame half of a mux channel: daemon leg, bridge, re-home, reconnect, viewport | detailed, refines `ScreenMirror` |
| `SessionBridgeProofs` | types, frame numbers that stay unique and fresh, the refinement, for every instance | proofs |
| `History` | the history stream v2: `HistoryCursor`, the viewport's `sb2_` state | detailed |
| `InstructionChannel` | what a datagram path promises: an instruction whole and once, or not at all | abstract |
| `DatagramPath` | `Fragmenter`, `FragmentAssembly`, `ReplayWindow`, `Connection::recv` | detailed, refines `InstructionChannel` |
| `TransportProofs` | the datagram path: types, the window and the reply address, no whole instruction lost, the refinement; the history stream: types, rows agree; for every instance | proofs |
| `LocalFrames` | `ClientConn` of the session daemon and a local viewport | detailed, refines `ScreenMirror` |
| `LocalFramesProofs` | the write buffer, the refinement, nothing lost, for every instance | proofs |
| `AgentPipes` | what agent forwarding promises a program on the remote host | abstract |
| `AgentChannels` | `AgentChannelMux` at both ends, `AgentEndpoint`, `AgentClient` | detailed, refines `AgentPipes` |
| `AgentChannelsProofs` | the tables' limits and the refinement, for every instance | proofs |
| `ModalVerdict` | what a program that raises a countdown is promised | abstract |
| `AppModal` | `modal_handle`, `modal_drive`, `modal_resolve`, viewport, renderer, `posh modal` | detailed, refines `ModalVerdict` |
| `AppModalProofs` | types, banners, answers meant, the refinement, for every instance | proofs |

## 1. Inventory

### Parts of the system

* **Screen synchronisation** (`remote/server.rs` `server_loop`, `posh-proto`
  `framesync`, `remote/client.rs` `drive_client`).  State: the producer's slots
  (the current frame, the acknowledged one, the in-flight list), the live
  terminal and an optional overlay terminal, the client's model, its remembered
  diff bases and its ack.  Operations: advance, rotate, (re)transmit,
  acknowledge, resync, overlay enter and exit, shell exit; on the client apply a
  full screen, a diff, a morph or a scrollback body, and answer.  Hard: frames
  and acks are lost and reordered; visible and scrollback frames share one
  number space; a diff is applied to a base named only by its number.  Correct
  when the viewport shows only screens the source had, never an older one than
  before, and reaches the last one when output stops.
* **Input stream** (`remote/sync.rs` `InputOutbox`, `InputInbox`, `EchoAck`).
  State: a byte tail and its base offset; the next offset expected; pending echo
  stamps.  Hard: the tail is resent until acknowledged, acks travel on frames
  that may be stale, a rebuilt bridge resumes from a cursor, and a re-homed one
  changes the daemon under the stream.  Correct when the
  pty receives exactly the typed bytes, in order, once.
* **Session resume cursor** (`remote/resume.rs`): the offsets a reconnect or a
  re-home carries over.
* **Datagram encryption** (`remote/crypto.rs`): a per-direction sequence number
  and a 64-wide replay window.  **Datagram transport** (`remote/datagram.rs`):
  expected sequence, RTT estimate, the address replies go to.  **Fragments**
  (`remote/sync.rs` `Fragmenter`, `FragmentAssembly`): at most eight partial
  instructions, least recently used evicted, a byte bound.  Together one path:
  correct when an instruction comes out whole and once or not at all, and replies
  follow the newest datagram.
* **History stream v2** (`remote/history.rs`): rows numbered within an epoch, sent
  in addressed bodies, cumulatively acknowledged, with the extent beside them.
  Hard: bodies are lost, overtake each other and fall off the ring; a resize
  re-lays it under an open epoch.  Correct when both ends mean the same row by a
  number and a lost body is never taken for evicted rows.
* **Mux daemon** (`remote/mux.rs`): one process per destination carrying many
  sessions over one wire: references and linger, channels, OPEN and CLOSE
  retransmission, wire death, backoff, reconnect.  Correct when every attach is
  answered or refused, a message never reaches another session than its own, and
  the daemon stays while it is needed and no longer.
* **Mux peer and session bridge** (`remote/server.rs` `mux_peer_loop`,
  `remote/channel.rs`, `remote/relay.rs`): the far end of the wire, one bridge per
  channel to a session daemon, re-home to another session.  Hard: each daemon leg
  numbers its frames from 1 while the viewport keeps counting.
* **Agent forwarding** (`remote/agent.rs`): a table of channels at each end, an
  outbox and an inbox for each, tombstones of closed ones, local sockets at both
  ends, and the election of `agent/sock`.  Hard: OPEN, data, CLOSE and their
  acknowledgements are lost and overtake each other, and either end may close at
  any time.  Correct when a connection is a pipe that ends at both ends.
* **Session daemon** (`session/daemon.rs`): owns the pty, one frame producer and one
  write buffer per viewport, paced or coalesced sends, geometry, overlay, modal.
  Hard: a frame is replaced in a buffer that is half written; the daemon confirms
  frames for viewports that do not.  Correct when no record is cut and the last
  frame queued is the last screen.
* **Application modal** (`session/modal.rs`, `daemon.rs` `modal_handle`, `modal_drive`,
  `modal_resolve`): one countdown of a session, shown on every viewport that can
  show one.  State: the countdown and the file descriptor of the program that
  asked; the banner and the drawn view of each viewport.  Operations: request,
  re-show, choose, dismiss, expire, detach.  Hard: descriptors are handed out
  again, connections hang up in the same turn, answers and clears are on their way
  while the next countdown begins.  Correct when one countdown runs at a time, a
  request gets one verdict, the program that asked hears that one or none, and no
  answer decides a countdown it was not given to.
* **Local attach client** (`session/client.rs`), **IPC framing**
  (`session/ipc.rs`), **registry and commands** (`session/mod.rs`, `main.rs`,
  `picker.rs`, `target.rs`), **prediction** (`remote/predict`), **confinement and
  cwd**, **ssh bootstrap**, **palette**, **scroll view**, **statistics**,
  **capability table**, **terminal emulator** (`posh-term`), **recorder**
  (`poshterity`): see `PROJECT.json` for why each is left out.

### How they interact

Keystrokes go from the viewport through the input stream to the pty (directly, or
through a mux daemon, a mux peer and a session daemon's socket).  Output goes
into the terminal emulator; the frame producer turns its screen into numbered
frames; these are fragmented, sealed and sent.  Every client message carries the
frame acknowledgement, every frame carries the input acknowledgement, so each
direction's loss delays the other's progress.  On a mux wire many sessions share
one sealed stream; the daemon at one end keeps a resume cursor for each and the
bridge at the other end is rebuilt from it after the wire dies.

## 2. Plan

Most important behaviour first.  Done: the screen protocol (`FrameSync`), exactly-once
input and honest echo (`InputStream`), channel life cycle (`MuxChannels`), the
frame half of a bridge (`SessionBridge`), the history stream (`History`), the
datagram layer (`DatagramPath`), the local attach (`LocalFrames`), agent forwarding
(`AgentChannels`), the application modal (`AppModal`), and the proofs about all of
these.

Next, in this order:

1. The eviction of tombstones and the congestion window in `AgentChannels`: the first
   bounds how late a datagram may be, the second how much one offers.
2. Several viewports of one session and their leadership over its size: a module of
   its own, with the resize of the terminal and the frames that follow it.
3. The peer's own end: its signal, its timeouts, and the CLOSE that is sent once.

## 3. `FrameSync` and the code

A screen is abstracted to the change of broadcast source and the generation of
that source, `<<epoch, generation>>`, so two screens differ exactly when these do.
A delta applied to a base it was not made for leaves `Garbage`: nothing in the
model ever repairs that by luck.

| variables | code |
|---|---|
| `gen`, `ogen`, `epoch`, `pty_open` | the session's terminal, the overlay's, changes between them, the shell |
| `last_gen`, `force_frame`, `shutdown`, `exited`, `has_remote` | locals of `server_loop` |
| `sb_total`, `sb_floor`, `sb_high`, `acked_sb_total`, `current_is_sb`, `last_was_sb` | its v1 scrollback accounting |
| `current`, `acked_num`, `acked_data`, `outstanding`, `last_visible_num`, `visible_directly_acked` | `FrameProducer` and the visible-frame confirmation beside it |
| `s2c`, `c2s`, `lost` | datagrams in flight, as sets: delivered in any order, at most once, or lost |
| `applied_num`, `applied_data`, `server_term`, `base_history`, `scrollback` | the client's model, `remember_base` memory and scrollback ring |
| `flags`, `quit`, `shutdown_seen`, `client_up`, `requests` | its requests and its exit |

One action is one whole turn of a handler.  `SendVisible`, `SendScrollback`,
`Retransmit` and `SendEmpty` are the ways `server_loop` can send,
`ReceiveMessage` its receive path with the acknowledgement and the flags,
`ExitAttested` and `ExitExpired` the two ways it leaves; `ShellOutput`,
`OverlayOutput`, `OverlayExit` and `ShellExit` what the terminals do.
`ReceiveFrame` is `process_frame` with `apply_frame` inlined as its alternatives
(`Ignore`, `AppendRows`, `ApplyFull`, `ApplyDiff`, `ApplyMorph`, `RejectDelta`);
`SendMessage`, `UserRequest`, `UserQuit` and `GiveUp` are the rest of the client.
Pacing only delays, so it is left out; whether a diff is smaller than a dump or a
morph can express a change is data, so it is a choice.

Constants name the capabilities (`Scrollback`, `BaseSum`, `Morph`) and the depths
(`Outstanding`, `HistoryDepth`); `MaxGen`, `MaxEpoch`, `MaxFrame`, `MaxRows`,
`MaxFlight`, `MaxLoss` and `MaxUser` are bounds, and stand in guards only.

## 4. `InputStream` and the code

`outbox` is the viewport's `InputOutbox`, `resume` the mux daemon's cursor,
`bridges[w]` the `SessionBridge` of the peer of wire `w` with its `InputInbox`
(`next`), `EchoAck` (`pending`, `acked`) and the write buffer of the daemon leg;
`pty` is what a shell was given, with the time.  A keystroke is its position in
the typed stream.  `PeerReceives` and `PeerTurns` are one turn of `mux_peer_loop`
for one channel in the code's order: accept at most one message, mature the echo
(unless a frame is held), re-home if the daemon's records end in a Switch, flush
what the socket takes, restamp what is still behind, send.  A re-home
(`rehome_bridge`) throws away what the old leg had not written; the stream's
offsets stay.  `Reconnect` leaves the old peer running: it still drains its
buffer and still hears datagrams that were on their way.

`Backpressure` lets the socket take any part of the buffer.  `PtyStall` lets the
session daemon give up on a full pty.  Any time may pass between two turns: a
loop whose daemon socket stays full sleeps until an echo is due.  `dropped`,
`waited` and `full` are not in the code; the properties need them to name the
bytes that a re-home or a stalled pty threw away, those that had to wait in a
buffer, and the time since.

## 5. `MuxChannels` and the code

`phase`, `ref` and `session` are the daemon's table of IPC connections with
`holds_ref` and `IpcSession`; `refs` and `linger` are `MuxState`; `routes` maps a
channel to its connection, `closes` holds the CLOSEs still owed; `wire` and `up`
are the wire in use and whether a reconnect is under way; `alive` and `bridge`
are the peer process of the current wire.  Each IPC message
(`SessionRef`, `SessionOpen`, `SessionMsg`, `SessionClose`), the hang-up
(`ConnGone`), each timer (`SendOpen`, `OpenTimesOut`, `SendClose`,
`LingerExpires`, `WireDead`, `Reestablish`) and each instruction of either side
(`Hear`, `PeerReceives`) is one action.  Time is left out: an armed timer may
fire.  The network drops what exceeds `MaxFlight`, and anything else at will
(`Lose`, unbounded).

Frames and input on a channel are only "a message" here; the other modules say
what they carry.

## 6. `SessionBridge` and the code

The composition behind one channel: `producer`, `toBridge` and `toDaemon` are the
session daemon's `FrameProducer` for this leg and its socket; `bridge` is
`SessionBridge` with its `DaemonLeg` (`offset`, `forwarded`) and `HeldFrame`s; `target`
and `cursor` are what the mux daemon keeps to open the session again; `view` is the
viewport with its `remember_base` memory.  `Rehome` replaces the leg, `Reconnect`
the bridge and the wire.  `Rewrap` shifts a frame into the viewport's numbers and
`ForwardAck` an acknowledgement back; a re-home starts above every number
forwarded (`RehomeCeiling`).  `leg` on a frame is not in the code: the properties
need it to say which leg a frame came over.  `MaxLink` keeps the daemon socket short.

## 7. `History` and the code

`cursor` is `HistoryCursor` (`abs`, `rel`: where a row number is anchored in the ring),
`viewport` the `sb2_` fields of `ClientState` with the ring they fill, `term` the
session's own ring as two counts and a layout.  One module has both senders:
`server_loop` (no window, opened by a datagram) and the session daemon (a window,
opened by an Init, other viewports that resize).  A row is the layout it was cut in
and its place there, so a row under a wrong number is a different row.
A reattachment is modelled while the viewport holds no body back; bodies of the
earlier sender that wait in the hold across it are left out.

The escape overlay, which pauses the stream while it is up, is left out.

The module's names that others also use carry its own (`HistoryInit`, `HistoryTypeOK`,
`HistoryWindow`, `ReceiveFrame`), so that `TransportProofs` can extend it beside `DatagramPath`.

## 8. `DatagramPath` and the code

One direction: `sender` cuts an instruction in pieces and seals them in turn
(`Fragmenter`, `Session`), `replay` is `ReplayWindow`, `expected` and `remote` the
receiving half of `Connection`, `assembly` is `FragmentAssembly` with its parts in the
order `evict_least_recently_updated` takes them.  `Fed` is `FragmentAssembly::add`
whole: admission, both evictions, rejection, completion.  `Condemn` and
`Reestablish` are the redial of the mux daemon.  A piece counts one byte and holds
the wire it was sent on, which is what tells a mixed instruction.

## 9. `LocalFrames` and the code

`conn` is `ClientConn`: producer, write buffer (`buf`, a record is two bytes), `anchor`
of the replaceable frame, scrollback counts, coalescing.  `Broadcast` is
`broadcast_output`, which queues rows and a frame; `QueueVisible` replaces the frame
at the tail; `Drain` writes some bytes; `End` is the end of `daemon_main`, after which
the viewport gets what the socket took of the buffer and of Exit.  `Take` is one
record at the viewport (`render_frame_acking`), `Resume`, `Escape` and `Toggle` its keys.

## 10. `AgentChannels` and the code

`chans[e][c]` is the `MuxChannel` of connection c at end e, or, in phase `"buried"`,
its `Tombstone` (`term` the flag, `due` the echo owed, `base` and `next` the final
offsets); `sock` is what became of the local socket, `sent` and `got` what was read
from it and written to it.  `Accept`, `ReadChannel`, `FastFail`, `CloseAll` (behind
`Unref`) are the local sockets; `HearBuried`, `HearStray`, `HearRefused` and `HearLive`
split `on_instruction` together with the records it hands to `AgentClient` or
`AgentEndpoint`; `Outgoing` is `outgoing`: everything due, and the channels whose
retransmission fires.  A loop's turn ends with its sends (`Turns`).  Losses happen as
a datagram is sent, two identical copies in flight are one, and a retransmission
that is wanted may fire at any time; the congestion window, which only cuts a
piece shorter, and the eviction of tombstones (`CLOSED_CHANNEL_MEMORY`) are left
out.  A dead wire makes a new `AgentChannelMux` with nothing of the old
(mux.rs:2040), which is another behaviour of the same specification.

`AgentPipes` is the promise: bytes in order and once, an end told of the other's
closing only behind the last byte, and a connection never made twice.

## 11. `AppModal` and the code

`clients[c]` is what the daemon's connection table has of connection `c` (`fd`,
whether it is open, whether it can show a modal), `modal` is the running
`ActiveModal` with the descriptor it answers to, the ticks left and whether a
re-show is due, `turn` the connections a turn of `daemon_loop` has still to serve.  `toDaemon` and
`toPeer` are the sockets; `view[c]` is the viewport's banner, the modal its renderer has
drawn and what that renderer has reported; `verdict` and `heard` are how a request ended and what its
`posh modal` printed.  `keys`, the answers users gave, is not in the code.

`DropSlow` and `Poll` are the head of a turn (a viewer that does not read is dropped; who is
readable or hung up, then `ModalDrive` and `Accept`); `HandleInit`, `HandleChoose`, `HandleRequest` and `Served` serve one
connection, the last one first, as the code does; `DetachAll` and `Tick` are the
detach of everybody and the clock.  `HearShow`, `HearClear`, `Review`, `Enter`, `Esc` and
`HearKey` are the viewport with its renderer, `PoshModal`, `HearResult` and `HangUp` the program.
An id is the number of its connection, so ids are distinct; the gate is on, requests
are well formed and the Info exchange before them is left out.  A key and a clear that
meet count as the key first.

`ModalVerdict` is the promise: one countdown at a time, one verdict on each request,
heard at most once by the program that asked.

## 12. Runs

| run | question | properties |
|---|---|---|
| `frame_morph` | morph deltas onto the live model, overlay, resync, quit | `TypeOK`, `ServerKnows`, `MirrorSpec` |
| `frame_live` | interleaved scrollback, the alternate screen, two losses, overlay: the viewport catches up once output stops | `NoRowSkipped`, `Converges` |
| `input_stream` | one wire, repeats, reordering, a socket that fills, a pty that stalls, a re-home, two ticks | `TypeOK`, `StreamSpec`, `GraceRestarts` |
| `input_resume` | a reconnect, one loss, a re-home, the old peer alive, a tick | `InputKept`, `PromptEchoAged`, `Delivered` |
| `mux_channels` | two attaches, two wires, a peer table of one | `TypeOK`, `RefsCounted`, `AgentGuarded`, `RoutesOwned`, `OpenSettles` |
| `history` | a resize, a clear or a reattachment, one fault, bodies that overtake each other, with and without the extent, both senders | `HistoryTypeOK`, `RowsAgree`, `CatchesUp` |
| `session_bridge` | two sessions, a leg and the next over a re-home or a reconnect, two frames in flight, one datagram lost | `TypeOK`, `OneScreenPerNumber`, `NewLegLands`, `MirrorSpec`, `Settles` |
| `datagram` | five datagrams a wire in every order, a copy, a roam, a redial | `TypeOK`, `WireRemembered`, `Reassembles`, `ChannelSpec` |
| `local_frames` | both kinds of viewport, partial writes, one key, the end | `TypeOK`, `BufferSound`, `NothingLost`, `MirrorSpec`, `Settles` |
| `agent_channels` | two connections, room for one, a request of two pieces and an answer, one loss | `TypeOK`, `PipesSpec`, `Settles` |
| `agent_lost_ack` | RFC 0011 5: what was written is delivered | `Delivered` (violated) |
| `app_modal` | three connections in every mix, descriptors handed out again, a re-show, a timeout, hang-ups, a detach of all | `TypeOK`, `BannersTrue`, `ApprovedOnPurpose`, `VerdictSpec` |

What the properties say:

* `ServerKnows`: the dump the server will diff against next is the one the client
  remembers under that number (`BaseAgrees`), and when the loop leaves because the
  client confirmed the final state, the client really shows it (`AttestedExit`).  `NoRowSkipped`:
  the client's ring holds every row the server takes as delivered.  `MirrorSpec`:
  refinement of `ScreenMirror`.  `Converges`: once output has stopped, the
  viewport comes to show the current screen and stays there.
* `InputKept`: a keystroke the viewport forgot is at a shell or in a bridge's
  buffer, or was thrown away by a re-home or a stalled pty (`AckedOrDropped`), and the
  tail resent after a reconnect is never taken for a gap (`NoResumeGap`).  `PromptEchoAged`: an echo
  acknowledgement of a byte that did not have to wait in a buffer never comes before the shell
  had time to answer; `GraceRestarts`: of one that had to, never within a grace
  period of the last turn that left something in the buffer.  `StreamSpec`:
  refinement of `ByteStream` on one wire.  `Delivered`: every
  keystroke that is not thrown away reaches a shell, and all leave the outbox.
  RFC 0008 says more of acknowledgements and echoes than the code keeps
  (Disagreements).
* `RefsCounted`: the count is the number of holders, and the linger runs exactly
  at zero.  `AgentGuarded`: no linger ends under a session (`NeverAbandoned`), and
  the agent is reachable only while somebody holds a reference (`ExposureBounded`).  `RoutesOwned`: a
  channel leads to its own session and no other.  `OpenSettles`: every attach is
  answered or refused.
* `RowsAgree`: no row of the viewport's ring comes before an older one or twice
  (`RowsInOrder`), sender and viewport mean the same row by a number (`NumbersAgree`), and
  with the extent a row is given up only when it can never be sent (`GapsGone`).  `CatchesUp`: in the
  end every row of the open epoch is acknowledged, and a viewport in that epoch
  counts every row and holds none back.  One that has not heard of a new epoch
  hears of it with its first row.
* `OneScreenPerNumber`: a frame number names one screen over every leg.
  `NewLegLands`: nothing of a new leg is stale to the viewport.  `Settles`: once all
  is quiet the viewport shows its session's screen.
* `WireRemembered`: the window accepts exactly what was not opened before and is not
  too old (`WindowExact`), and the reply address is the newest datagram's
  (`NewestTarget`).  `Reassembles`: an instruction of which every piece was opened has
  come out, unless it was evicted.  `ChannelSpec`: refinement of `InstructionChannel`.
  `TypeOK` of this module includes that the byte count the eviction goes by is what
  is buffered.
* `BufferSound`: the bytes a local viewport reads are whole records
  (`WholeRecords`), and no frame waits behind another for a coalescing one
  (`Coalesced`).  `NothingLost`: a quiet socket (`QuietIsCurrent`) and a finished session
  (`EndsCurrent`) leave the last screen (`LastScreen`), and the ring has the session's rows,
  in order (`RowsInOrder`) and all of them (`RowsArrive`).
* `PipesSpec`: refinement of `AgentPipes`.  `Settles` (`AgentChannels`): once one end
  has closed a channel both sockets of it are closed, unless for ever the one
  that closed resends a piece that holds nothing new (Disagreements).  `Delivered`: what the program writes reaches the agent,
  unless the connection ends.
* `BannersTrue`: a countdown a viewport shows is running, or its clear is on the way.
  `ApprovedOnPurpose`: the verdict is a button only if a user chose that button on that
  countdown, except the button of Esc (Disagreements).  `VerdictSpec`: refinement of
  `ModalVerdict`.

### Bounds

Two or three source changes give a base, a newer frame and one that overtakes it;
one loss separates an applied frame from its ack; a one-deep base memory forces
resyncs; four or five frames let a scrollback frame sit between two visible ones.
Two or three keystrokes let one message overlap another.  In `input_stream` the
socket fills, the pty stalls and a stamp is restamped and matures, all on one wire;
`input_resume` has the second wire and nothing held back, so what a given-up bridge still
has in its buffer, and the bytes `PromptEchoAged` leaves out, are covered by the theorems
only.  Two
connections and two channels let a late datagram meet the next session of the
same connection; two wires are one reconnect; one datagram in flight each way
plus unbounded loss keeps `mux_channels` small and still reorders across the two
directions; two sends of an OPEN distinguish the first, the last and none left.

A leg and the next, over a re-home or a reconnect, let frames and acknowledgements
of one meet the other; a frame bound above `MaxGen` leaves `session_bridge` the resync
the new leg costs.  Further legs are covered by the theorems.
Three rows scrolled over a ring and a window of two, with one row held at most, let
each of them overflow on the third; two rows to a body let one overlap another, and two bodies in
flight let one overtake the other (`history`).  A window, a table and a byte bound of two against
instructions of up to three pieces make each of them the one that gives way.  A
socket of three bytes splits a record; three generations put a frame written, one
in the buffer and one in its place.  In `agent_channels` the second connection
carries two bytes one way and one back and is the only one to write or to be treated
fairly: the first is there to fill the tables and to be closed around it.  A piece is one
byte, so the request is cut in two, its terminal waits behind a longer tail, and
`Settles` needs its exception.  Losing one of two terminals
(`TermSends = 2`) stands for losing up to three of `TERM_RETRANSMITS = 4`.  Three
connections in `app_modal` are a viewer, a program and the one that gets the descriptor
of either; two ticks let a re-show and an answer fall before the end of the clock.
`CHECK_DEADLOCK FALSE` everywhere: the bounds run out, and a session that has
ended really stops.

### Fairness

* `FrameSync` (`FairSpec`): strong fairness of the sends, which the bound on datagrams
  in flight may hold back for a while: both loops
  poll with a timeout that is never infinite while something is unacknowledged.  The
  network, which loses at most `MaxLoss` datagrams, delivers some datagram as
  long as there is one (weak), in any order.  None on the user or the shell.
* `InputStream` (`LiveSpec`): the viewport resends its tail on a timer (weak),
  the peer's heartbeat acknowledges (weak), a buffer drains in the end (weak),
  and what is resent for ever arrives (strong).
* `MuxChannels` (`FairSpec`): the daemon's OPEN timer and its give-up (weak, each
  connection), and the reconnect, which is retried with a bounded backoff until
  ssh gets through (weak).  Nothing is assumed of the network or of the peer.
* `History` (`HistoryFairSpec`): the sender's loop wakes for a body that is due
  (`next_due`), the viewport speaks on its timer, messages and bodies that are not lost arrive
  (all weak).  Nothing is assumed of frames: the daemon sends one only when the screen
  changed, and the bridge's heartbeat says nothing of the history (server.rs:872-886).
* `SessionBridge` (`FairSpec`): the loops poll with a deadline for what they
  owe, sockets drain, the network delivers what it does not lose; strong fairness
  only where something is sent again and again.  None on resizes, output,
  switches or reconnects.
* `LocalFrames` (`FairSpec`): both ends serve the socket they poll (weak).
* `AgentChannels` (`LiveSpec`): what is due is sent in the same turn (weak), a datagram
  that is not lost arrives (weak; strong for each end of a watched connection), and
  a wanted retransmission fires (strong).  None on programs, agent or references.

### Disagreements

One is a run with `expect: violation`, quoted in `PROJECT.json`:

* `agent_lost_ack`: `on_instruction` owes an acknowledgement only for fresh bytes
  (agent.rs:1404).  When the datagram that carries it is lost and the receiver has
  nothing else to say, the retransmission is wholly old, nothing is acknowledged,
  and the sender offers the same first piece for ever; bytes behind it, and the CLOSE
  that rides only with the whole tail, never arrive.  Below one piece
  (`AGENT_INSTRUCTION_DATA_MAX`, 32 KiB, or what the congestion budget leaves) the
  request does arrive and is merely retransmitted for ever.  `Settles` excepts the
  state (`Unheard`) that lasts then.

The models have the following behaviours too; the properties name the exception
each makes, and no run is kept for them.

* A piece of the condemned wire that is read between the verdict (mux.rs:2042) and
  the new wire stays in the assembly; the new peer counts instructions from 1
  again, so it may complete an instruction of the new wire (`ChannelSpec` leaves these
  out).  The comment at mux.rs:2017-2019 has wire-scoped state torn down once.  Whole
  instructions of the old wire read in that time can likewise confirm a session that
  was just reset (mux.rs:1681), whose OPEN is then not sent on the new wire.
* A retransmitted v1 scrollback frame is encoded against a newer ack than its slot's
  dump (server.rs:2280), so its ack confirms a dump the client does not hold.
  `BaseSum` catches the diff; the cost is a resync.  `BaseAgrees` is checked without
  scrollback.  The bridge diffs across a re-home (relay.rs:323) cost the same.
* `bridge_client_message` advances the inbox and queues the input for
  the daemon's socket; a Switch read in the same turn replaces the leg before the flush
  (server.rs:815, :1146-1162).  The new leg starts empty and the inbox keeps its offset, so
  the input is acknowledged and no session ever has it; what a full socket had held
  back goes the same way.  RFC 0008 (:140) has `input_ack` count what was bridged
  to the daemon: `AckedInHand`, proved of a channel that is never re-homed
  (`AckedUnlessSwitched`).  `InputKept`, `StreamSpec` and `Delivered` leave
  these bytes out.
* With a daemon socket that stays full the loop sleeps until `echo.wait_time`
  (server.rs:508-511), which may be the whole grace period, and then
  matures the echo (:693) before it flushes (:837) and restamps (:846): the echo of bytes
  still in the buffer is acknowledged, against RFC 0008 (:142-144) and the comment at
  sync.rs:386.  `PromptEchoAged` leaves bytes that waited out; `GraceRestarts` is what
  such bytes do get.
* A v1 row whose frame was applied but whose ack was overtaken is sent and appended
  again (RFC 0002 says rows are not duplicated).
* The resume cursor lags what the lost bridge applied, so input may reach the pty
  twice after a reconnect (mux.rs:1716): `StreamSpec` is checked and proved on one wire.
* Input beyond what a full pty takes in its write budget is dropped after it was
  acknowledged (daemon.rs:2615): with `PtyStall` it counts as dropped.
* A late frame of the old epoch makes the viewport adopt the new epoch twice; its
  reset is then an old acknowledgement to the sender, and rows stay unsent until
  the ring moves (client.rs:3259): `Overtaken` in `CatchesUp`.
* Rows that scroll off the overlay go into the local viewport's ring and move its
  count (daemon.rs:1372, :2563), against the comments at daemon.rs:227-233 and
  server.rs:2034: `local_frames` has `MaxOverlayRows = 0`.
* A viewport that toggles coalescing off with a frame in flight shows that frame
  without acknowledging it (daemon.rs:1081); with no further output nothing
  repairs a refused one: `LastScreen` and `Settles` except a viewport that toggled.
* The renderer reports an Esc without naming the countdown it was drawn for.  One that
  is read when the viewport already holds the next countdown dismisses that one
  (client.rs:1943), against the comments there (:1935) and at :1482-1484:
  `ApprovedOnPurpose` leaves the button of Esc out.
* A failed write to a local agent socket closes it without a CLOSE
  (agent.rs:2067), and four lost terminals towards an idle end leave its socket open:
  the other program waits, where RFC 0011 5 has a request fail rather than hang.

## 13. Proofs

`FrameSyncProofs` proves for every value of the constants:

* `TypeCorrect`: `Spec => []TypeOK`.
* `RowsCorrect`: `Spec => []NoRowSkipped`, whatever the capabilities.  The property speaks
  of what the server counts, so the invariant `RowsInv` follows the count wherever it
  is on its way: whoever confirms frame n holds the rows frame n stands for (`AcksHold`), a
  body in flight starts at a row that is held and ends where its slot says
  (`FramesHold`), and before the first message there is nothing to confirm.
* `MirrorCorrect`: `Spec => MirrorSpec`, with `BaseSum` and without `Morph` (today's default
  client), and with any client that takes no v1 scrollback frames.  `MirrorInv` says:
  what is on screen is a screen the source had, at the frame it names; every frame in
  flight carries a screen the source had by the time it was made; a newer frame
  carries no older screen.  That a frame is shown whole or not at all (`Shown`) has two
  reasons, hence the two cases: a checksum refuses a wrong base; without scrollback a
  number names one screen wherever it is held (`ChainInv`), so there is no wrong base.
  With both scrollback and morphs, or without checksums, neither applies.
* `ExitCorrect`: in the same cases `Spec => []AttestedExit`.  Once the last frame the
  shutdown owes is made it is the newest and says goodbye (`FinalNext`), and what is
  confirmed was applied (`ConfirmedNext`).
* `KnowsCorrect`: without scrollback `Spec => []ServerKnows`, from `ChainInv` and the same
  argument.  With scrollback `BaseAgrees` is false (Disagreements).

`InputStreamProofs` proves for every number of keystrokes, wires, losses and
ticks (`BoundsAssumption` says they are numbers):

* `TypeCorrect`: `Spec => []TypeOK`.
* `ResumeCorrect`: `Spec => []NoResumeGap`.  Neither end knows the other's offset,
  so the invariant `StreamInv` places every piece of the stream: the outbox, every
  message in flight and every bridge's buffer is a stretch of the typed bytes in
  its own place, and `outbox.base <= resume.input <= next` of the bridge in use,
  which also bounds every acknowledgement in flight.
* `AckedCorrect`: `Spec => []AckedOrDropped`.  On top of `StreamInv`, whatever any
  bridge ever accepted is at a shell, in a buffer or dropped (`AllHeld`), given-up
  bridges included.  `KeptCorrect` has both: `Spec => []InputKept`.
* `AckedUnlessSwitched`: with no re-home and no `PtyStall` nothing is dropped, and
  `Spec => []AckedInHand`, RFC 0008's own claim.  With either it is false.
* `EchoCorrect` and `GraceCorrect`: `Spec => []PromptEchoAged` and `Spec => GraceRestarts`,
  for any grace period and any time between two turns.  `EchoInv` says of every stamp
  that the bytes it covers were given to the shell no later than it, unless they waited
  or were dropped, and that no stamp is older than the last turn that left something in the buffer;
  and carries what follows for a mature stamp to every acknowledgement in flight, the cursor
  and the bridges resumed from it.
* `StreamCorrect`: on one wire, `Spec => StreamSpec`, re-homes and `PtyStall` included.
  The shells have what the bridge passed on, but for what was dropped, in order and once.
  On two wires it is false (Disagreements).

All of them argue through what one turn of the peer's loop can do (`Moves`,
`TurnsMove`), so no proof opens the loop twice.

`MuxChannelsProofs` proves for any finite set of connections that does not contain
the marker `Nobody`, any number of channels, wires and OPEN sends:

* `TypeCorrect`: `Spec => []TypeOK`, strengthened with the wire budget left while
  the wire is down.
* `RefsCorrect`: `RefsCounted`, through the fact that every step takes one
  reference, drops one or leaves the count alone (`RefsStep`).
* `RoutesCorrect`: `RoutesOwned`, from an invariant that adds which channels were
  ever allocated, through the three things a step can do to the sessions: open
  one, end one, keep them all.
* `AgentCorrect`: `AgentGuarded`, from both invariants.

`SessionBridgeProofs` proves for any number of sessions, legs, wires, frames and
losses:

* `TypeCorrect`: `Spec => []TypeOK`, and with it that no acknowledgement reaches a
  daemon below zero.
* `NumbersUnique` and `NewLegsLand`: `OneScreenPerNumber` and `NewLegLands`.  The
  invariant orders every place a number can be (daemon socket, held frames,
  datagrams, viewport, cursor) by the leg it came over: each leg's numbers lie above
  the ceiling it started from, and everything of earlier legs at or below it.
* `MirrorCorrect`: `Spec => MirrorSpec`, from the same order and the argument of
  `FrameSyncProofs` within a leg.

`AgentChannelsProofs` proves for any number of connections, bytes, losses and
retransmissions, any table size, chunk and number of terminals:

* `TypeCorrect`: `Spec => []TypeOK`, the limits of both tables included.
* `PipesCorrect`: `Spec => PipesSpec`.  The invariant `IndInv` says of one end that
  its outbox ends at the last byte read and that an open socket has been given
  every fresh byte (`EndOK`); of one end and the other that nothing is taken in that
  was not read there, and that what left the outbox has arrived or is of no use
  any more (`LinkOK`); of a datagram that it carries a stretch of what was read, and
  that a terminal comes behind all of it with nothing missing before (`MsgOK`).
  All three are predicates of values, so what `Heard`, `Bury`, `Terminate` and
  `Retired` do to a channel is proved apart from the actions, and one lemma
  (`Advance`) carries the rest: the other end and the datagrams in flight stay
  right because what they speak of only grows (`Grows`).

`TransportProofs` proves, about the datagram path, for any window, table, byte bound, number of pieces,
copies, addresses and wires:

* `TypeCorrect`: `Spec => []TypeOK`, that the byte count is what is buffered included.
* `WireCorrect`: `WireRemembered`.  The window keeps a shifted bitmap, the property
  speaks of the whole history of the wire; `ReplayOK` says the bitmap is that history
  seen through the window, and `TargetOK` that the expected number is one above the
  newest opened and the reply address is that datagram's.
* `ReassemblyCorrect`: `Reassembles`, and `ChannelCorrect`: `Spec => ChannelSpec`.  `CutOK`
  says that each datagram is one piece, at its own place, of an instruction of the wire it
  was sent on; `PartsOK` that a part holds opened pieces of one instruction under the right
  total and is never complete; `HeldOK` that of an instruction neither spoiled nor
  delivered every opened piece is still held; `DeliveredOK` that what came out was whole and of this
  wire; `SpareOK` that a reconnect under way has a wire left.  An instruction is
  spoiled when it was evicted, rejected or met a part of the wire before (`spoiled`).

and about the history stream, for any ring, window, body, hold and bound on the
environment:

* `HistoryTypeCorrect`: `HistorySpec => []HistoryTypeOK`.  The invariant adds that the bodies
  held back end somewhere (`HeldBounded`), without which there need be no place where
  `Settled` stops.
* `HistoryRowsCorrect`: `HistorySpec /\ []EpochFresh => []RowsAgree`.  Numbers alone do not
  say what a row is, for a resize lays the ring out anew under an open epoch.  `RowsInv`
  says that each epoch has a log of the rows that were ever numbered in it, in the
  order they were scrolled, and that everyone goes by it: the open epoch's log is as
  long as there are rows and above the anchor it is the ring (`SenderOK`), a body in flight
  is a stretch of its epoch's log in its own place (`DownOK`), the viewport's ring is a
  beginning of the log but for gaps, held bodies included, and its gaps lie below the
  floor the sender has now (`ViewOK`), and a message that may open a cursor after a
  reattachment names the epoch and the count the viewport really has (`Unopened`).  A
  resize leaves the logs alone, because what was numbered lies below the new anchor; a
  row scrolled is appended to one of them; an epoch that is opened starts its log with what
  was acknowledged of it.
* `EpochFresh` is what the last of these needs: neither of the two epochs that one message can
  open next (a reset, then a new size) is still named by the viewport or by a frame in
  flight.  The epoch is a byte, so without it 255 resizes that overtake one frame
  would bring that frame's epoch back; no bound in the code excludes them.
* `HistoryEpochsCorrect`: `HistorySpec /\ []EpochsLeft => []RowsAgree`.  Until two epochs before
  the byte comes round nothing need be said of what is in flight: no epoch is
  named that the sender has not reached (`Past`), which gives `EpochFresh`.  In the
  run `history` at most five epochs are opened, so it stays well inside.

`LocalFramesProofs` proves for any number of frames, rows and keys, any socket and any retention:

* `BufferCorrect`: `Spec => []BufferSound`.  Socket and buffer are one sequence of pairs of
  bytes (`Paired`), and the anchor, when there is one, is where the last record begins
  (`Anchored`): a frame is cut off whole.  `Coalesced` needs besides that a buffer without
  an anchor does not end in a whole visible frame (`Waiting`), positions counted from
  its end, which a drain leaves alone.
* `MirrorCorrect`: `Spec => MirrorSpec`.  `MirrorInv` says that there is an assignment of
  screens to frame numbers, in the order of the source, by which every slot, every
  record on its way and the viewport go.  Unlike in `FrameSync` no checksum is needed,
  because a number is never used for two screens; the toggle does not matter either.

* `LastScreenCorrect`: `Spec => []LastScreen`.  A viewport that the daemon confirms
  takes every number in turn: the records from the socket on have the numbers it has not
  taken, each over the one before, and Exit is behind the last (`ExactInv`).  One that
  coalesces skips numbers: no diff on its way is of a base it has not reached, and until it
  is at the newest frame either that frame is on its way or a resync is (`CoalInv`).
* `NothingCorrect`: with `MaxOverlayRows = 0`, `Spec => []NothingLost`.  Without coalescing
  the ring and, behind it, the rows on their way go on without a gap from the attach to what
  the daemon counts as acknowledged, which is all that scrolled off when the primary screen
  was last shown (`TurnInv`).  With it the viewport has, at every number it has been at, the rows
  that an acknowledgement of that number counts, so the rows the daemon sends go on from
  rows it has, even if they come twice (`HeldInv`).  Where the overlay scrolls rows off the
  formula is false (Disagreements).

A step of the daemon is described once, as a predicate of the connection before and
after (`FrameStep`, `RowsStep`, `Broadcasted`), and each invariant argues about that.
Types come without bounds here (`Shapes`): those of `TypeOK` are checked by TLC.

`AppModalProofs` proves for any number of connections, any length of the countdown and
any buttons:

* `TypeCorrect`, `BannersCorrect`, `ApprovedCorrect` and `VerdictCorrect`: `TypeOK`, `BannersTrue`,
  `ApprovedOnPurpose` and `Spec => VerdictSpec`, from one invariant.  `TableOK` says that two
  open connections never share a descriptor and that only viewports are capable.  `RunOK` is
  what makes the descriptor safe to answer to: it is the requester's, or it was
  cleared when that one hung up, or the whole table is empty after a detach, and
  then the countdown ends before anyone is accepted.  `ProgramsOK` says of each
  connection what may be on its sockets: a program's request until it is served and then its own verdict; a viewport's
  shows, each cleared behind it unless its countdown runs; answers that a user gave.

The bounds stand in guards only, and every theorem takes them as arbitrary numbers.

Only model-checked:

* Liveness: `Converges`, `Delivered`, `OpenSettles`, `CatchesUp` and `Settles` of each module.  They
  need ENABLED, which the prover does not reason about.
* `LocalFrames`: the bounds in `TypeOK`.

Neither proved nor reached by a run: `RowsAgree` of `History` where the epoch byte comes
round onto an epoch that is still named (`EpochFresh` above); it does not hold there.

## 14. Not modelled

The components `PROJECT.json` lists as such, and within the modelled ones:
rendering, status bars, statistics, capability negotiation (its result is a
constant), socket and process set-up, suspend clocks and probes (a wire may die
at any time), the direct `server_loop` use of the input stream (it writes the pty
in the same turn, so it has none of the buffer's interleavings), the death of an
old peer with acknowledged input in its buffer, several viewports of one session
and their leadership over its size, the capability probe, malformed requests and reused
ids of the modal and its disabled gate, the election of an agent endpoint
and its congestion window.  Most of the repository is parsing, rendering,
process set-up and tests, which have no protocol state; the map stays small
against it.  Recursion does not occur; no module uses `RECURSIVE`.
