--------------------------- MODULE DatagramPath ---------------------------
(***************************************************************************)
(* One direction of a wire, from the instruction a sender cuts up to the   *)
(* instruction the receiver puts together: Fragmenter and                  *)
(* FragmentAssembly (remote/sync.rs), Session and ReplayWindow             *)
(* (remote/crypto.rs), the receiving half of Connection                    *)
(* (remote/datagram.rs) and the reconnect of the mux daemon                *)
(* (remote/mux.rs).  The receiver is the server, whose client may roam, or *)
(* the mux daemon, which may dial a new wire.                              *)
(*                                                                         *)
(* A piece counts one byte, and what it holds is the wire it was sent on.  *)
(* A datagram that is never received is lost.                              *)
(***************************************************************************)
EXTENDS Integers, Sequences, FiniteSets

CONSTANTS
    Window,         \* sequence numbers the replay bitmap covers (64)
    MaxFragments,   \* MAX_FRAGMENTS (12288)
    MaxAssemblies,  \* MAX_ASSEMBLIES (8)
    MaxBytes,       \* MAX_ASSEMBLY_BYTES (16 MB)
    MaxAddr,        \* bound: addresses the client roams through
    MaxWires,       \* bound: wires, the first included
    MaxSeq,         \* bound: datagrams sealed on one wire
    MaxCopies       \* bound: datagrams the network duplicates

\* One maximal instruction fits the byte bound (sync.rs:1091).
ASSUME PathBounds ==
    /\ Window \in Nat \ {0}
    /\ MaxFragments \in Nat \ {0} /\ MaxAssemblies \in Nat \ {0}
    /\ MaxBytes \in Nat /\ MaxFragments =< MaxBytes
    /\ MaxAddr \in Nat \ {0} /\ MaxWires \in Nat \ {0}
    /\ MaxSeq \in Nat /\ MaxCopies \in Nat

VARIABLES
    is_server,     \* Connection.is_server of the receiver
    wire,          \* the wire (the key) in use
    reconnecting,  \* mux_loop: the wire is condemned and no new one is up
    sender,        \* [seq: Session.next_seq, sizes: pieces per id, addr]
    net,           \* datagrams in flight
    copies,        \* datagrams duplicated so far
    replay,        \* ReplayWindow [highest, bitmap, initialized]
    expected,      \* Connection.expected_receiver_seq
    remote,        \* Connection.remote, 0 for None
    assembly,      \* FragmentAssembly [parts, buffered]
    opened,        \* datagrams opened on this wire (not in the code)
    delivered,     \* what was put together of it, in order (not in the code)
    spoiled        \* ids that lost a piece or hold an old one (not in the code)

net_vars == <<sender, net, copies>>
conn_vars == <<replay, expected, remote>>
ghosts == <<opened, delivered, spoiled>>
vars == <<is_server, wire, reconnecting, net_vars, conn_vars, assembly, ghosts>>

-----------------------------------------------------------------------------
(* The sender. *)

\* Fragmenter::new and Session::new: both count from their start again.
NewSender == [seq |-> 0, sizes |-> <<>>, addr |-> 1]

Datagram(k, n) ==
    [wire |-> wire, from |-> sender.addr, seq |-> sender.seq + k,
     id |-> Len(sender.sizes) + 1, num |-> k, last |-> k = n - 1]

\* make_fragments cuts an instruction in n pieces, and each is sealed and sent
\* in turn.  Nothing keeps a sender below the receiver's MAX_FRAGMENTS.
Send(n) ==
    /\ sender.seq + n =< MaxSeq
    /\ net' = net \cup {Datagram(k, n) : k \in 0 .. n - 1}
    /\ sender' = [sender EXCEPT !.seq = @ + n, !.sizes = Append(@, n)]
    /\ UNCHANGED <<is_server, wire, reconnecting, copies, conn_vars, assembly, ghosts>>

\* The client's address changes under its socket.
Roam ==
    /\ is_server /\ sender.addr < MaxAddr
    /\ sender' = [sender EXCEPT !.addr = @ + 1]
    /\ UNCHANGED <<is_server, wire, reconnecting, net, copies, conn_vars, assembly, ghosts>>

-----------------------------------------------------------------------------
(* The replay window: bit d of the map is the number `highest - d`. *)

NewWindow == [highest |-> 0, bitmap |-> {}, initialized |-> FALSE]

Fresh(r, s) ==
    \/ ~r.initialized
    \/ s > r.highest
    \/ r.highest - s < Window /\ (r.highest - s) \notin r.bitmap

\* Mutant: the shift is taken modulo the width of the map.
Slide_Wraps(r, s) ==
    IF ~r.initialized THEN [highest |-> s, bitmap |-> {0}, initialized |-> TRUE]
    ELSE IF s > r.highest
    THEN [r EXCEPT !.highest = s,
                   !.bitmap = {0} \cup {b \in 0 .. Window - 1 :
                                          b - ((s - r.highest) % Window) \in @}]
    ELSE [r EXCEPT !.bitmap = @ \cup {r.highest - s}]

\* Mutant: a late datagram is let through and not marked.
Slide_Unmarked(r, s) ==
    IF ~r.initialized THEN [highest |-> s, bitmap |-> {0}, initialized |-> TRUE]
    ELSE IF s > r.highest
    THEN [r EXCEPT !.highest = s,
                   !.bitmap = {0} \cup {b \in 0 .. Window - 1 : b - (s - r.highest) \in @}]
    ELSE r

\* ReplayWindow::check, for a number it lets through.
Slide(r, s) ==
    IF ~r.initialized THEN [highest |-> s, bitmap |-> {0}, initialized |-> TRUE]
    ELSE IF s > r.highest
    THEN [r EXCEPT !.highest = s,
                   !.bitmap = {0} \cup {b \in 0 .. Window - 1 : b - (s - r.highest) \in @}]
    ELSE [r EXCEPT !.bitmap = @ \cup {r.highest - s}]

-----------------------------------------------------------------------------
(* Reassembly.  `parts` is in the order of Partial.touched, those that were *)
(* never touched (0) first and among them the oldest first: the first part  *)
(* is the one evict_least_recently_updated takes.                           *)

NewAssembly == [parts |-> <<>>, buffered |-> 0]

\* A total of 0 stands for None; `pieces` maps a number to its content.
NewPart(id) == [id |-> id, pieces |-> [k \in {} |-> 0], total |-> 0]

Bytes(ps) == Cardinality(UNION {{<<i, k>> : k \in DOMAIN ps[i].pieces} : i \in DOMAIN ps})

Ids(ps) == {ps[i].id : i \in DOMAIN ps}
Position(ps, id) == CHOOSE i \in DOMAIN ps : ps[i].id = id
PartOf(ps, id) == IF id \in Ids(ps) THEN ps[Position(ps, id)] ELSE NewPart(id)

Without(ps, id) ==
    IF id \notin Ids(ps) THEN ps
    ELSE LET i == Position(ps, id)
         IN  SubSeq(ps, 1, i - 1) \o SubSeq(ps, i + 1, Len(ps))

\* Where a part that was never touched comes in: behind the others of its kind.
Untouched(ps) ==
    CHOOSE k \in 0 .. Len(ps) :
        \A i \in DOMAIN ps : i =< k <=> DOMAIN ps[i].pieces = {}

\* Mutant: the last piece of a maximal instruction is one too many.
Rejects_Edge(p, m) ==
    \/ m.num + 1 >= MaxFragments
    \/ p.total # 0 /\ m.num >= p.total
    \/ m.last /\ (p.total \notin {0, m.num + 1} \/ \E k \in DOMAIN p.pieces : k > m.num)

\* Partial::rejects
Rejects(p, m) ==
    \/ m.num >= MaxFragments
    \/ p.total # 0 /\ m.num >= p.total
    \/ m.last /\ (p.total \notin {0, m.num + 1} \/ \E k \in DOMAIN p.pieces : k > m.num)

\* Partial::add
Put(p, m) ==
    [p EXCEPT
        !.total = IF m.last THEN m.num + 1 ELSE @,
        !.pieces = [k \in DOMAIN @ \cup {m.num} |-> IF k \in DOMAIN @ THEN @[k] ELSE m.wire]]

Complete(p) == p.total # 0 /\ DOMAIN p.pieces = 0 .. p.total - 1

\* A new instruction evicts the least recently updated while there are too many.
Admitted(ps, id) ==
    IF id \in Ids(ps) \/ Len(ps) < MaxAssemblies THEN ps
    ELSE SubSeq(ps, Len(ps) - MaxAssemblies + 2, Len(ps))

\* Of the other parts, those that stay when one byte more must fit.
Fits(held, others, k) == held - Bytes(SubSeq(others, 1, k)) + 1 =< MaxBytes
Room(held, others) ==
    LET k == CHOOSE k \in 0 .. Len(others) :
                 Fits(held, others, k) /\ \A j \in 0 .. k - 1 : ~Fits(held, others, j)
    IN  SubSeq(others, k + 1, Len(others))

\* Mutant: a completed part stays on the books.
Released_Never(part) == 0

\* The bytes a completed part takes off the count, its last piece apart.
Released(part) == Cardinality(DOMAIN part.pieces)

\* FragmentAssembly::add: the assembly after a piece, and the part it completed.
Fed(a, m) ==
    LET ps     == Admitted(a.parts, m.id)
        held   == a.buffered - (Bytes(a.parts) - Bytes(ps))
        part   == PartOf(ps, m.id)
        others == Without(ps, m.id)
        known  == m.num \in DOMAIN part.pieces
        stay   == IF known THEN others ELSE Room(held, others)
        left   == held - (Bytes(others) - Bytes(stay))
        put    == Put(part, m)
    IN  IF Rejects(part, m)
        THEN LET k == Untouched(ps)
             IN  [parts |-> IF m.id \in Ids(ps) THEN ps
                            ELSE SubSeq(ps, 1, k) \o <<part>> \o SubSeq(ps, k + 1, Len(ps)),
                  buffered |-> held, out |-> NewPart(0)]
        ELSE IF ~known /\ \A k \in 0 .. Len(others) : ~Fits(held, others, k)
        THEN [parts |-> <<>>, buffered |-> 0, out |-> NewPart(0)]
        ELSE IF Complete(put)
        THEN [parts |-> stay, buffered |-> left - Released(part), out |-> put]
        ELSE [parts |-> Append(stay, put), buffered |-> IF known THEN left ELSE left + 1,
              out |-> NewPart(0)]

-----------------------------------------------------------------------------
(* The receiver. *)

Init ==
    /\ is_server \in BOOLEAN
    /\ wire = 1 /\ reconnecting = FALSE
    /\ sender = NewSender /\ net = {} /\ copies = 0
    /\ replay = NewWindow /\ expected = 0
    /\ remote = IF is_server THEN 0 ELSE 1
    /\ assembly = NewAssembly
    /\ opened = {} /\ delivered = <<>> /\ spoiled = {}

\* Only the newest datagram moves the reply address.
Target(m) ==
    IF m.seq >= expected
    THEN expected' = m.seq + 1 /\ remote' = IF is_server THEN m.from ELSE remote
    ELSE UNCHANGED <<expected, remote>>

Old(p) == \E k \in DOMAIN p.pieces : p.pieces[k] # wire
Gone(before, after, id) == Ids(before) \ (Ids(after) \cup {id})

\* Connection::recv and FragmentAssembly::add, for a datagram that opens.
Opened(m) ==
    LET fed == Fed(assembly, m)
    IN  /\ Fresh(replay, m.seq)
        /\ replay' = Slide(replay, m.seq)
        /\ Target(m)
        /\ assembly' = [parts |-> fed.parts, buffered |-> fed.buffered]
        /\ opened' = opened \cup {m}
        /\ delivered' = IF fed.out.total = 0 \/ Old(fed.out) THEN delivered
                        ELSE Append(delivered, fed.out)
        /\ spoiled' = spoiled \cup Gone(assembly.parts, fed.parts, m.id)

\* Too old, or a replay.
Refused(m) ==
    /\ ~Fresh(replay, m.seq)
    /\ UNCHANGED <<conn_vars, assembly, ghosts>>

\* The network gives one of its datagrams up, or a copy of it.
Receive(m, kept) ==
    /\ m \in net
    /\ kept => copies < MaxCopies
    /\ copies' = IF kept THEN copies + 1 ELSE copies
    /\ net' = IF kept THEN net ELSE net \ {m}
    /\ Opened(m) \/ Refused(m)
    /\ UNCHANGED <<is_server, wire, reconnecting, sender>>

\* The verdict on a dead wire.  It throws the assembly away, but the socket
\* is read on until there is a new one.
Condemn ==
    /\ ~is_server /\ ~reconnecting /\ wire < MaxWires
    /\ reconnecting' = TRUE
    /\ assembly' = NewAssembly
    /\ spoiled' = {}
    /\ UNCHANGED <<is_server, wire, net_vars, conn_vars, opened, delivered>>

\* The new wire has a key of its own, under which nothing of the old opens,
\* and a peer that counts its instructions from 1 again.
Reestablish ==
    /\ reconnecting
    /\ reconnecting' = FALSE
    /\ wire' = wire + 1
    /\ sender' = NewSender /\ net' = {}
    /\ replay' = NewWindow /\ expected' = 0 /\ remote' = 1
    /\ opened' = {} /\ delivered' = <<>>
    /\ spoiled' = Ids(assembly.parts)
    /\ UNCHANGED <<is_server, copies, assembly>>

Next ==
    \/ \E n \in 1 .. MaxFragments + 1 : Send(n)
    \/ Roam
    \/ \E m \in net, kept \in BOOLEAN : Receive(m, kept)
    \/ Condemn \/ Reestablish

Spec == Init /\ [][Next]_vars

-----------------------------------------------------------------------------
(* Properties. *)

Numbers == 0 .. MaxSeq
Sizes == 1 .. MaxFragments + 1
Wires == 1 .. MaxWires
Datagrams ==
    [wire : Wires, from : 1 .. MaxAddr, seq : 0 .. MaxSeq - 1, id : 1 .. MaxSeq,
     num : 0 .. MaxFragments, last : BOOLEAN]
Parts ==
    [id : 1 .. MaxSeq, total : 0 .. MaxFragments,
     pieces : UNION {[D -> Wires] : D \in SUBSET (0 .. MaxFragments - 1)}]

SenderTypes ==
    /\ sender \in [seq : Numbers, sizes : Seq(Sizes), addr : 1 .. MaxAddr]
    /\ Len(sender.sizes) =< sender.seq
    /\ net \subseteq Datagrams /\ copies \in 0 .. MaxCopies
ReceiverTypes ==
    /\ is_server \in BOOLEAN /\ reconnecting \in BOOLEAN /\ wire \in Wires
    /\ replay \in [highest : Numbers, bitmap : SUBSET (0 .. Window - 1), initialized : BOOLEAN]
    /\ expected \in Numbers /\ remote \in 0 .. MaxAddr
    /\ opened \subseteq Datagrams /\ spoiled \subseteq 1 .. MaxSeq
AssemblySound ==
    /\ assembly \in [parts : Seq(Parts), buffered : 0 .. MaxBytes]
    /\ Len(assembly.parts) =< MaxAssemblies
    /\ assembly.buffered = Bytes(assembly.parts)

\* The state of the receiver stays within the bounds of the code: a window of
\* `Window` bits, at most MAX_ASSEMBLIES parts and MAX_ASSEMBLY_BYTES buffered,
\* where the count the eviction goes by is what is buffered, over every
\* completion, eviction and duplicate (sync.rs:206-330).
TypeOK == SenderTypes /\ ReceiverTypes /\ AssemblySound

OpenedNumbers == {m.seq : m \in opened}

\* ReplayWindow::check lets a number through exactly when it was not opened
\* before and is within 64 of the highest: the bitmap, shifted, says what the
\* history of the wire says (crypto.rs:114-139).
WindowExact ==
    \A s \in 0 .. MaxSeq - 1 :
        Fresh(replay, s) <=> /\ s \notin OpenedNumbers
                             /\ \A t \in OpenedNumbers : s + Window > t

\* The server answers to where the newest datagram it opened came from, so a
\* late one from before a roam never moves the stream back (datagram.rs:351-369).
NewestTarget ==
    \A m \in opened :
        (is_server /\ \A o \in opened : o.seq =< m.seq) => remote = m.from

\* Both of the receiver's memories of a wire agree with what it opened there.
WireRemembered == WindowExact /\ NewestTarget

\* An instruction of legal size of which every piece was opened has come out,
\* unless a part of it was evicted for others or an old piece was in its place:
\* no order of arrival wedges a part or loses a piece (RFC 0011 section 4).
Reassembles ==
    \A id \in DOMAIN sender.sizes :
        /\ ~reconnecting /\ id \notin spoiled
        /\ sender.sizes[id] =< MaxFragments
        /\ Cardinality({m \in opened : m.id = id}) = sender.sizes[id]
        => \E i \in DOMAIN delivered : delivered[i].id = id

\* The instruction `id` of a wire, put together from its n pieces.
Instruction(w, id, n) == [id |-> id, pieces |-> [k \in 0 .. n - 1 |-> w], total |-> n]

Channel == INSTANCE InstructionChannel WITH
    Instructions <- {Instruction(w, id, n) : w \in Wires, id \in 1 .. MaxSeq, n \in Sizes},
    sent <- {Instruction(wire, id, sender.sizes[id]) : id \in DOMAIN sender.sizes},
    got <- delivered

\* The path is a channel that delivers an instruction whole, once, or not at
\* all: loss, duplication, reordering and eviction never cut, join or repeat
\* one.  What is put together with a piece of an earlier wire is left out:
\* mux_loop reads the condemned socket into the assembly it has just reset.
ChannelSpec == Channel!Spec
=============================================================================
