--------------------------- MODULE AgentChannels ---------------------------
(***************************************************************************)
(* Agent forwarding over the mux wire (agent.rs, RFC 0011 section 5).      *)
(* Programs on the remote host connect to the endpoint's socket; each      *)
(* connection is a channel of its own, which the mux daemon at the other   *)
(* end answers by dialling the user's agent.  Both ends keep a table of    *)
(* channels (AgentChannelMux), each with an outbox and an inbox of         *)
(* cumulative offsets, over datagrams that are lost and overtake each      *)
(* other.  OPEN rides until the adopter answers, CLOSE and FAIL ride       *)
(* TERM_RETRANSMITS times, and a closed identifier leaves a tombstone that *)
(* answers whoever still sends on it.                                      *)
(*                                                                         *)
(* Time is left out: a retransmission that is wanted may fire, and a loss  *)
(* happens as a datagram is sent.  The congestion window, which limits how *)
(* much data one pass may take, is left out as well.                       *)
(***************************************************************************)
EXTENDS Naturals, Sequences, FiniteSets

CONSTANTS
    MaxOpens,     \* bound: connections accepted
    Talkers,      \* bound: connections on which anything is written at all,
    MaxRequest,   \* and the bytes the program on the remote host writes there
    MaxReply,     \* and the agent
    MaxFlight,    \* bound: datagrams in flight when something new is begun
    MaxLoss,      \* datagrams the network drops
    Watched,      \* connections whose datagrams and timers are treated fairly
    MaxChannels,  \* MAX_AGENT_CHANNELS
    TermSends,    \* TERM_RETRANSMITS
    Chunk         \* AGENT_INSTRUCTION_DATA_MAX

Ids == 1..MaxOpens

ASSUME BoundsAssumption ==
    /\ MaxOpens \in Nat /\ MaxRequest \in Nat /\ MaxReply \in Nat
    /\ MaxFlight \in Nat /\ MaxLoss \in Nat
    /\ MaxChannels \in Nat \ {0} /\ TermSends \in Nat \ {0} /\ Chunk \in Nat \ {0}
    /\ Talkers \subseteq Ids /\ Watched \subseteq Ids

VARIABLES
    opened,   \* identifiers allocated; they are never used again
    chans,    \* end -> identifier -> its MuxChannel, or what is kept of one
    sock,     \* end -> identifier -> its local socket: "none", "open", "told"
              \* (closed as the other end said so), "cut" (or for another reason)
    sent,     \* end -> identifier -> bytes read from the local socket
    got,      \* end -> identifier -> bytes written to the local socket
    serving,  \* a session reference is held: the agent may be reached
    net,      \* end -> instructions on their way to it
    lost      \* datagrams dropped so far

vars == <<opened, chans, sock, sent, got, serving, net, lost>>

Ends == {"peer", "daemon"}   \* the opener on the remote host, the adopter here
Other(e) == IF e = "peer" THEN "daemon" ELSE "peer"
Limit(e, c) ==
    IF c \notin Talkers THEN 0 ELSE IF e = "peer" THEN MaxRequest ELSE MaxReply

Unseen ==
    [phase |-> "unseen", base |-> 0, buf |-> <<>>, next |-> 0, open |-> FALSE,
     term |-> "none", sends |-> 0, due |-> FALSE]

\* MuxChannel::new: something is to be sent at once.
Channel(opener) == [Unseen EXCEPT !.phase = "live", !.open = opener, !.due = TRUE]

Live(e) == {c \in Ids : chans[e][c].phase = "live"}
Sockets(e) == {c \in Ids : sock[e][c] = "open"}

Init ==
    /\ opened = 0
    /\ chans = [e \in Ends |-> [c \in Ids |-> Unseen]]
    /\ sock = [e \in Ends |-> [c \in Ids |-> "none"]]
    /\ sent = [e \in Ends |-> [c \in Ids |-> 0]]
    /\ got = [e \in Ends |-> [c \in Ids |-> <<>>]]
    /\ serving = TRUE
    /\ net = [e \in Ends |-> {}]
    /\ lost = 0

-----------------------------------------------------------------------------
(* Local sockets. *)

\* A CLOSE or FAIL record: the first one stands.
Terminate(ch, flag) ==
    IF ch.term = "none" THEN [ch EXCEPT !.term = flag, !.due = TRUE] ELSE ch

\* accept_pending.  A connection past MaxChannels is closed at once and leaves
\* no trace.
Accept ==
    /\ opened < MaxOpens
    /\ Cardinality(Sockets("peer")) < MaxChannels
    /\ opened' = opened + 1
    /\ chans' = [chans EXCEPT !["peer"][opened'] = Channel(TRUE)]
    /\ sock' = [sock EXCEPT !["peer"][opened'] = "open"]
    /\ UNCHANGED <<sent, got, serving, net, lost>>

\* The agent answers when it has the whole of what it is asked.
Speaks(e, c) ==
    /\ sent[e][c] < Limit(e, c)
    /\ e = "daemon" => Len(got[e][c]) = MaxRequest

\* read_channels: a byte, the end of the stream (or an error), or both.
ReadChannel(e) ==
    \E c \in Sockets(e), more \in BOOLEAN, eof \in BOOLEAN :
        LET pushed == IF ~more THEN chans[e][c]
                      ELSE [chans[e][c] EXCEPT !.buf = Append(@, sent[e][c] + 1),
                                               !.due = TRUE]
        IN  /\ more \/ eof
            /\ more => Speaks(e, c)
            /\ sent' = [sent EXCEPT ![e][c] = IF more THEN @ + 1 ELSE @]
            /\ chans' = [chans EXCEPT ![e][c] =
                            IF eof THEN Terminate(pushed, "close") ELSE pushed]
            /\ sock' = [sock EXCEPT ![e][c] = IF eof THEN "cut" ELSE @]
            /\ UNCHANGED <<opened, got, serving, net, lost>>

\* Every open socket is closed and its channel terminated.
CloseAll(e) ==
    /\ chans' = [chans EXCEPT ![e] =
                    [c \in Ids |-> IF sock[e][c] = "open" THEN Terminate(@[c], "close")
                                   ELSE @[c]]]
    /\ sock' = [sock EXCEPT ![e] = [c \in Ids |-> IF @[c] = "open" THEN "cut" ELSE @[c]]]
    /\ UNCHANGED <<opened, sent, got, net, lost>>

\* AgentEndpoint::tick: the daemon has been silent for AGENT_PEER_ACTIVE.
FastFail ==
    /\ Sockets("peer") # {}
    /\ CloseAll("peer")
    /\ UNCHANGED serving

\* The last session reference goes: close_all.
Unref == serving /\ serving' = FALSE /\ CloseAll("daemon")

Ref ==
    /\ ~serving /\ serving' = TRUE
    /\ UNCHANGED <<opened, chans, sock, sent, got, net, lost>>

-----------------------------------------------------------------------------
(* An instruction arrives: on_instruction, and its records applied. *)

Smaller(a, b) == IF a < b THEN a ELSE b

\* InputOutbox::ack
Acked(ch, upto) ==
    LET n == IF upto > ch.base THEN Smaller(upto - ch.base, Len(ch.buf)) ELSE 0
    IN  [ch EXCEPT !.base = @ + n, !.buf = SubSeq(@, n + 1, Len(@))]

\* Mutant: the overlap with what came before is not cut off.
Fresh_Whole(ch, m) == IF m.base > ch.next THEN <<>> ELSE m.data

\* InputInbox::accept
Fresh(ch, m) ==
    IF m.base > ch.next THEN <<>>
    ELSE SubSeq(m.data, ch.next - m.base + 1, Len(m.data))

\* What an instruction leaves of its channel: the OPEN is confirmed, the
\* acknowledged prefix dropped, what remains goes on, and fresh bytes, but no
\* others, are acknowledged.
Heard(ch, m) ==
    LET a == Acked([ch EXCEPT !.open = FALSE], m.ack)
        fresh == Fresh(ch, m) # <<>>
    IN  [a EXCEPT !.next = IF fresh THEN m.base + Len(m.data) ELSE @,
                  !.due = @ \/ a.buf # <<>> \/ fresh]

\* The tombstone of a channel: its terminal, whether it is owed to the other
\* end, and the final offsets.
Bury(ch, flag, echo) ==
    [ch EXCEPT !.phase = "buried", !.base = @ + Len(ch.buf), !.buf = <<>>, !.open = FALSE,
               !.term = flag, !.sends = TermSends, !.due = echo]

Arrives(e, m) == m \in net[e] /\ net' = [net EXCEPT ![e] = @ \ {m}]

\* Mutant: nobody is told that the channel is closed.
HearBuried_Silent(e, m) ==
    /\ chans[e][m.id].phase = "buried" /\ Arrives(e, m)
    /\ UNCHANGED <<opened, chans, sock, sent, got, serving, lost>>

\* A closed identifier: whoever still sends on it is told again.
HearBuried(e, m) ==
    /\ chans[e][m.id].phase = "buried" /\ Arrives(e, m)
    /\ chans' = [chans EXCEPT ![e][m.id].due = @ \/ m.term = "none"]
    /\ UNCHANGED <<opened, sock, sent, got, serving, lost>>

\* The identifier is one the adopter has not seen yet.
Opens(e, m) == e = "daemon" /\ m.open /\ chans[e][m.id].phase = "unseen"

HearStray(e, m) ==
    /\ chans[e][m.id].phase = "unseen" /\ ~Opens(e, m) /\ Arrives(e, m)
    /\ UNCHANGED <<opened, chans, sock, sent, got, serving, lost>>

\* Mutant: one channel too many.
Room_More == Cardinality(Live("daemon")) <= MaxChannels
Room == Cardinality(Live("daemon")) < MaxChannels

HearRefused(e, m) ==
    /\ Opens(e, m) /\ ~Room /\ Arrives(e, m)
    /\ chans' = [chans EXCEPT ![e][m.id] = Bury(Channel(FALSE), "fail", TRUE)]
    /\ sock' = [sock EXCEPT ![e][m.id] = "cut"]
    /\ UNCHANGED <<opened, sent, got, serving, lost>>

\* May the agent be reached for a channel adopted now?
Dials(e, m) == Opens(e, m) /\ serving /\ Cardinality(Sockets(e)) < MaxChannels

\* A live channel, or one adopted now, for which the agent is dialled; that may
\* fail.  The fresh bytes are written; that may fail too, and closes the socket
\* without a word to the other end.  A terminal ends both socket and channel.
HearLive(e, m) ==
    /\ chans[e][m.id].phase = "live" \/ (Opens(e, m) /\ Room)
    /\ Arrives(e, m)
    /\ \E connected \in IF Dials(e, m) THEN BOOLEAN ELSE {FALSE} :
        LET c == m.id
            ch == IF Opens(e, m) THEN Channel(FALSE) ELSE chans[e][c]
            heard == Heard(ch, m)
            open == sock[e][c] = "open" \/ connected
            bytes == IF open THEN Fresh(ch, m) ELSE <<>>
        IN  \E ok \in IF bytes = <<>> THEN {TRUE} ELSE BOOLEAN :
                /\ got' = [got EXCEPT ![e][c] = IF ok THEN @ \o bytes ELSE @]
                /\ sock' = [sock EXCEPT ![e][c] =
                               IF ~open THEN IF @ = "none" THEN "cut" ELSE @
                               ELSE IF ~ok THEN "cut"
                               ELSE IF m.term = "none" THEN "open" ELSE "told"]
                /\ chans' = [chans EXCEPT ![e][c] =
                      IF m.term # "none"
                      THEN Bury(heard, IF heard.term = "none" THEN "close" ELSE heard.term, TRUE)
                      ELSE IF Opens(e, m) /\ ~connected THEN Terminate(heard, "fail")
                      ELSE heard]
    /\ UNCHANGED <<opened, sent, serving, lost>>

Receive(e, m) == HearBuried(e, m) \/ HearStray(e, m) \/ HearRefused(e, m) \/ HearLive(e, m)

-----------------------------------------------------------------------------
(* AgentChannelMux::outgoing. *)

\* Old state worth a retransmission once its time has come.
Wants(ch) == ch.buf # <<>> \/ ch.open \/ (ch.term # "none" /\ ch.sends < TermSends)

Taken(ch) == SubSeq(ch.buf, 1, Smaller(Len(ch.buf), Chunk))

\* A terminal rides only with all that is left.
Flag(ch) == IF Len(ch.buf) <= Chunk THEN ch.term ELSE "none"

\* A tombstone has nothing left, and answers with its terminal.
Instruction(c, ch) ==
    [id |-> c, open |-> ch.open, term |-> Flag(ch),
     base |-> ch.base, ack |-> ch.next, data |-> Taken(ch)]

\* The count matters only up to TermSends.
Emitted(ch) ==
    [ch EXCEPT !.due = FALSE,
               !.sends = IF Flag(ch) = "none" THEN @ ELSE Smaller(@ + 1, TermSends)]

\* A terminal that has had its quota, with all the data acknowledged, retires.
Retired(ch) ==
    IF ch.phase = "live" /\ ch.term # "none" /\ ch.buf = <<>> /\ ch.sends >= TermSends
    THEN Bury(ch, ch.term, FALSE) ELSE ch

\* Whatever is owed is sent, and the channels in timers retransmit.
Outgoing(e, timers) ==
    LET sends == {c \in Ids : chans[e][c].due} \cup timers
        out == {Instruction(c, chans[e][c]) : c \in sends}
    IN  /\ \E drop \in SUBSET out :
              /\ lost + Cardinality(drop) <= MaxLoss
              /\ lost' = lost + Cardinality(drop)
              /\ net' = [net EXCEPT ![Other(e)] = @ \cup (out \ drop)]
        /\ chans' = [chans EXCEPT ![e] =
              [c \in Ids |-> Retired(IF c \in sends THEN Emitted(@[c]) ELSE @[c])]]
        /\ UNCHANGED <<opened, sock, sent, got, serving>>

-----------------------------------------------------------------------------
(* A turn of either loop ends with its sends.  The two share only the net, *)
(* so a turn may be taken as a whole: the other loop rests meanwhile.      *)

Owes(e) == \E c \in Ids : chans[e][c].due
Turns(e) == ~Owes(Other(e))
Calm == Cardinality(net["peer"]) + Cardinality(net["daemon"]) < MaxFlight

PeerStirs == Turns("peer") /\ Calm /\ (Accept \/ FastFail)
DaemonStirs == Turns("daemon") /\ Calm /\ (Unref \/ Ref)
Reads(e) == Turns(e) /\ Calm /\ ReadChannel(e)
Hears(e, c) == Turns(e) /\ \E m \in net[e] : m.id = c /\ Receive(e, m)
Pays(e) == Turns(e) /\ Outgoing(e, {})

\* Two timers that fire in one pass are two passes.
Resends(e, c) ==
    /\ Turns(e) /\ Calm
    /\ c \in Live(e) /\ Wants(chans[e][c])
    /\ Outgoing(e, {c})

Next ==
    \/ PeerStirs \/ DaemonStirs
    \/ \E e \in Ends :
          Reads(e) \/ Pays(e) \/ \E c \in Ids : Hears(e, c) \/ Resends(e, c)

Spec == Init /\ [][Next]_vars

\* What is owed is sent, a datagram that is not lost arrives, and a wanted
\* retransmission fires.
LiveSpec ==
    /\ Spec
    /\ WF_vars(\E e \in Ends : Pays(e))
    /\ WF_vars(\E e \in Ends, c \in Ids \ Watched : Hears(e, c))
    /\ \A e \in Ends, c \in Watched : SF_vars(Hears(e, c)) /\ SF_vars(Resends(e, c))

-----------------------------------------------------------------------------
(* Properties. *)

\* Bytes are named by their place in what their program writes.
Pipes == INSTANCE AgentPipes WITH
    Conns <- Ids, Bytes <- 1..(MaxRequest + MaxReply), socket <- sock, read <- got,
    written <- [e \in Ends |-> [c \in Ids |-> [i \in 1..sent[e][c] |-> i]]]

\* The tables stay within MAX_AGENT_CHANNELS at either end, each with its own
\* guard (agent.rs:659, :1013, :1370), a socket is open only on a live channel,
\* and none is open to the agent once the last session reference has gone
\* (close_all, mux.rs:1788, :1899).
TypeOK ==
    /\ opened \in 0..MaxOpens /\ lost \in 0..MaxLoss /\ serving \in BOOLEAN
    /\ \A e \in Ends :
          /\ Cardinality(Sockets(e)) <= MaxChannels
          /\ Sockets(e) \subseteq Live(e)
          /\ \A c \in Ids :
                /\ chans[e][c].phase = "unseen" <=> sock[e][c] = "none"
                /\ c > opened => sock[e][c] = "none"
                /\ sent[e][c] <= Limit(e, c)
    /\ Cardinality(Live("daemon")) <= MaxChannels
    /\ ~serving => Sockets("daemon") = {}

\* A connection is a pipe to one connection of the agent: bytes in order and
\* once though the tail is resent in overlapping pieces, the end of the stream
\* behind the last byte (a terminal rides only with all that is left), and no
\* identifier ever opened twice, though a late OPEN of a closed one may come
\* (the tombstones of on_instruction).
PipesSpec == Pipes!Spec

\* This end has closed the channel, by a terminal it owes or has sent: a socket
\* cut by a failed write is not told to anybody (apply_data_or_close).
Closing(e, c) ==
    chans[e][c].phase = "buried" \/ chans[e][c].term # "none"

\* The piece this end resends holds nothing new, so nobody acknowledges it.
Unheard(e, c) ==
    /\ Len(chans[e][c].buf) > Chunk
    /\ chans[Other(e)][c].next >= chans[e][c].base + Chunk

\* Once one end has closed a channel both sockets of it are closed: an OPEN, a
\* terminal or a tombstone that comes late, or too often, or to a full table
\* leaves neither end waiting (on_instruction, outgoing), as long as one of the
\* TERM_RETRANSMITS terminals arrives.  The exception is a tail too long for
\* one instruction whose acknowledgement was lost: it is resent for ever and
\* the terminal behind it never sent.
Settles ==
    \A c \in Watched :
        \/ (\E e \in Ends : Closing(e, c)) ~> \A e \in Ends : sock[e][c] # "open"
        \/ <>[](\E e \in Ends : Unheard(e, c))

\* "A sender MUST retransmit unacknowledged bytes, and a receiver MUST deliver
\* bytes to the agent socket in offset order" (RFC 0011, section 5): what the
\* program has written reaches the agent, unless the connection ends.
Delivered ==
    \A c \in Watched : \A n \in 1..MaxRequest :
        sent["peer"][c] = n ~> Len(got["daemon"][c]) >= n \/ Closing("daemon", c)
                                 \/ sock["daemon"][c] = "cut"
============================================================================
