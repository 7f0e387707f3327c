----------------------------- MODULE AgentPipes -----------------------------
(***************************************************************************)
(* What agent forwarding promises a program on the remote host that        *)
(* connects to the endpoint: a pipe each way to one connection of the      *)
(* user's agent.  Bytes come out in order and once.  Either end may be cut *)
(* at any time; an end is told that the other has closed only after it has *)
(* read all that the other wrote, and a connection that has ended, or that *)
(* the agent did not take, is never made again.                            *)
(***************************************************************************)
EXTENDS Naturals, Sequences

CONSTANTS Conns, Bytes

VARIABLES
    socket,   \* end -> connection -> "none", "open", "cut", "told"
    written,  \* end -> connection -> what its program has written
    read      \* end -> connection -> what its program has been given

vars == <<socket, written, read>>

Ends == {"peer", "daemon"}
Other(e) == IF e = "peer" THEN "daemon" ELSE "peer"

Init ==
    /\ socket = [e \in Ends |-> [c \in Conns |-> "none"]]
    /\ written = [e \in Ends |-> [c \in Conns |-> <<>>]]
    /\ read = written

Connect(c) ==
    /\ socket["peer"][c] = "none"
    /\ socket' = [socket EXCEPT !["peer"][c] = "open"]
    /\ UNCHANGED <<written, read>>

\* The last byte and the end of the stream may come together.
Write(e, c) ==
    /\ socket[e][c] = "open"
    /\ \E b \in Bytes : written' = [written EXCEPT ![e][c] = Append(@, b)]
    /\ \E s \in {"open", "cut"} : socket' = [socket EXCEPT ![e][c] = s]
    /\ UNCHANGED read

\* Some sockets of one end are closed, or connections not taken.
Cut(e) ==
    /\ \E C \in SUBSET Conns :
          /\ \A c \in C : socket[e][c] = "open" \/ (e = "daemon" /\ socket[e][c] = "none")
          /\ socket' = [socket EXCEPT ![e] = [c \in Conns |-> IF c \in C THEN "cut" ELSE @[c]]]
    /\ UNCHANGED <<written, read>>

\* News from the other end: the agent is dialled at the first, bytes are
\* handed over, and the end of the stream behind the last of them.
Hear(e, c) ==
    LET all == written[Other(e)][c]
    IN  /\ socket[e][c] = "open" \/ (e = "daemon" /\ socket[e][c] = "none")
        /\ socket[Other(e)][c] # "none"
        /\ \E n \in Len(read[e][c]) .. Len(all) :
              /\ read' = [read EXCEPT ![e][c] = SubSeq(all, 1, n)]
              /\ \/ socket' = [socket EXCEPT ![e][c] = "open"]
                 \/ /\ n = Len(all) /\ socket[Other(e)][c] # "open"
                    /\ socket' = [socket EXCEPT ![e][c] = "told"]
        /\ UNCHANGED written

Next ==
    \/ \E c \in Conns : Connect(c)
    \/ \E e \in Ends : Cut(e) \/ \E c \in Conns : Write(e, c) \/ Hear(e, c)

Spec == Init /\ [][Next]_vars
=============================================================================
