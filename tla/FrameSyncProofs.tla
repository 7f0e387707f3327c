-------------------------- MODULE FrameSyncProofs --------------------------
(***************************************************************************)
(* What holds of FrameSync in every instance: types; no row of scrollback  *)
(* is counted as delivered that the viewport lacks; without scrollback v1  *)
(* a frame number names one screen, so the server's diff base is the       *)
(* viewport's; the viewport is a mirror of the source whatever the network *)
(* does; and the handshake ends on the last screen.                        *)
(***************************************************************************)
EXTENDS FrameSync, SequenceTheorems, TLAPS

-----------------------------------------------------------------------------
(* Types. *)

LEMMA MaxTakesOne ==
    ASSUME NEW S, NEW a \in S, NEW b \in S
    PROVE  Larger(a, b) \in S
  BY DEF Larger

\* A visible body has a body's type.
LEMMA VisibleBodyType ==
    ASSUME NEW f \in Frames, NEW num \in 0 .. MaxFrame,
           NEW base \in Real \cup {NoBase}, NEW bye \in BOOLEAN,
           NEW m \in VisibleBodies(f, num, base, bye)
    PROVE  m \in Bodies /\ m.num = f.num /\ m.to = f.data
  <1>1. 0 \in 0 .. MaxFrame /\ 0 \in 0 .. MaxRows
    BY BoundsAssumption
  <1>2. f.num \in 0 .. MaxFrame /\ f.data \in Real
    BY DEF Frames
  <1> QED
    BY <1>1, <1>2 DEF VisibleBodies, Frame, Bodies, Kinds

LEMMA NoneInEmpty == ASSUME NEW i \in DOMAIN <<>> PROVE FALSE
  BY EmptySeq, LenProperties

LEMMA TailOfNonEmpty ==
    ASSUME NEW P, NEW q \in Seq(P), Len(q) > 0
    PROVE  Tail(q) \in Seq(P) /\ Len(Tail(q)) = Len(q) - 1
  <1>1. q # <<>>
    BY EmptySeq
  <1> QED
    BY <1>1, HeadTailProperties

\* Installing a dump keeps the base history a bounded sequence of dumps.
LEMMA RememberType ==
    ASSUME NEW P, base_history \in Seq(P), Len(base_history) <= HistoryDepth,
           NEW n, NEW d, <<n, d>> \in P
    PROVE  Remember(n, d) \in Seq(P) /\ Len(Remember(n, d)) <= HistoryDepth
  <1> DEFINE all == Append(base_history, <<n, d>>)
  <1>1. all \in Seq(P) /\ Len(all) = Len(base_history) + 1
    BY AppendProperties
  <1>2. CASE HistoryDepth = 0
    BY <1>2, EmptySeq DEF Remember
  <1>3. CASE HistoryDepth # 0 /\ Len(all) > HistoryDepth
    <2>1. Tail(all) \in Seq(P) /\ Len(Tail(all)) = Len(all) - 1
      <3> HIDE DEF all
      <3> QED BY <1>1, <1>3, TailOfNonEmpty, DepthAssumption
    <2>2. Remember(n, d) = Tail(all)
      BY <1>3 DEF Remember
    <2>3. Len(all) - 1 <= HistoryDepth
      BY <1>1, DepthAssumption, LenProperties
    <2> QED
      BY <2>1, <2>2, <2>3
  <1>4. CASE HistoryDepth # 0 /\ ~(Len(all) > HistoryDepth)
    BY <1>1, <1>4, DepthAssumption, LenProperties DEF Remember
  <1> QED
    BY <1>2, <1>3, <1>4

LEMMA TypeInit == Init => TypeOK
  <1> SUFFICES ASSUME Init PROVE TypeOK
    OBVIOUS
  <1> USE BoundsAssumption, DepthAssumption DEF Init
  <1>1. FlagTypes
    BY Zenon DEF FlagTypes
  <1>2. LoopTypes
    BY DEF LoopTypes
  <1>3. Empty \in Real
    BY DEF Empty, Real
  <1>4. ProducerTypes
    BY <1>3 DEF ProducerTypes, Frames
  <1>5. NetworkTypes
    BY DEF NetworkTypes
  <1>6. ViewportTypes
    BY <1>3, EmptySeq DEF ViewportTypes, Screens, Requests
  <1> QED
    BY <1>1, <1>2, <1>4, <1>5, <1>6 DEF TypeOK

\* The shells behind the server.
LEMMA TypeShells == TypeOK /\ Shells => TypeOK'
  <1> SUFFICES ASSUME TypeOK, Shells PROVE TypeOK'
    OBVIOUS
  <1> USE BoundsAssumption DEF TypeOK, term_vars, sb_vars, loop_vars
  <1>1. LoopTypes'
    BY DEF Shells, ShellOutput, OverlayOutput, OverlayExit, ShellExit, LoopTypes
  <1>2. UNCHANGED <<producer_vars, net_vars, client_vars>>
    BY Zenon DEF Shells, ShellOutput, OverlayOutput, OverlayExit, ShellExit
  <1>3. ProducerTypes'
    BY <1>2 DEF ProducerTypes, producer_vars
  <1>4. NetworkTypes' /\ ViewportTypes'
    BY <1>2 DEF NetworkTypes, ViewportTypes, net_vars, client_vars, screen_vars,
       user_vars
  <1>5. FlagTypes'
    <2>1. UNCHANGED <<visible_directly_acked, quit, shutdown_seen, client_up>>
      BY <1>2, Zenon DEF producer_vars, client_vars, user_vars
    <2>2. UNCHANGED <<has_remote, current_is_sb, last_was_sb>>
      BY Zenon DEF Shells, ShellOutput, OverlayOutput, OverlayExit, ShellExit
    <2>3. pty_open' \in {FALSE, pty_open} /\ force_frame' \in {TRUE, force_frame}
          /\ shutdown' \in {TRUE, shutdown} /\ alt' \in BOOLEAN
      BY DEF FlagTypes, Shells, ShellOutput, OverlayOutput, OverlayExit, ShellExit
    <2> QED
      BY <2>1, <2>2, <2>3 DEF FlagTypes
  <1> QED
    BY <1>1, <1>3, <1>4, <1>5

\* A fresh slot: the retained frames are the older ones, within the window.
LEMMA RotateTypes ==
    ASSUME ProducerTypes, NEW f \in Frames, f.num = current.num + 1, Rotate(f)
    PROVE  /\ current' \in Frames /\ outstanding' \in SUBSET Frames
           /\ \A g \in outstanding' :
                 g.num < current'.num /\ current'.num <= g.num + Outstanding
  BY DepthAssumption DEF ProducerTypes, Rotate, Frames

LEMMA TypeSendVisible == TypeOK /\ SendVisible => TypeOK'
  <1> SUFFICES ASSUME TypeOK, SendVisible PROVE TypeOK'
    OBVIOUS
  <1> DEFINE next == [num |-> current.num + 1, data |-> Src, sb |-> VisibleRows]
  <1> USE BoundsAssumption DEF TypeOK
  <1>1. next \in Frames /\ next.num = current.num + 1
    BY DEF SendVisible, Frames, ProducerTypes, LoopTypes, Src, Real, VisibleRows
  <1>2. Rotate(next) /\ UNCHANGED <<acked_num, acked_data>>
        /\ last_visible_num' = next.num
    BY DEF SendVisible, AdvanceVisible
  <1>3. ProducerTypes'
    BY <1>1, <1>2, RotateTypes DEF ProducerTypes, Frames
  <1>4. LoopTypes'
    BY DEF SendVisible, SrcGen, LoopTypes, term_vars
  <1>5. FlagTypes'
    BY Zenon DEF SendVisible, AdvanceVisible, FlagTypes, term_vars, client_vars, user_vars
  <1>6. NetworkTypes'
    <2>1. PICK m \in VisibleBodies(current', acked_num, acked_data, shutdown) :
             s2c' = s2c \cup {m}
      BY DEF SendVisible
    <2>2. m \in Bodies
      BY <1>3, <2>1, VisibleBodyType DEF ProducerTypes, FlagTypes
    <2> QED
      BY <2>1, <2>2 DEF SendVisible, NetworkTypes
  <1>7. ViewportTypes'
    BY DEF SendVisible, ViewportTypes, client_vars, screen_vars, user_vars
  <1> QED
    BY <1>3, <1>4, <1>5, <1>6, <1>7

LEMMA ScrollbackBodyType ==
    ASSUME ProducerTypes, LoopTypes, NEW f \in Frames, NEW bye \in BOOLEAN
    PROVE  ScrollbackBody(f, bye) \in Bodies
  <1>1. Larger(acked_sb_total, sb_floor) \in 0 .. MaxRows
    BY MaxTakesOne DEF LoopTypes
  <1>2. f.num \in 0 .. MaxFrame /\ f.sb \in 0 .. MaxRows /\ Empty \in Real
    BY BoundsAssumption DEF Frames, Empty, Real
  <1> QED
    BY <1>1, <1>2 DEF ScrollbackBody, Frame, Bodies, Kinds, ProducerTypes

LEMMA TypeSendScrollback == TypeOK /\ SendScrollback => TypeOK'
  <1> SUFFICES ASSUME TypeOK, SendScrollback PROVE TypeOK'
    OBVIOUS
  <1> DEFINE next == [num |-> current.num + 1,
                      data |-> IF acked_data # NoBase THEN acked_data ELSE current.data,
                      sb |-> sb_total]
  <1> USE BoundsAssumption DEF TypeOK
  <1>1. next \in Frames /\ next.num = current.num + 1
    BY DEF SendScrollback, Frames, ProducerTypes, LoopTypes
  <1>2. Rotate(next) /\ UNCHANGED <<acked_num, acked_data, last_visible_num>>
    BY DEF SendScrollback, AdvanceScrollback
  <1>3. ProducerTypes'
    BY <1>1, <1>2, RotateTypes DEF ProducerTypes
  <1>4. LoopTypes'
    BY DEF SendScrollback, LoopTypes, term_vars, loop_vars
  <1>5. FlagTypes'
    BY Zenon DEF SendScrollback, AdvanceScrollback, FlagTypes, term_vars, loop_vars,
       client_vars, user_vars
  <1>6. NetworkTypes'
    <2>1. ScrollbackBody(current', shutdown) \in Bodies
      <3>1. current' = next
        BY <1>2 DEF Rotate
      <3> QED
        BY <1>1, <3>1, ScrollbackBodyType DEF FlagTypes
    <2> QED
      BY <2>1 DEF SendScrollback, NetworkTypes
  <1>7. ViewportTypes'
    BY DEF SendScrollback, ViewportTypes, client_vars, screen_vars, user_vars
  <1> QED
    BY <1>3, <1>4, <1>5, <1>6, <1>7

\* A turn that makes no frame.
LEMMA TypeResend == TypeOK /\ (Retransmit \/ SendEmpty) => TypeOK'
  <1> SUFFICES ASSUME TypeOK, Retransmit \/ SendEmpty PROVE TypeOK'
    OBVIOUS
  <1> USE BoundsAssumption DEF TypeOK
  <1>1. UNCHANGED <<term_vars, sb_vars, producer_vars, client_vars, last_gen, shutdown,
                    exited, has_remote>>
    BY Zenon DEF Retransmit, SendEmpty, loop_vars
  <1>2. FlagTypes'
    <2>1. UNCHANGED <<pty_open, alt, shutdown, has_remote, current_is_sb, last_was_sb,
                      visible_directly_acked, quit, shutdown_seen, client_up>>
      BY <1>1, Zenon DEF term_vars, sb_vars, producer_vars, client_vars, user_vars
    <2>2. force_frame' = force_frame \/ force_frame' = Forced
      BY Zenon DEF Retransmit, SendEmpty, loop_vars
    <2>3. Forced \in BOOLEAN
      BY DEF Forced
    <2> QED
      BY <2>1, <2>2, <2>3 DEF FlagTypes
  <1>3. LoopTypes'
    BY <1>1 DEF LoopTypes, term_vars, sb_vars
  <1>4. ProducerTypes'
    BY <1>1 DEF ProducerTypes, producer_vars
  <1>5. ViewportTypes'
    BY <1>1 DEF ViewportTypes, client_vars, screen_vars, user_vars
  <1>6. \E m \in Bodies : s2c' = s2c \cup {m}
    <2>1. CASE SendEmpty
      <3>1. EmptyBody(current.num, shutdown) \in Bodies
        BY DEF EmptyBody, Frame, Bodies, Kinds, Empty, Real, ProducerTypes, FlagTypes, Frames
      <3> QED
        BY <2>1, <3>1 DEF SendEmpty
    <2>2. CASE Retransmit /\ current_is_sb
      <3>1. ScrollbackBody(current, shutdown) \in Bodies
        BY ScrollbackBodyType DEF ProducerTypes, FlagTypes
      <3> QED
        BY <2>2, <3>1 DEF Retransmit
    <2>3. CASE Retransmit /\ ~current_is_sb
      <3>1. PICK m \in VisibleBodies(current, acked_num, acked_data, shutdown) :
               s2c' = s2c \cup {m}
        BY <2>3 DEF Retransmit
      <3>2. m \in Bodies
        BY <3>1, VisibleBodyType DEF ProducerTypes, FlagTypes
      <3> QED
        BY <3>1, <3>2
    <2> QED
      BY <2>1, <2>2, <2>3
  <1>7. UNCHANGED <<c2s, lost>>
    BY Zenon DEF Retransmit, SendEmpty
  <1> QED
    BY <1>2, <1>3, <1>4, <1>5, <1>6, <1>7 DEF NetworkTypes

LEMMA TypeExit == TypeOK /\ (ExitAttested \/ ExitExpired) => TypeOK'
  <1> SUFFICES ASSUME TypeOK, ExitAttested \/ ExitExpired PROVE TypeOK'
    OBVIOUS
  <1>1. UNCHANGED <<term_vars, sb_vars, last_gen, force_frame, shutdown, has_remote,
                    producer_vars, net_vars, client_vars>>
    BY Zenon DEF ExitAttested, ExitExpired
  <1>2. exited' \in {"no", "attested", "expired"}
    BY DEF ExitAttested, ExitExpired
  <1> QED
    BY <1>1, <1>2 DEF TypeOK, FlagTypes, LoopTypes, ProducerTypes, NetworkTypes, ViewportTypes,
       term_vars, sb_vars, producer_vars, net_vars, client_vars, screen_vars, user_vars

LEMMA TypeReceiveMessage ==
    ASSUME TypeOK, NEW m \in c2s, ReceiveMessage(m)
    PROVE  TypeOK'
  <1> DEFINE resync == "resync" \in m.flags
             floor == IF has_remote THEN sb_floor ELSE sb_total
  <1> USE BoundsAssumption DEF TypeOK
  <1>1. m \in Messages
    BY DEF NetworkTypes
  <1>2. UNCHANGED <<pty_open, alt, current_is_sb, last_was_sb, client_vars>>
        /\ has_remote' = TRUE /\ shutdown' \in BOOLEAN /\ force_frame' \in BOOLEAN
    BY Zenon DEF ReceiveMessage
  <1>3. visible_directly_acked' \in BOOLEAN
    <2>1. \/ UNCHANGED visible_directly_acked
          \/ visible_directly_acked' = (visible_directly_acked \/ m.ack = last_visible_num)
      BY Zenon DEF ReceiveMessage, Ack
    <2> QED
      BY <2>1, Zenon DEF FlagTypes
  <1>4. FlagTypes'
    BY <1>2, <1>3, Zenon DEF FlagTypes, client_vars, user_vars
  <1>5. \A f \in Held(m.ack) : f \in Frames
    BY DEF Held, ProducerTypes
  <1>6. Ack(m.ack, resync) /\ UNCHANGED <<current, last_visible_num>>
    BY DEF ReceiveMessage
  <1>7. ProducerTypes' /\ acked_sb_total' \in 0 .. MaxRows
    <2>1. CASE m.ack <= acked_num \/ m.ack > current.num
      BY <1>6, <2>1 DEF Ack, ProducerTypes, LoopTypes
    <2>2. CASE ~(m.ack <= acked_num \/ m.ack > current.num)
      <3>1. CASE Held(m.ack) = {}
        BY <1>1, <1>6, <2>2, <3>1 DEF Ack, ProducerTypes, LoopTypes, Messages
      <3>2. CASE Held(m.ack) # {}
        <4> DEFINE h == CHOOSE f \in Held(m.ack) : TRUE
        <4>1. h \in Frames
          BY <1>5, <3>2
        <4>2. h.data \in Real /\ Larger(acked_sb_total, h.sb) \in 0 .. MaxRows
          <5>1. h.sb \in 0 .. MaxRows /\ acked_sb_total \in 0 .. MaxRows /\ h.data \in Real
            BY <4>1 DEF Frames, LoopTypes
          <5> QED
            BY <5>1, MaxTakesOne
        <4>3. /\ acked_num' = m.ack
              /\ acked_data' \in {h.data, NoBase}
              /\ acked_sb_total' = Larger(acked_sb_total, h.sb)
              /\ outstanding' \subseteq outstanding
          BY <1>6, <2>2, <3>2 DEF Ack
        <4> HIDE DEF h
        <4> QED
          BY <1>1, <1>6, <4>2, <4>3 DEF ProducerTypes, Messages
      <3> QED
        BY <3>1, <3>2
    <2> QED
      BY <2>1, <2>2
  <1>8. LoopTypes'
    <2>1. floor \in 0 .. MaxRows /\ Larger(sb_high, floor) \in 0 .. MaxRows
      BY MaxTakesOne DEF LoopTypes
    <2>2. UNCHANGED <<gen, last_gen, exited, sb_total>>
      BY DEF ReceiveMessage
    <2>3. sb_floor' = floor /\ sb_high' = Larger(sb_high, floor)
      BY DEF ReceiveMessage
    <2>4. epoch' \in 0 .. MaxEpoch /\ ogen' \in 1 .. MaxGen
      BY DEF ReceiveMessage, LoopTypes
    <2> HIDE DEF floor
    <2> QED
      BY <1>7, <2>1, <2>2, <2>3, <2>4 DEF LoopTypes
  <1>9. NetworkTypes' /\ ViewportTypes'
    BY <1>2 DEF ReceiveMessage, NetworkTypes, ViewportTypes, client_vars, screen_vars, user_vars
  <1> QED
    BY <1>4, <1>7, <1>8, <1>9

\* The base a delta is applied to is a dump the viewport held, or none.
LEMMA BaseForType ==
    ASSUME ViewportTypes, NEW m \in Bodies
    PROVE  BaseFor(m) \in Screens \cup {NoBase}
  <1>1. ASSUME Remembered(m.base) # {}
        PROVE  base_history[CHOOSE i \in Remembered(m.base) : TRUE][2] \in Screens
    <2> DEFINE i == CHOOSE i \in Remembered(m.base) : TRUE
    <2>1. i \in DOMAIN base_history
      BY <1>1 DEF Remembered
    <2>2. base_history[i] \in (0 .. MaxFrame) \X Screens
      BY <2>1, ElementOfSeq, LenProperties DEF ViewportTypes
    <2> QED
      BY <2>2
  <1> QED
    BY <1>1 DEF BaseFor, ViewportTypes

LEMMA InstallTypes ==
    ASSUME ViewportTypes, NEW m \in Bodies, NEW d \in Screens, Install(m, d),
           UNCHANGED requests
    PROVE  ViewportTypes'
  <1>1. m.num \in 0 .. MaxFrame
    BY DEF Bodies
  <1>2. /\ Remember(m.num, d) \in Seq((0 .. MaxFrame) \X Screens)
        /\ Len(Remember(m.num, d)) <= HistoryDepth
    BY <1>1, RememberType DEF ViewportTypes
  <1>3. UNCHANGED <<scrollback, flags>> /\ applied_num' = m.num /\ applied_data' = d
        /\ server_term' = d /\ base_history' = Remember(m.num, d)
    BY DEF Install
  <1> QED
    BY <1>1, <1>2, <1>3 DEF ViewportTypes

LEMMA TypeReceiveFrame ==
    ASSUME TypeOK, NEW m \in s2c, ReceiveFrame(m)
    PROVE  TypeOK'
  <1> USE BoundsAssumption DEF TypeOK
  <1>1. m \in Bodies
    BY DEF NetworkTypes
  <1>2. UNCHANGED <<term_vars, sb_vars, loop_vars, producer_vars, c2s, lost, requests>>
    BY Zenon DEF ReceiveFrame
  <1>3. FlagTypes'
    BY <1>2, Zenon DEF ReceiveFrame, FlagTypes, term_vars, sb_vars, loop_vars, producer_vars
  <1>4. LoopTypes' /\ ProducerTypes'
    BY <1>2 DEF LoopTypes, ProducerTypes, term_vars, sb_vars, loop_vars, producer_vars
  <1>5. NetworkTypes'
    BY <1>2 DEF ReceiveFrame, NetworkTypes
  <1>6. m.to \in Screens /\ Garbage \in Screens /\ "resync" \in Requests
    BY <1>1 DEF Bodies, Screens, Requests
  <1>7. ViewportTypes'
    <2>1. CASE Ignore(m)
      BY <1>2, <2>1 DEF Ignore, ViewportTypes, screen_vars
    <2>2. CASE AppendRows(m)
      <3>1. [i \in 1 .. m.hi - m.lo |-> m.lo + i] \in Seq(1 .. MaxRows)
        <4>1. m.hi \in 0 .. MaxRows /\ m.lo \in 0 .. MaxRows
          BY <1>1 DEF Bodies
        <4>2. CASE m.hi < m.lo
          <5>1. [i \in 1 .. m.hi - m.lo |-> m.lo + i] = <<>>
            BY <4>1, <4>2
          <5> QED
            BY <5>1, EmptySeq
        <4>3. CASE ~(m.hi < m.lo)
          <5>1. m.hi - m.lo \in Nat
            BY <4>1, <4>3
          <5>2. \A i \in 1 .. m.hi - m.lo : m.lo + i \in 1 .. MaxRows
            BY <4>1, <4>3
          <5> QED
            BY <5>1, <5>2, SeqDef
        <4> QED
          BY <4>2, <4>3
      <3>2. scrollback' \in Seq(1 .. MaxRows)
        BY <2>2, <3>1, ConcatProperties DEF AppendRows, ViewportTypes
      <3>3. applied_num' \in 0 .. MaxFrame
        BY <1>1, <2>2 DEF AppendRows, Bodies
      <3> QED
        BY <1>2, <2>2, <3>2, <3>3 DEF AppendRows, ViewportTypes
    <2>3. CASE ApplyFull(m)
      BY <1>1, <1>2, <1>6, <2>3, InstallTypes DEF ApplyFull
    <2>4. CASE RejectDelta(m)
      BY <1>2, <1>6, <2>4 DEF RejectDelta, ViewportTypes, screen_vars
    <2>5. CASE ApplyDiff(m)
      <3>1. CASE Install(m, m.to) \/ Install(m, Garbage)
        BY <1>1, <1>2, <1>6, <3>1, InstallTypes
      <3>2. CASE UNCHANGED screen_vars /\ flags' = flags \cup {"resync"}
        BY <1>2, <1>6, <3>2 DEF ViewportTypes, screen_vars
      <3> QED
        BY <2>5, <3>1, <3>2 DEF ApplyDiff
    <2>6. CASE ApplyMorph(m)
      BY <1>1, <1>2, <1>6, <2>6 DEF ApplyMorph, ViewportTypes, Bodies
    <2> QED
      BY <2>1, <2>2, <2>3, <2>4, <2>5, <2>6 DEF ReceiveFrame
  <1> QED
    BY <1>3, <1>4, <1>5, <1>7

\* The viewport's other steps, and the network's.
LEMMA TypeViewport ==
    TypeOK /\ (SendMessage \/ GiveUp \/ UserQuit \/ \E r \in Requests : UserRequest(r))
        => TypeOK'
  <1> SUFFICES ASSUME TypeOK,
                      SendMessage \/ GiveUp \/ UserQuit \/ \E r \in Requests : UserRequest(r)
               PROVE  TypeOK'
    OBVIOUS
  <1> USE BoundsAssumption DEF TypeOK
  <1>1. UNCHANGED <<term_vars, sb_vars, loop_vars, producer_vars, screen_vars, s2c, lost,
                    shutdown_seen>>
    BY Zenon DEF SendMessage, GiveUp, UserQuit, UserRequest, net_vars
  <1>2. FlagTypes'
    <2>1. UNCHANGED <<pty_open, alt, force_frame, shutdown, has_remote, current_is_sb, last_was_sb,
                      visible_directly_acked, shutdown_seen>>
      BY <1>1, Zenon DEF term_vars, sb_vars, loop_vars, producer_vars
    <2>2. quit' \in {TRUE, quit} /\ client_up' \in {FALSE, client_up}
      BY DEF SendMessage, GiveUp, UserQuit, UserRequest, user_vars
    <2> QED
      BY <2>1, <2>2 DEF FlagTypes
  <1>3. LoopTypes' /\ ProducerTypes'
    BY <1>1 DEF LoopTypes, ProducerTypes, term_vars, sb_vars, loop_vars, producer_vars
  <1>4. ViewportTypes'
    BY <1>1 DEF SendMessage, GiveUp, UserQuit, UserRequest, ViewportTypes, screen_vars
  <1>5. NetworkTypes'
    <2>1. Message(flags) \in Messages
      BY DEF Message, Messages, ViewportTypes, FlagTypes
    <2> QED
      BY <1>1, <2>1 DEF SendMessage, GiveUp, UserQuit, UserRequest, NetworkTypes, net_vars
  <1> QED
    BY <1>2, <1>3, <1>4, <1>5

LEMMA TypeNetwork == TypeOK /\ Network => TypeOK'
  <1> SUFFICES ASSUME TypeOK, Network PROVE TypeOK'
    OBVIOUS
  <1>1. UNCHANGED <<term_vars, sb_vars, loop_vars, producer_vars, client_vars>>
    BY Zenon DEF Network, LoseFrame, LoseMessage
  <1>2. NetworkTypes'
    BY BoundsAssumption DEF Network, LoseFrame, LoseMessage, TypeOK, NetworkTypes
  <1> QED
    BY <1>1, <1>2 DEF TypeOK, FlagTypes, LoopTypes, ProducerTypes, ViewportTypes, term_vars,
       sb_vars, loop_vars, producer_vars, client_vars, screen_vars, user_vars

LEMMA TypeStutter == TypeOK /\ UNCHANGED vars => TypeOK'
  BY DEF vars, TypeOK, FlagTypes, LoopTypes, ProducerTypes, NetworkTypes, ViewportTypes,
     term_vars, sb_vars, loop_vars, producer_vars, net_vars, client_vars, screen_vars, user_vars

LEMMA TypeNext == TypeOK /\ [Next]_vars => TypeOK'
  BY TypeShells, TypeSendVisible, TypeSendScrollback, TypeResend, TypeExit,
     TypeReceiveMessage, TypeReceiveFrame, TypeViewport, TypeNetwork, TypeStutter
  DEF Next, Server, Viewport

(* Every variable of server_loop, its FrameProducer, the network and the    *)
(* viewport keeps its type, for every size of the instance and every set of *)
(* capabilities.                                                            *)
THEOREM TypeCorrect == Spec => []TypeOK
  <1> QED
    BY TypeInit, TypeNext, PTL DEF Spec

-----------------------------------------------------------------------------
(* No row of scrollback is counted as delivered that the viewport lacks.    *)

HasRow(r)  == \E i \in DOMAIN scrollback : scrollback[i] = r
HasRows(x) == \A r \in sb_floor + 1 .. x : HasRow(r)

Slots == outstanding \cup {current}

\* Whoever confirms frame n holds the rows it stands for.
RowsOf(n) == \A f \in Slots : f.num = n => HasRows(f.sb)

\* What is confirmed, what the next visible frame would confirm, and what the
\* viewport is about to confirm.
RowsHeld ==
    /\ HasRows(acked_sb_total)
    /\ ~current_is_sb => HasRows(current.sb)
    /\ applied_num <= current.num /\ RowsOf(applied_num)

AcksHold == \A m \in c2s : m.ack <= current.num /\ RowsOf(m.ack)

\* A scrollback body starts at a row that is held and ends at the row its slot
\* stands for; any other body may be applied as it is.
FrameHolds(m) ==
    /\ m.num <= current.num
    /\ m.kind = "scrollback" =>
          HasRows(m.lo) /\ \A f \in Slots : f.num = m.num => f.sb = m.hi
    /\ m.kind \notin {"scrollback", "empty"} => RowsOf(m.num)

FramesHold == \A m \in s2c : FrameHolds(m)

\* Before the first message there is nothing to confirm.
Unheard ==
    ~has_remote => /\ current.num = 0 /\ current.sb = 0 /\ outstanding = {}
                   /\ s2c = {} /\ acked_sb_total = 0 /\ applied_num = 0
                   /\ sb_floor = 0

RowsInv == RowsHeld /\ AcksHold /\ FramesHold /\ Unheard

LEMMA RowsInit == Init => RowsInv
  <1> SUFFICES ASSUME Init PROVE RowsInv
    OBVIOUS
  <1>1. HasRows(0)
    BY DEF Init, HasRows
  <1> QED
    BY <1>1 DEF Init, RowsInv, RowsHeld, AcksHold, FramesHold, Unheard, RowsOf, Slots

\* The slots' numbers: the newest frame's is its own.
LEMMA SlotNumbers ==
    ASSUME TypeOK
    PROVE  /\ current.num \in Nat /\ applied_num \in Nat
           /\ \A f \in Slots : f.num \in Nat /\ f.num <= current.num
           /\ \A f \in Slots : f.num = current.num => f = current
           /\ \A m \in s2c : m.num \in Nat
           /\ \A m \in c2s : m.ack \in Nat
  <1> USE BoundsAssumption DEF TypeOK
  <1>1. current.num \in Nat /\ \A f \in outstanding : f.num \in Nat /\ f.num < current.num
    BY DEF ProducerTypes, Frames
  <1>2. \A f \in Slots : f \in outstanding \/ f = current
    BY DEF Slots
  <1> QED
    BY <1>1, <1>2 DEF ViewportTypes, NetworkTypes, Bodies, Messages

\* A step that leaves frames, rows and acks alone; a heartbeat may join the
\* frames in flight, and a message that confirms what was applied the acks.
LEMMA RowsQuiet ==
    ASSUME TypeOK, RowsInv,
           UNCHANGED <<current, current_is_sb, outstanding, acked_sb_total, sb_floor,
                       scrollback, applied_num, has_remote>>,
           \A m \in c2s' : m \in c2s \/ m.ack = applied_num,
           \A m \in s2c' : m \in s2c \/ (has_remote /\ m.kind = "empty" /\ m.num = current.num)
    PROVE  RowsInv'
  <1>1. /\ \A x : HasRows(x)' <=> HasRows(x)
        /\ Slots' = Slots
    BY DEF HasRows, HasRow, Slots
  <1>2. \A n : RowsOf(n)' <=> RowsOf(n)
    BY <1>1 DEF RowsOf
  <1>3. RowsHeld'
    BY <1>1, <1>2 DEF RowsInv, RowsHeld
  <1>4. AcksHold'
    BY <1>2 DEF RowsInv, RowsHeld, AcksHold
  <1>5. FramesHold'
    <2> SUFFICES ASSUME NEW m \in s2c' PROVE FrameHolds(m)'
      BY DEF FramesHold
    <2>1. CASE m \in s2c
      BY <1>1, <1>2, <2>1 DEF RowsInv, FramesHold, FrameHolds
    <2>2. CASE m.kind = "empty" /\ m.num = current.num
      BY <2>2, SlotNumbers DEF FrameHolds
    <2> QED
      BY <2>1, <2>2
  <1>6. Unheard'
    BY DEF RowsInv, Unheard
  <1> QED
    BY <1>3, <1>4, <1>5, <1>6 DEF RowsInv

\* A new frame: it alone bears its number.
LEMMA RowsAdvance ==
    ASSUME TypeOK, RowsInv, has_remote, has_remote', NEW f, NEW k,
           Rotate(f), f.num = current.num + 1, s2c' = s2c \cup {k}, k.num = f.num,
           UNCHANGED <<acked_sb_total, sb_floor, scrollback, applied_num, c2s>>,
           ~current_is_sb' => HasRows(f.sb),
           \/ k.kind = "scrollback" /\ HasRows(k.lo) /\ k.hi = f.sb
           \/ k.kind # "scrollback" /\ HasRows(f.sb)
    PROVE  RowsInv'
  <1>1. \A x : HasRows(x)' <=> HasRows(x)
    BY DEF HasRows, HasRow
  <1>2. current' = f /\ \A g \in Slots' : g \in Slots \/ g = f
    BY DEF Rotate, Slots
  <1>3. \A g \in Slots : g.num \in Nat /\ g.num <= current.num
    BY SlotNumbers
  <1>4. current.num \in Nat /\ applied_num \in Nat
        /\ (\A m \in s2c : m.num \in Nat) /\ (\A m \in c2s : m.ack \in Nat)
    BY SlotNumbers
  <1>5. \A n \in Nat : n <= current.num /\ RowsOf(n) => RowsOf(n)'
    BY <1>1, <1>2, <1>4 DEF RowsOf
  <1>6. \A g \in Slots' : g.num = f.num => g = f
    BY <1>2, <1>3, <1>4
  <1>7. RowsHeld'
    BY <1>1, <1>2, <1>4, <1>5 DEF RowsInv, RowsHeld
  <1>8. AcksHold'
    BY <1>2, <1>4, <1>5 DEF RowsInv, AcksHold
  <1>9. FramesHold'
    <2> SUFFICES ASSUME NEW m \in s2c' PROVE FrameHolds(m)'
      BY DEF FramesHold
    <2>1. CASE m \in s2c
      <3>1. m.num \in Nat /\ m.num <= current.num
        BY <1>4, <2>1 DEF RowsInv, FramesHold, FrameHolds
      <3>2. m.num <= current'.num
        BY <1>2, <1>4, <3>1
      <3>3. \A g \in Slots' : g.num = m.num => g \in Slots
        BY <1>2, <1>4, <3>1
      <3>4. m.kind = "scrollback" =>
               HasRows(m.lo)' /\ \A g \in Slots' : g.num = m.num => g.sb = m.hi
        BY <1>1, <2>1, <3>3 DEF RowsInv, FramesHold, FrameHolds
      <3>5. m.kind \notin {"scrollback", "empty"} => RowsOf(m.num)'
        BY <1>5, <2>1, <3>1 DEF RowsInv, FramesHold, FrameHolds
      <3> QED
        BY <3>2, <3>4, <3>5 DEF FrameHolds
    <2>2. CASE m = k
      <3>1. m.num = f.num /\ m.num <= current'.num
        BY <1>2, <1>4, <2>2
      <3>2. HasRows(f.sb) => RowsOf(f.num)'
        BY <1>1, <1>6 DEF RowsOf
      <3>3. m.kind = "scrollback" =>
               HasRows(m.lo)' /\ \A g \in Slots' : g.num = m.num => g.sb = m.hi
        BY <1>1, <1>6, <2>2, <3>1
      <3> QED
        BY <2>2, <3>1, <3>2, <3>3 DEF FrameHolds
    <2> QED
      BY <2>1, <2>2
  <1> QED
    BY <1>7, <1>8, <1>9 DEF RowsInv, Unheard

\* The rows of a scrollback body start at one that is held.
LEMMA BodyStart ==
    ASSUME TypeOK, RowsInv
    PROVE  HasRows(Larger(acked_sb_total, sb_floor))
  <1>1. HasRows(acked_sb_total)
    BY DEF RowsInv, RowsHeld
  <1>2. sb_floor \in Nat /\ acked_sb_total \in Nat
    BY BoundsAssumption DEF TypeOK, LoopTypes
  <1>3. HasRows(sb_floor)
    BY <1>2 DEF HasRows
  <1> QED
    BY <1>1, <1>3 DEF Larger

LEMMA RowsSendVisible == TypeOK /\ RowsInv /\ SendVisible => RowsInv'
  <1> SUFFICES ASSUME TypeOK, RowsInv, SendVisible PROVE RowsInv'
    OBVIOUS
  <1> DEFINE f == [num |-> current.num + 1, data |-> Src, sb |-> VisibleRows]
  <1>1. Rotate(f) /\ f.num = current.num + 1 /\ f.sb = acked_sb_total
    BY DEF SendVisible, AdvanceVisible, VisibleRows
  <1>2. current' = f
    BY <1>1 DEF Rotate
  <1>3. PICK k \in VisibleBodies(current', acked_num, acked_data, shutdown) :
           s2c' = s2c \cup {k}
    BY DEF SendVisible
  <1>4. k.num = f.num /\ k.kind # "scrollback"
    BY <1>2, <1>3 DEF VisibleBodies, Frame
  <1>5. has_remote /\ UNCHANGED <<has_remote, acked_sb_total, sb_floor, scrollback,
                                  applied_num, c2s>>
    BY DEF SendVisible, CanSend, client_vars, screen_vars
  <1>6. HasRows(f.sb)
    BY <1>1 DEF RowsInv, RowsHeld
  <1> HIDE DEF f
  <1> QED
    BY <1>1, <1>3, <1>4, <1>5, <1>6, RowsAdvance

LEMMA RowsSendScrollback == TypeOK /\ RowsInv /\ SendScrollback => RowsInv'
  <1> SUFFICES ASSUME TypeOK, RowsInv, SendScrollback PROVE RowsInv'
    OBVIOUS
  <1> DEFINE f == [num |-> current.num + 1,
                   data |-> IF acked_data # NoBase THEN acked_data ELSE current.data,
                   sb |-> sb_total]
             k == ScrollbackBody(current', shutdown)
  <1>1. Rotate(f) /\ f.num = current.num + 1 /\ current_is_sb'
    BY DEF SendScrollback, AdvanceScrollback
  <1>2. current' = f
    BY <1>1 DEF Rotate
  <1>3. s2c' = s2c \cup {k}
    BY DEF SendScrollback
  <1>4. k.num = f.num /\ k.kind = "scrollback" /\ k.hi = f.sb
        /\ k.lo = Larger(acked_sb_total, sb_floor)
    BY <1>2 DEF ScrollbackBody, Frame
  <1>5. has_remote /\ UNCHANGED <<has_remote, acked_sb_total, sb_floor, scrollback,
                                  applied_num, c2s>>
    BY DEF SendScrollback, CanSend, client_vars, screen_vars, loop_vars
  <1>6. HasRows(k.lo)
    BY <1>4, BodyStart
  <1> HIDE DEF f, k
  <1> QED
    BY <1>1, <1>3, <1>4, <1>5, <1>6, RowsAdvance

\* A retransmission is a body of the newest frame.
LEMMA RowsRetransmit == TypeOK /\ RowsInv /\ Retransmit => RowsInv'
  <1> SUFFICES ASSUME TypeOK, RowsInv, Retransmit PROVE RowsInv'
    OBVIOUS
  <1>1. has_remote /\ UNCHANGED <<current, current_is_sb, outstanding, acked_sb_total, sb_floor,
                                  scrollback, applied_num, has_remote, c2s>>
    BY DEF Retransmit, CanSend, client_vars, screen_vars, producer_vars, sb_vars, loop_vars
  <1>2. /\ \A x : HasRows(x)' <=> HasRows(x)
        /\ Slots' = Slots
    BY <1>1 DEF HasRows, HasRow, Slots
  <1>3. \A n : RowsOf(n)' <=> RowsOf(n)
    BY <1>2 DEF RowsOf
  <1>4. PICK k \in IF current_is_sb THEN {ScrollbackBody(current, shutdown)}
                   ELSE VisibleBodies(current, acked_num, acked_data, shutdown) :
           s2c' = s2c \cup {k}
    BY DEF Retransmit
  <1>5. \A f \in Slots : f.num = current.num => f = current
    BY SlotNumbers
  <1>6. k.num = current.num /\ k.num <= current.num
    BY <1>4, SlotNumbers DEF ScrollbackBody, VisibleBodies, Frame
  <1>7. k.kind = "scrollback" =>
           HasRows(k.lo) /\ \A f \in Slots : f.num = k.num => f.sb = k.hi
    <2> SUFFICES ASSUME k.kind = "scrollback"
                 PROVE  HasRows(k.lo) /\ \A f \in Slots : f.num = k.num => f.sb = k.hi
      OBVIOUS
    <2>1. k = ScrollbackBody(current, shutdown)
      BY <1>4 DEF VisibleBodies, Frame
    <2> QED
      BY <1>5, <1>6, <2>1, BodyStart DEF ScrollbackBody, Frame
  <1>8. k.kind # "scrollback" => RowsOf(k.num)
    <2> SUFFICES ASSUME k.kind # "scrollback" PROVE RowsOf(k.num)
      OBVIOUS
    <2>1. ~current_is_sb
      BY <1>4 DEF ScrollbackBody, Frame
    <2> QED
      BY <1>5, <1>6, <2>1 DEF RowsInv, RowsHeld, RowsOf
  <1>9. FramesHold'
    BY <1>1, <1>2, <1>3, <1>4, <1>6, <1>7, <1>8 DEF RowsInv, FramesHold, FrameHolds
  <1>10. RowsHeld' /\ AcksHold'
    BY <1>1, <1>2, <1>3 DEF RowsInv, RowsHeld, AcksHold
  <1> QED
    BY <1>1, <1>9, <1>10 DEF RowsInv, Unheard

\* An ack confirms no row that whoever sent it lacks.
LEMMA RowsReceiveMessage ==
    ASSUME TypeOK, RowsInv, NEW m \in c2s, ReceiveMessage(m)
    PROVE  RowsInv'
  <1>1. /\ UNCHANGED <<current, current_is_sb, scrollback, applied_num, s2c>>
        /\ has_remote' /\ c2s' \subseteq c2s
    BY DEF ReceiveMessage, client_vars, screen_vars
  <1>2. m.ack <= current.num /\ RowsOf(m.ack)
    BY DEF RowsInv, AcksHold
  <1>3. Ack(m.ack, "resync" \in m.flags)
    BY DEF ReceiveMessage
  <1>4. outstanding' \subseteq outstanding
    BY <1>3 DEF Ack
  <1>5. acked_sb_total' = acked_sb_total
        \/ \E f \in Slots : f.num = m.ack /\ acked_sb_total' = Larger(acked_sb_total, f.sb)
    <2>1. CASE m.ack <= acked_num \/ m.ack > current.num \/ Held(m.ack) = {}
      BY <1>3, <2>1 DEF Ack
    <2>2. CASE ~(m.ack <= acked_num \/ m.ack > current.num \/ Held(m.ack) = {})
      <3> DEFINE h == CHOOSE f \in Held(m.ack) : TRUE
      <3>1. h \in Held(m.ack)
        BY <2>2
      <3>2. acked_sb_total' = Larger(acked_sb_total, h.sb)
        BY <1>3, <2>2 DEF Ack
      <3> HIDE DEF h
      <3> QED
        BY <3>1, <3>2 DEF Held, Slots
    <2> QED
      BY <2>1, <2>2
  <1>6. Slots' \subseteq Slots
    BY <1>1, <1>4 DEF Slots
  <1>7. \A x : HasRows(x) => HasRows(x)'
    <2>1. CASE has_remote
      BY <1>1, <2>1 DEF ReceiveMessage, HasRows, HasRow
    <2>2. CASE ~has_remote
      <3>1. sb_floor = 0 /\ sb_floor' = sb_total /\ sb_total \in Nat
        BY <2>2 DEF ReceiveMessage, RowsInv, Unheard, TypeOK, LoopTypes
      <3> QED
        BY <1>1, <3>1 DEF HasRows, HasRow
    <2> QED
      BY <2>1, <2>2
  <1>8. \A n : RowsOf(n) => RowsOf(n)'
    BY <1>6, <1>7 DEF RowsOf
  <1>9. HasRows(acked_sb_total)'
    <2>1. \A f \in Slots : f.num = m.ack => HasRows(Larger(acked_sb_total, f.sb))
      BY <1>2 DEF RowsInv, RowsHeld, RowsOf, Larger
    <2>2. HasRows(acked_sb_total)
      BY DEF RowsInv, RowsHeld
    <2>3. \E x : acked_sb_total' = x /\ HasRows(x)
      BY <1>5, <2>1, <2>2
    <2>4. PICK x : acked_sb_total' = x /\ HasRows(x)
      BY <2>3
    <2>5. HasRows(x)'
      BY <1>7, <2>4
    <2> QED
      BY <2>4, <2>5 DEF HasRows
  <1>10. RowsHeld'
    BY <1>1, <1>7, <1>8, <1>9 DEF RowsInv, RowsHeld
  <1>11. AcksHold'
    BY <1>1, <1>8 DEF RowsInv, AcksHold
  <1>12. FramesHold'
    BY <1>1, <1>6, <1>7, <1>8 DEF RowsInv, FramesHold, FrameHolds
  <1> QED
    BY <1>1, <1>10, <1>11, <1>12 DEF RowsInv, Unheard

\* Rows that join the ring are held, and no row leaves it.
LEMMA RingGrows ==
    ASSUME NEW q \in Seq(Int), NEW s \in Seq(Int)
    PROVE  /\ \A i \in DOMAIN q : i \in DOMAIN (q \o s) /\ (q \o s)[i] = q[i]
           /\ \A j \in DOMAIN s : \E i \in DOMAIN (q \o s) : (q \o s)[i] = s[j]
  <1>1. /\ Len(q \o s) = Len(q) + Len(s) /\ q \o s \in Seq(Int)
        /\ \A i \in 1 .. Len(q) + Len(s) :
              (q \o s)[i] = IF i <= Len(q) THEN q[i] ELSE s[i - Len(q)]
    BY ConcatProperties
  <1>2. /\ Len(q) \in Nat /\ DOMAIN q = 1 .. Len(q)
        /\ Len(s) \in Nat /\ DOMAIN s = 1 .. Len(s)
        /\ DOMAIN (q \o s) = 1 .. Len(q) + Len(s)
    BY <1>1, LenProperties
  <1>3. \A i \in DOMAIN q : i \in DOMAIN (q \o s) /\ (q \o s)[i] = q[i]
    BY <1>1, <1>2
  <1>4. ASSUME NEW j \in DOMAIN s
        PROVE  \E i \in DOMAIN (q \o s) : (q \o s)[i] = s[j]
    <2>1. j + Len(q) \in 1 .. Len(q) + Len(s) /\ ~(j + Len(q) <= Len(q))
          /\ (j + Len(q)) - Len(q) = j
      BY <1>2
    <2>2. (q \o s)[j + Len(q)] = s[j]
      BY <1>1, <2>1
    <2> QED
      BY <1>2, <2>1, <2>2
  <1> QED
    BY <1>3, <1>4

\* A frame at the viewport: what it applies it holds the rows of.
LEMMA RowsReceiveFrame ==
    ASSUME TypeOK, RowsInv, NEW m \in s2c, ReceiveFrame(m)
    PROVE  RowsInv'
  <1>1. /\ UNCHANGED <<current, current_is_sb, outstanding, acked_sb_total, sb_floor,
                       has_remote, c2s>>
        /\ s2c' \subseteq s2c
    BY DEF ReceiveFrame, sb_vars, loop_vars, producer_vars
  <1>2. FrameHolds(m) /\ m \in Bodies
    BY DEF RowsInv, FramesHold, TypeOK, NetworkTypes
  <1>3. \/ UNCHANGED <<applied_num, scrollback>>
        \/ /\ UNCHANGED scrollback /\ applied_num' = m.num
           /\ m.kind \notin {"scrollback", "empty"}
        \/ AppendRows(m)
    BY DEF ReceiveFrame, Ignore, RejectDelta, ApplyFull, ApplyDiff, ApplyMorph, Install,
       screen_vars
  <1>4. AppendRows(m) =>
           /\ \A i \in DOMAIN scrollback :
                 i \in DOMAIN scrollback' /\ scrollback'[i] = scrollback[i]
           /\ \A r \in m.lo + 1 .. m.hi : \E i \in DOMAIN scrollback' : scrollback'[i] = r
    <2> SUFFICES ASSUME AppendRows(m)
                 PROVE  /\ \A i \in DOMAIN scrollback :
                              i \in DOMAIN scrollback' /\ scrollback'[i] = scrollback[i]
                        /\ \A r \in m.lo + 1 .. m.hi :
                              \E i \in DOMAIN scrollback' : scrollback'[i] = r
      OBVIOUS
    <2>1. m.lo \in Nat /\ m.hi \in Nat
      BY <1>2, BoundsAssumption DEF Bodies
    <2>2. scrollback \in Seq(Int)
      <3>1. scrollback \in Seq(1 .. MaxRows)
        BY DEF TypeOK, ViewportTypes
      <3>2. 1 .. MaxRows \subseteq Int
        OBVIOUS
      <3> QED
        BY <3>1, <3>2, SeqMonotonic
    <2> DEFINE s == [i \in 1 .. m.hi - m.lo |-> m.lo + i]
    <2>3. s \in Seq(Int)
      <3>1. CASE m.hi < m.lo
        <4>1. s = <<>>
          BY <2>1, <3>1
        <4> QED
          BY <4>1, EmptySeq
      <3>2. CASE ~(m.hi < m.lo)
        <4>1. m.hi - m.lo \in Nat /\ \A i \in 1 .. m.hi - m.lo : m.lo + i \in Int
          BY <2>1, <3>2
        <4> QED
          BY <4>1, SeqDef
      <3> QED
        BY <3>1, <3>2
    <2>4. \A r \in m.lo + 1 .. m.hi : \E j \in DOMAIN s : s[j] = r
      <3> SUFFICES ASSUME NEW r \in m.lo + 1 .. m.hi PROVE \E j \in DOMAIN s : s[j] = r
        OBVIOUS
      <3>1. r - m.lo \in DOMAIN s /\ s[r - m.lo] = r
        BY <2>1
      <3> QED
        BY <3>1
    <2>5. scrollback' = scrollback \o s
      BY DEF AppendRows
    <2> HIDE DEF s
    <2>6. /\ \A i \in DOMAIN scrollback :
                i \in DOMAIN (scrollback \o s) /\ (scrollback \o s)[i] = scrollback[i]
          /\ \A j \in DOMAIN s :
                \E i \in DOMAIN (scrollback \o s) : (scrollback \o s)[i] = s[j]
      BY <2>2, <2>3, RingGrows
    <2> QED
      BY <2>4, <2>5, <2>6
  <1>5. \A r : HasRow(r) => HasRow(r)'
    BY <1>3, <1>4 DEF HasRow
  <1>6. \A x : HasRows(x) => HasRows(x)'
    BY <1>1, <1>5 DEF HasRows
  <1>7. Slots' = Slots /\ \A n : RowsOf(n) => RowsOf(n)'
    BY <1>1, <1>6 DEF RowsOf, Slots
  <1>8. applied_num' <= current.num /\ RowsOf(applied_num)'
    <2>1. CASE UNCHANGED applied_num
      BY <1>7, <2>1 DEF RowsInv, RowsHeld
    <2>2. CASE applied_num' = m.num /\ m.kind \notin {"scrollback", "empty"}
      BY <1>2, <1>7, <2>2 DEF FrameHolds
    <2>3. CASE AppendRows(m)
      <3>1. applied_num' = m.num /\ m.kind = "scrollback"
        BY <2>3 DEF AppendRows
      <3>2. HasRows(m.lo) /\ \A f \in Slots : f.num = m.num => f.sb = m.hi
        BY <1>2, <3>1 DEF FrameHolds
      <3>3. HasRows(m.hi)'
        <4>1. m.lo \in Nat /\ m.hi \in Nat /\ sb_floor \in Nat
          BY <1>2, BoundsAssumption DEF Bodies, TypeOK, LoopTypes
        <4>2. HasRows(m.lo)'
          BY <1>6, <3>2
        <4>3. \A r \in m.lo + 1 .. m.hi : HasRow(r)'
          BY <1>4, <2>3 DEF HasRow
        <4> QED
          BY <1>1, <4>1, <4>2, <4>3 DEF HasRows
      <3> QED
        BY <1>2, <1>7, <3>1, <3>2, <3>3 DEF FrameHolds, RowsOf
    <2> QED
      BY <1>3, <2>1, <2>2, <2>3
  <1>9. RowsHeld'
    BY <1>1, <1>6, <1>8 DEF RowsInv, RowsHeld
  <1>10. AcksHold'
    BY <1>1, <1>7 DEF RowsInv, AcksHold
  <1>11. FramesHold'
    BY <1>1, <1>6, <1>7 DEF RowsInv, FramesHold, FrameHolds
  <1>12. Unheard'
    <2>1. has_remote
      BY DEF RowsInv, Unheard
    <2> QED
      BY <1>1, <2>1 DEF Unheard
  <1> QED
    BY <1>9, <1>10, <1>11, <1>12 DEF RowsInv

LEMMA RowsNext == TypeOK /\ RowsInv /\ [Next]_vars => RowsInv'
  <1> SUFFICES ASSUME TypeOK, RowsInv, [Next]_vars PROVE RowsInv'
    OBVIOUS
  <1>1. CASE SendVisible \/ SendScrollback \/ Retransmit
    BY <1>1, RowsSendVisible, RowsSendScrollback, RowsRetransmit
  <1>2. CASE \E m \in c2s : ReceiveMessage(m)
    BY <1>2, RowsReceiveMessage
  <1>3. CASE \E m \in s2c : ReceiveFrame(m)
    BY <1>3, RowsReceiveFrame
  <1>4. CASE SendEmpty
    <2>1. UNCHANGED <<current, current_is_sb, outstanding, acked_sb_total, sb_floor,
                      scrollback, applied_num, has_remote, c2s>>
      BY <1>4, Zenon DEF SendEmpty, sb_vars, producer_vars, client_vars, screen_vars
    <2>2. \A m \in s2c' : m \in s2c \/ (has_remote /\ m.kind = "empty" /\ m.num = current.num)
      BY <1>4 DEF SendEmpty, CanSend, EmptyBody, Frame
    <2> QED
      BY <2>1, <2>2, RowsQuiet
  <1>5. CASE SendMessage
    <2>1. UNCHANGED <<current, current_is_sb, outstanding, acked_sb_total, sb_floor,
                      scrollback, applied_num, has_remote, s2c>>
      BY <1>5, Zenon DEF SendMessage, sb_vars, loop_vars, producer_vars, screen_vars
    <2>2. \A m \in c2s' : m \in c2s \/ m.ack = applied_num
      BY <1>5 DEF SendMessage, Message
    <2> QED
      BY <2>1, <2>2, RowsQuiet
  <1>6. CASE Shells \/ ExitAttested \/ ExitExpired \/ GiveUp \/ UserQuit \/ Network
             \/ (\E r \in Requests : UserRequest(r)) \/ UNCHANGED vars
    <2>1. UNCHANGED <<current, current_is_sb, outstanding, acked_sb_total, sb_floor,
                      scrollback, applied_num, has_remote>>
      BY <1>6, Zenon DEF Shells, ShellOutput, OverlayOutput, OverlayExit, ShellExit,
         ExitAttested, ExitExpired, GiveUp, UserQuit, UserRequest, Network, LoseFrame,
         LoseMessage, vars, sb_vars, loop_vars, producer_vars, client_vars, screen_vars
    <2>2. c2s' \subseteq c2s /\ s2c' \subseteq s2c
      BY <1>6 DEF Shells, ShellOutput, OverlayOutput, OverlayExit, ShellExit,
         ExitAttested, ExitExpired, GiveUp, UserQuit, UserRequest, Network, LoseFrame,
         LoseMessage, vars, net_vars
    <2> QED
      BY <2>1, <2>2, RowsQuiet
  <1> QED
    BY <1>1, <1>2, <1>3, <1>4, <1>5, <1>6 DEF Next, Server, Viewport

(* Rows the server counts as delivered are in the viewport's ring, in every *)
(* set of capabilities and whatever the network loses or reorders: a visible *)
(* frame confirms only what was confirmed before it, and a scrollback body  *)
(* starts where the viewport's rows end (finding #1 in server_loop).        *)
THEOREM RowsCorrect == Spec => []NoRowSkipped
  <1>1. RowsInv => NoRowSkipped
    BY DEF RowsInv, RowsHeld, HasRows, HasRow, NoRowSkipped
  <1> QED
    BY <1>1, RowsInit, RowsNext, TypeCorrect, PTL DEF Spec

-----------------------------------------------------------------------------
(* Bodies are made for the peer's capabilities.                             *)

MadeFor(m) ==
    /\ m.kind = "morph" => Morph
    /\ m.kind = "diff" => ~Morph
    /\ m.kind = "scrollback" => Scrollback

Made == (current_is_sb => Scrollback) /\ \A m \in s2c : MadeFor(m)

LEMMA VisibleMade ==
    ASSUME NEW f, NEW num, NEW base, NEW bye, NEW m \in VisibleBodies(f, num, base, bye)
    PROVE  MadeFor(m) /\ m.kind \in {"full", "diff", "morph"} /\ m.num = f.num /\ m.to = f.data
  BY DEF VisibleBodies, Frame, MadeFor

LEMMA MadeInit == Init => Made
  BY DEF Init, Made

LEMMA MadeNext == Made /\ [Next]_vars => Made'
  <1> SUFFICES ASSUME Made, [Next]_vars PROVE Made'
    OBVIOUS
  <1>1. CASE SendVisible
    <2>1. PICK k \in VisibleBodies(current', acked_num, acked_data, shutdown) :
             s2c' = s2c \cup {k}
      BY <1>1 DEF SendVisible
    <2>2. MadeFor(k)
      BY <2>1, VisibleMade
    <2>3. ~current_is_sb'
      BY <1>1 DEF SendVisible
    <2> QED
      BY <2>1, <2>2, <2>3 DEF Made
  <1>2. CASE SendScrollback
    <2>1. Scrollback
      BY <1>2 DEF SendScrollback, MakeScrollback, WantScrollback
    <2>2. s2c' = s2c \cup {ScrollbackBody(current', shutdown)}
      BY <1>2 DEF SendScrollback
    <2>3. MadeFor(ScrollbackBody(current', shutdown))
      BY <2>1 DEF ScrollbackBody, Frame, MadeFor
    <2> QED
      BY <2>1, <2>2, <2>3 DEF Made
  <1>3. CASE Retransmit
    <2>1. PICK k \in IF current_is_sb THEN {ScrollbackBody(current, shutdown)}
                     ELSE VisibleBodies(current, acked_num, acked_data, shutdown) :
             s2c' = s2c \cup {k}
      BY <1>3 DEF Retransmit
    <2>2. CASE current_is_sb
      <3>1. k = ScrollbackBody(current, shutdown) /\ Scrollback
        BY <2>1, <2>2 DEF Made
      <3>2. MadeFor(k)
        BY <3>1 DEF ScrollbackBody, Frame, MadeFor
      <3> QED
        BY <1>3, <2>1, <3>1, <3>2 DEF Made
    <2>3. CASE ~current_is_sb
      <3>1. MadeFor(k)
        BY <2>1, <2>3, VisibleMade
      <3>2. ~current_is_sb'
        BY <1>3, <2>3 DEF Retransmit, sb_vars
      <3> QED
        BY <2>1, <3>1, <3>2 DEF Made
    <2> QED
      BY <2>2, <2>3
  <1>4. CASE SendEmpty
    <2>1. s2c' = s2c \cup {EmptyBody(current.num, shutdown)} /\ UNCHANGED current_is_sb
      BY <1>4 DEF SendEmpty, sb_vars
    <2>2. MadeFor(EmptyBody(current.num, shutdown))
      BY DEF EmptyBody, Frame, MadeFor
    <2> QED
      BY <2>1, <2>2 DEF Made
  <1>5. CASE ~SendVisible /\ ~SendScrollback /\ ~Retransmit /\ ~SendEmpty
    <2>1. UNCHANGED current_is_sb
      BY <1>5, Zenon DEF Next, Shells, Server, Viewport, Network, ShellOutput, OverlayOutput,
         OverlayExit, ShellExit, ExitAttested, ExitExpired, ReceiveMessage, ReceiveFrame,
         SendMessage, UserRequest, UserQuit, GiveUp, LoseFrame, LoseMessage, sb_vars, vars
    <2>2. s2c' \subseteq s2c
      BY <1>5 DEF Next, Shells, Server, Viewport, Network, ShellOutput, OverlayOutput,
         OverlayExit, ShellExit, ExitAttested, ExitExpired, ReceiveMessage, ReceiveFrame,
         SendMessage, UserRequest, UserQuit, GiveUp, LoseFrame, LoseMessage, net_vars, vars
    <2> QED
      BY <2>1, <2>2 DEF Made
  <1> QED
    BY <1>1, <1>2, <1>3, <1>4, <1>5

LEMMA MadeAlways == Spec => []Made
  <1> QED
    BY MadeInit, MadeNext, PTL DEF Spec

-----------------------------------------------------------------------------
(* Without scrollback v1, a frame number names one screen, wherever it is   *)
(* held: what a delta is applied to is then what it was made from, checksum *)
(* or not.                                                                  *)

Visible(m) == m.kind \in {"full", "diff", "morph"}

\* Someone takes d for the screen of frame n.
Names(n, d) ==
    \/ \E f \in Slots : n = f.num /\ d = f.data
    \/ \E m \in s2c : Visible(m) /\ n = m.num /\ d = m.to
    \/ \E m \in s2c : m.kind \in {"diff", "morph"} /\ n = m.base /\ d = m.from
    \/ acked_data # NoBase /\ n = acked_num /\ d = acked_data
    \/ n = applied_num /\ d = server_term
    \/ ~Morph /\ n = applied_num /\ d = applied_data
    \/ \E i \in DOMAIN base_history : base_history[i] = <<n, d>>

ChainInv ==
    \A n, d, e : Names(n, d) => n <= current.num /\ (Names(n, e) => d = e)

LEMMA ChainInit == Init => ChainInv
  <1> SUFFICES ASSUME Init PROVE ChainInv
    OBVIOUS
  <1>1. \A n, d : Names(n, d) => n = 0 /\ d = Empty
    BY DEF Init, Names, Slots
  <1>2. current.num = 0
    BY DEF Init
  <1> QED
    BY <1>1, <1>2 DEF ChainInv

\* A step that gives no name a screen it did not have.
LEMMA ChainKept ==
    ASSUME ChainInv, UNCHANGED current, \A n, d : Names(n, d)' => Names(n, d)
    PROVE  ChainInv'
  <1>1. current'.num = current.num
    OBVIOUS
  <1> QED
    BY <1>1, Zenon DEF ChainInv

\* Names are frame numbers.
LEMMA NamedTypes ==
    ASSUME TypeOK, NEW n, NEW d, Names(n, d)
    PROVE  n \in Nat
  <1> USE BoundsAssumption DEF TypeOK
  <1>1. \A f \in Slots : f.num \in Nat
    BY SlotNumbers
  <1>2. \A m \in s2c : m.num \in Nat /\ m.base \in Nat
    BY DEF NetworkTypes, Bodies
  <1>3. acked_num \in Nat /\ applied_num \in Nat
    BY DEF ProducerTypes, ViewportTypes
  <1>4. \A i \in DOMAIN base_history : base_history[i][1] \in Nat
    <2> SUFFICES ASSUME NEW i \in DOMAIN base_history PROVE base_history[i][1] \in Nat
      OBVIOUS
    <2>1. base_history \in Seq((0 .. MaxFrame) \X Screens)
      BY DEF ViewportTypes
    <2>2. base_history[i] \in (0 .. MaxFrame) \X Screens
      BY <2>1, ElementOfSeq, LenProperties
    <2> QED
      BY <2>2
  <1>5. (\E i \in DOMAIN base_history : base_history[i] = <<n, d>>) => n \in Nat
    BY <1>4
  <1> QED
    BY <1>1, <1>2, <1>3, <1>5 DEF Names

\* A new frame is the first of its number.
LEMMA ChainSendVisible ==
    ASSUME TypeOK, ChainInv, SendVisible
    PROVE  ChainInv'
  <1> DEFINE f == [num |-> current.num + 1, data |-> Src, sb |-> VisibleRows]
  <1>1. Rotate(f) /\ f.num = current.num + 1
        /\ UNCHANGED <<acked_num, acked_data, applied_num, applied_data, server_term,
                       base_history>>
    BY DEF SendVisible, AdvanceVisible, client_vars, screen_vars
  <1>2. current' = f /\ \A g \in Slots' : g \in Slots \/ g = f
    BY <1>1 DEF Rotate, Slots
  <1>3. PICK k \in VisibleBodies(f, acked_num, acked_data, shutdown) : s2c' = s2c \cup {k}
    BY <1>2 DEF SendVisible
  <1>4. k.num = f.num /\ k.to = f.data
    BY <1>3, VisibleMade
  <1>5. k.kind \in {"diff", "morph"} =>
           acked_data # NoBase /\ k.base = acked_num /\ k.from = acked_data
    BY <1>3 DEF VisibleBodies, Frame
  <1>6. \A n, d : Names(n, d)' => Names(n, d) \/ (n = f.num /\ d = f.data)
    <2> HIDE DEF f
    <2> SUFFICES ASSUME NEW n, NEW d, Names(n, d)'
                 PROVE  Names(n, d) \/ (n = f.num /\ d = f.data)
      OBVIOUS
    <2>1. CASE \E g \in Slots' : n = g.num /\ d = g.data
      BY <1>2, <2>1 DEF Names
    <2>2. CASE \E m \in s2c' : Visible(m) /\ n = m.num /\ d = m.to
      BY <1>3, <1>4, <2>2 DEF Names
    <2>3. CASE \E m \in s2c' : m.kind \in {"diff", "morph"} /\ n = m.base /\ d = m.from
      BY <1>3, <1>5, <2>3 DEF Names
    <2>4. CASE \/ acked_data # NoBase /\ n = acked_num /\ d = acked_data
               \/ n = applied_num /\ d = server_term
               \/ ~Morph /\ n = applied_num /\ d = applied_data
               \/ \E i \in DOMAIN base_history : base_history[i] = <<n, d>>
      BY <2>4 DEF Names
    <2> QED
      BY <1>1, <2>1, <2>2, <2>3, <2>4 DEF Names
  <1>7. current.num \in Nat
    BY SlotNumbers
  <1>8. \A n, d : Names(n, d) => n \in Nat /\ n <= current.num
    <2> SUFFICES ASSUME NEW n, NEW d, Names(n, d) PROVE n \in Nat /\ n <= current.num
      OBVIOUS
    <2>1. n <= current.num
      BY DEF ChainInv
    <2>2. n \in Nat
      BY NamedTypes
    <2> QED
      BY <2>1, <2>2
  <1> HIDE DEF f
  <1>9. \A n, d : Names(n, d) => n <= current'.num /\ n # f.num
    BY <1>1, <1>2, <1>7, <1>8
  <1>10. \A n, d, e : Names(n, d) /\ Names(n, e) => d = e
    BY DEF ChainInv
  <1>11. f.num <= current'.num
    BY <1>1, <1>2, <1>7
  <1>12. ASSUME NEW n, NEW d, NEW e, Names(n, d)'
         PROVE  n <= current'.num /\ (Names(n, e)' => d = e)
    <2>1. CASE Names(n, d)
      <3>1. n <= current'.num /\ n # f.num
        BY <1>9, <2>1
      <3>2. Names(n, e)' => Names(n, e)
        BY <1>6, <3>1
      <3> QED
        BY <1>10, <2>1, <3>1, <3>2
    <2>2. CASE n = f.num /\ d = f.data
      <3>1. Names(n, e)' => e = f.data
        BY <1>6, <1>9, <2>2
      <3> QED
        BY <1>11, <2>2, <3>1
    <2> QED
      BY <1>6, <1>12, <2>1, <2>2
  <1> QED
    BY <1>12 DEF ChainInv

\* A frame and its number stay together in the slots, on the wire and on screen.
LEMMA ChainQuiet ==
    ASSUME ChainInv,
           UNCHANGED <<current, outstanding, acked_num, acked_data, applied_num,
                       applied_data, server_term, base_history>>,
           \A m \in s2c' : m \in s2c \/ m.kind = "empty"
    PROVE  ChainInv'
  <1>1. \A n, d : Names(n, d)' => Names(n, d)
    BY DEF Names, Slots, Visible
  <1> QED
    BY <1>1, ChainKept

LEMMA ChainRetransmit ==
    ASSUME ~Scrollback, Made, ChainInv, Retransmit
    PROVE  ChainInv'
  <1>1. ~current_is_sb
    BY DEF Made
  <1>2. PICK k \in VisibleBodies(current, acked_num, acked_data, shutdown) :
           s2c' = s2c \cup {k}
    BY <1>1 DEF Retransmit
  <1>3. k.num = current.num /\ k.to = current.data
    BY <1>2, VisibleMade
  <1>4. k.kind \in {"diff", "morph"} =>
           acked_data # NoBase /\ k.base = acked_num /\ k.from = acked_data
    BY <1>2 DEF VisibleBodies, Frame
  <1>5. UNCHANGED <<current, outstanding, acked_num, acked_data, applied_num, applied_data,
                    server_term, base_history>>
    BY DEF Retransmit, producer_vars, client_vars, screen_vars
  <1>6. \A n, d : Names(n, d)' => Names(n, d)
    <2> SUFFICES ASSUME NEW n, NEW d, Names(n, d)' PROVE Names(n, d)
      OBVIOUS
    <2>1. CASE \E m \in s2c' : Visible(m) /\ n = m.num /\ d = m.to
      BY <1>2, <1>3, <2>1 DEF Names, Slots
    <2>2. CASE \E m \in s2c' : m.kind \in {"diff", "morph"} /\ n = m.base /\ d = m.from
      BY <1>2, <1>4, <2>2 DEF Names
    <2> QED
      BY <1>5, <2>1, <2>2 DEF Names, Slots
  <1> QED
    BY <1>5, <1>6, ChainKept

\* An ack makes the base of a frame that is held.
LEMMA ChainReceiveMessage ==
    ASSUME ChainInv, NEW m \in c2s, ReceiveMessage(m)
    PROVE  ChainInv'
  <1>1. UNCHANGED <<current, applied_num, applied_data, server_term, base_history, s2c>>
    BY DEF ReceiveMessage, client_vars, screen_vars
  <1>2. Ack(m.ack, "resync" \in m.flags)
    BY DEF ReceiveMessage
  <1>3. outstanding' \subseteq outstanding
    BY <1>2 DEF Ack
  <1>4. \/ acked_data' = NoBase
        \/ acked_data' = acked_data /\ acked_num' = acked_num
        \/ \E f \in Slots : acked_num' = f.num /\ acked_data' = f.data
    <2>1. CASE m.ack <= acked_num \/ m.ack > current.num \/ Held(m.ack) = {}
      BY <1>2, <2>1 DEF Ack
    <2>2. CASE ~(m.ack <= acked_num \/ m.ack > current.num \/ Held(m.ack) = {})
      <3> DEFINE h == CHOOSE f \in Held(m.ack) : TRUE
      <3>1. h \in Held(m.ack)
        BY <2>2
      <3>2. acked_num' = m.ack /\ acked_data' \in {NoBase, h.data}
        BY <1>2, <2>2 DEF Ack
      <3> HIDE DEF h
      <3>3. h \in Slots /\ h.num = m.ack
        BY <3>1 DEF Held, Slots
      <3> QED
        BY <3>2, <3>3
    <2> QED
      BY <2>1, <2>2
  <1>5. \A n, d : Names(n, d)' => Names(n, d)
    <2> SUFFICES ASSUME NEW n, NEW d, Names(n, d)' PROVE Names(n, d)
      OBVIOUS
    <2>1. CASE (acked_data # NoBase /\ n = acked_num /\ d = acked_data)'
      BY <1>4, <2>1 DEF Names
    <2>2. CASE (\E f \in Slots : n = f.num /\ d = f.data)'
      BY <1>1, <1>3, <2>2 DEF Names, Slots
    <2> QED
      BY <1>1, <2>1, <2>2 DEF Names
  <1> QED
    BY <1>1, <1>5, ChainKept

\* What base_history comes to hold.
LEMMA RememberElements ==
    ASSUME NEW P, base_history \in Seq(P), NEW n, NEW d, <<n, d>> \in P,
           NEW i \in DOMAIN Remember(n, d)
    PROVE  \/ Remember(n, d)[i] = <<n, d>>
           \/ \E j \in DOMAIN base_history : base_history[j] = Remember(n, d)[i]
  <1> DEFINE all == Append(base_history, <<n, d>>)
  <1>1. /\ all \in Seq(P) /\ Len(all) = Len(base_history) + 1
        /\ all[Len(base_history) + 1] = <<n, d>>
        /\ \A j \in 1 .. Len(base_history) : all[j] = base_history[j]
    BY AppendProperties
  <1>2. Len(base_history) \in Nat /\ DOMAIN base_history = 1 .. Len(base_history)
        /\ DOMAIN all = 1 .. Len(base_history) + 1
    BY <1>1, LenProperties
  <1>3. \A j \in DOMAIN all : \/ all[j] = <<n, d>>
                              \/ \E k \in DOMAIN base_history : base_history[k] = all[j]
    <2> SUFFICES ASSUME NEW j \in DOMAIN all
                 PROVE  \/ all[j] = <<n, d>>
                        \/ \E k \in DOMAIN base_history : base_history[k] = all[j]
      OBVIOUS
    <2>1. j \in 1 .. Len(base_history) \/ j = Len(base_history) + 1
      BY <1>2
    <2> QED
      BY <1>1, <1>2, <2>1
  <1>4. CASE HistoryDepth = 0
    <2>1. Remember(n, d) = <<>>
      BY <1>4 DEF Remember
    <2> QED
      BY <2>1, NoneInEmpty
  <1>5. CASE HistoryDepth # 0 /\ Len(all) > HistoryDepth
    <2>1. Remember(n, d) = Tail(all)
      BY <1>5 DEF Remember
    <2> HIDE DEF all
    <2>2. all # <<>>
      <3>1. Len(all) # 0
        BY <1>1, <1>2
      <3> QED
        BY <3>1, EmptySeq
    <2>3. /\ Tail(all) \in Seq(P) /\ Len(Tail(all)) = Len(all) - 1
          /\ \A k \in 1 .. Len(Tail(all)) : Tail(all)[k] = all[k + 1]
      BY <1>1, <2>2, HeadTailProperties
    <2>4. i \in 1 .. Len(Tail(all))
      BY <2>1, <2>3, LenProperties
    <2>5. i + 1 \in DOMAIN all /\ Remember(n, d)[i] = all[i + 1]
      BY <1>1, <1>2, <2>1, <2>3, <2>4
    <2> QED
      BY <1>3, <2>5
  <1>6. CASE HistoryDepth # 0 /\ ~(Len(all) > HistoryDepth)
    <2>1. Remember(n, d) = all
      BY <1>6 DEF Remember
    <2> HIDE DEF all
    <2> QED
      BY <1>3, <2>1
  <1> QED
    BY <1>4, <1>5, <1>6

\* A frame at the viewport is shown whole, or leaves the screen alone.
Shown(m) ==
    \/ UNCHANGED <<applied_num, server_term>>
    \/ /\ m.kind = "scrollback" /\ m.num > applied_num
       /\ applied_num' = m.num /\ UNCHANGED server_term
    \/ /\ Visible(m) /\ m.num > applied_num
       /\ applied_num' = m.num /\ server_term' = m.to

\* Where a number names one screen, the base found by number is the right one.
LEMMA BaseNamed ==
    ASSUME ~Scrollback, TypeOK, ChainInv, Made, NEW m \in s2c,
           m.kind = "diff", BaseFor(m) # NoBase
    PROVE  BaseFor(m) = m.from
  <1>1. ~Morph
    BY DEF Made, MadeFor
  <1>2. Names(m.base, m.from)
    BY DEF Names
  <1>3. Names(m.base, BaseFor(m))
    <2>1. CASE m.base = applied_num
      BY <1>1, <2>1 DEF BaseFor, Names
    <2>2. CASE m.base # applied_num
      <3> DEFINE i == CHOOSE i \in Remembered(m.base) : TRUE
      <3>1. Remembered(m.base) # {} /\ BaseFor(m) = base_history[i][2]
        BY <2>2 DEF BaseFor
      <3>2. i \in Remembered(m.base)
        BY <3>1
      <3> HIDE DEF i
      <3>3. i \in DOMAIN base_history /\ base_history[i][1] = m.base
        BY <3>2 DEF Remembered
      <3>4. base_history[i] \in (0 .. MaxFrame) \X Screens
        <4>1. base_history \in Seq((0 .. MaxFrame) \X Screens)
          BY DEF TypeOK, ViewportTypes
        <4> QED
          BY <3>3, <4>1, ElementOfSeq, LenProperties
      <3>5. base_history[i] = <<m.base, BaseFor(m)>>
        BY <3>1, <3>3, <3>4
      <3> QED
        BY <3>3, <3>5 DEF Names
    <2> QED
      BY <2>1, <2>2
  <1> QED
    BY <1>2, <1>3 DEF ChainInv

LEMMA MorphNamed ==
    ASSUME ChainInv, NEW m \in s2c, ApplyMorph(m)
    PROVE  server_term = m.from
  <1>1. Names(m.base, m.from) /\ Names(m.base, server_term)
    BY DEF Names, ApplyMorph
  <1> QED
    BY <1>1 DEF ChainInv

LEMMA ShownChained ==
    ASSUME ~Scrollback, TypeOK, ChainInv, Made, NEW m \in s2c, ReceiveFrame(m)
    PROVE  Shown(m)
  <1>1. CASE Ignore(m) \/ RejectDelta(m)
    BY <1>1 DEF Ignore, RejectDelta, screen_vars, Shown
  <1>2. CASE AppendRows(m)
    BY <1>2 DEF AppendRows, Made, MadeFor
  <1>3. CASE ApplyFull(m)
    BY <1>3 DEF ApplyFull, Install, Shown, Visible
  <1>4. CASE ApplyDiff(m)
    <2>1. BaseFor(m) = m.from
      BY <1>4, BaseNamed DEF ApplyDiff
    <2>2. Install(m, m.to) /\ m.kind = "diff" /\ m.num > applied_num
      BY <1>4, <2>1 DEF ApplyDiff
    <2> QED
      BY <2>2 DEF Install, Shown, Visible
  <1>5. CASE ApplyMorph(m)
    <2>1. server_term = m.from
      BY <1>5, MorphNamed
    <2> QED
      BY <1>5, <2>1 DEF ApplyMorph, Shown, Visible
  <1> QED
    BY <1>1, <1>2, <1>3, <1>4, <1>5 DEF ReceiveFrame

LEMMA ChainReceiveFrame ==
    ASSUME ~Scrollback, TypeOK, ChainInv, Made, NEW m \in s2c, ReceiveFrame(m)
    PROVE  ChainInv'
  <1>1. UNCHANGED <<current, outstanding, acked_num, acked_data>> /\ s2c' \subseteq s2c
    BY DEF ReceiveFrame, producer_vars
  <1>2. CASE UNCHANGED <<applied_num, applied_data, server_term, base_history>>
    BY <1>1, <1>2, ChainQuiet
  <1>3. CASE Install(m, m.to) /\ Visible(m)
    <2>1. /\ applied_num' = m.num /\ applied_data' = m.to /\ server_term' = m.to
          /\ base_history' = Remember(m.num, m.to)
      BY <1>3 DEF Install
    <2>2. Names(m.num, m.to)
      BY <1>3 DEF Names
    <2>3. \A i \in DOMAIN base_history' :
             \/ base_history'[i] = <<m.num, m.to>>
             \/ \E j \in DOMAIN base_history : base_history[j] = base_history'[i]
      <3>1. m \in Bodies /\ base_history \in Seq((0 .. MaxFrame) \X Screens)
        BY DEF TypeOK, NetworkTypes, ViewportTypes
      <3>2. <<m.num, m.to>> \in (0 .. MaxFrame) \X Screens
        BY <3>1 DEF Bodies, Screens
      <3> QED
        BY <2>1, <3>1, <3>2, RememberElements
    <2>4. \A n, d : Names(n, d)' => Names(n, d)
      <3> SUFFICES ASSUME NEW n, NEW d, Names(n, d)' PROVE Names(n, d)
        OBVIOUS
      <3>1. CASE \E i \in DOMAIN base_history' : base_history'[i] = <<n, d>>
        <4>1. \/ n = m.num /\ d = m.to
              \/ \E j \in DOMAIN base_history : base_history[j] = <<n, d>>
          BY <2>3, <3>1
        <4> QED
          BY <2>2, <4>1 DEF Names
      <3>2. CASE \/ n = applied_num' /\ d = server_term'
                 \/ ~Morph /\ n = applied_num' /\ d = applied_data'
        BY <2>1, <2>2, <3>2
      <3> QED
        BY <1>1, <3>1, <3>2 DEF Names, Slots
    <2> QED
      BY <1>1, <2>4, ChainKept
  <1>4. CASE ApplyMorph(m)
    <2>1. server_term = m.from /\ Morph
      BY <1>4, MorphNamed DEF ApplyMorph, Made, MadeFor
    <2>2. applied_num' = m.num /\ server_term' = m.to /\ UNCHANGED base_history /\ Visible(m)
      BY <1>4, <2>1 DEF ApplyMorph, Visible
    <2>3. \A n, d : Names(n, d)' => Names(n, d)
      BY <1>1, <2>1, <2>2 DEF Names, Slots
    <2> QED
      BY <1>1, <2>3, ChainKept
  <1>5. CASE ApplyFull(m)
    BY <1>3, <1>5 DEF ApplyFull, Visible
  <1>6. CASE ApplyDiff(m)
    <2>1. BaseFor(m) = m.from
      BY <1>6, BaseNamed DEF ApplyDiff
    <2>2. Install(m, m.to) /\ m.kind = "diff"
      BY <1>6, <2>1 DEF ApplyDiff
    <2> QED
      BY <1>3, <2>2 DEF Visible
  <1>7. CASE Ignore(m) \/ RejectDelta(m)
    BY <1>2, <1>7 DEF Ignore, RejectDelta, screen_vars
  <1>8. ~AppendRows(m)
    BY DEF AppendRows, Made, MadeFor
  <1> QED
    BY <1>4, <1>5, <1>6, <1>7, <1>8 DEF ReceiveFrame

LEMMA ChainNext ==
    ASSUME ~Scrollback, TypeOK, Made, ChainInv, [Next]_vars
    PROVE  ChainInv'
  <1>1. CASE SendVisible \/ Retransmit
    BY <1>1, ChainSendVisible, ChainRetransmit
  <1>2. CASE SendScrollback
    BY <1>2 DEF SendScrollback, MakeScrollback, WantScrollback
  <1>3. CASE \E m \in c2s : ReceiveMessage(m)
    BY <1>3, ChainReceiveMessage
  <1>4. CASE \E m \in s2c : ReceiveFrame(m)
    BY <1>4, ChainReceiveFrame
  <1>5. CASE ~SendVisible /\ ~Retransmit /\ ~SendScrollback
             /\ ~(\E m \in c2s : ReceiveMessage(m)) /\ ~(\E m \in s2c : ReceiveFrame(m))
    <2>1. UNCHANGED <<current, outstanding, acked_num, acked_data, applied_num, applied_data,
                      server_term, base_history>>
      BY <1>5, Zenon DEF Next, Shells, Server, Viewport, Network, ShellOutput, OverlayOutput,
         OverlayExit, ShellExit, SendEmpty, ExitAttested, ExitExpired, SendMessage, UserRequest,
         UserQuit, GiveUp, LoseFrame, LoseMessage, producer_vars, client_vars, screen_vars, vars
    <2>2. \A m \in s2c' : m \in s2c \/ m.kind = "empty"
      BY <1>5 DEF Next, Shells, Server, Viewport, Network, ShellOutput, OverlayOutput,
         OverlayExit, ShellExit, SendEmpty, ExitAttested, ExitExpired, SendMessage, UserRequest,
         UserQuit, GiveUp, LoseFrame, LoseMessage, net_vars, vars, EmptyBody, Frame
    <2> QED
      BY <2>1, <2>2, ChainQuiet
  <1> QED
    BY <1>1, <1>2, <1>3, <1>4, <1>5

LEMMA ChainAlways ==
    ASSUME ~Scrollback
    PROVE  Spec => []ChainInv
  <1>1. TypeOK /\ Made /\ ChainInv /\ [Next]_vars => ChainInv'
    BY ChainNext
  <1> QED
    BY <1>1, ChainInit, MadeAlways, TypeCorrect, PTL DEF Spec

\* BaseAgrees, one of the two halves of ServerKnows.
LEMMA BaseFollows == ChainInv => BaseAgrees
  <1> SUFFICES ASSUME ChainInv, acked_num = applied_num, acked_data # NoBase
               PROVE  acked_data = IF Morph THEN server_term ELSE applied_data
    BY DEF BaseAgrees
  <1>1. Names(applied_num, acked_data) /\ Names(applied_num, server_term)
        /\ (~Morph => Names(applied_num, applied_data))
    BY DEF Names
  <1> QED
    BY <1>1 DEF ChainInv

-----------------------------------------------------------------------------
(* The viewport is a mirror of the source when diffs carry base checksums   *)
(* and the peer does not take morphs, and where a number names one screen.  *)

Shared == Made /\ (~Scrollback => ChainInv)

LEMMA SharedAlways == Spec => []Shared
  <1>1. CASE Scrollback
    <2>1. Made => Shared
      BY <1>1 DEF Shared
    <2> QED
      BY <2>1, MadeAlways, PTL
  <1>2. CASE ~Scrollback
    <2>1. Made /\ ChainInv => Shared
      BY DEF Shared
    <2>2. Spec => []ChainInv
      BY <1>2, ChainAlways
    <2> QED
      BY <2>1, <2>2, MadeAlways, PTL
  <1> QED
    BY <1>1, <1>2

\* The capabilities a viewport is safe with: today's client by default, or
\* any client that takes no v1 scrollback frames.
Safe == (BaseSum /\ ~Morph) \/ ~Scrollback

LEMMA ShownChecked ==
    ASSUME BaseSum, ~Morph, Made, NEW m \in s2c, ReceiveFrame(m)
    PROVE  Shown(m)
  <1>1. CASE Ignore(m) \/ RejectDelta(m)
    BY <1>1 DEF Ignore, RejectDelta, screen_vars, Shown
  <1>2. CASE AppendRows(m)
    BY <1>2 DEF AppendRows, Shown
  <1>3. CASE ApplyFull(m)
    BY <1>3 DEF ApplyFull, Install, Shown, Visible
  <1>4. CASE ApplyDiff(m)
    BY <1>4 DEF ApplyDiff, Install, Shown, Visible
  <1>5. CASE ApplyMorph(m)
    BY <1>5 DEF ApplyMorph, Made, MadeFor
  <1> QED
    BY <1>1, <1>2, <1>3, <1>4, <1>5 DEF ReceiveFrame

LEMMA ShownWhole ==
    ASSUME Safe, TypeOK, Shared, NEW m \in s2c, ReceiveFrame(m)
    PROVE  Shown(m)
  <1>1. CASE BaseSum /\ ~Morph
    BY <1>1, ShownChecked DEF Shared
  <1>2. CASE ~Scrollback
    BY <1>2, ShownChained DEF Shared
  <1> QED
    BY <1>1, <1>2 DEF Safe

NotOlder(a, b) == Mirror!NotOlder(a, b)

\* What is on screen is a real screen, of a frame that was sent.
OnScreen ==
    /\ server_term \in Real
    /\ NotOlder(Src, server_term)
    /\ applied_num <= current.num

\* Frames in flight are numbered in the order of the screens they rebuild.
InFlight ==
    \A m \in s2c :
        /\ m.num <= current.num
        /\ Visible(m) =>
              /\ NotOlder(Src, m.to)
              /\ m.num > applied_num => NotOlder(m.to, server_term)
              /\ \A k \in s2c : Visible(k) /\ k.num <= m.num => NotOlder(m.to, k.to)

\* The newest frame, as long as it may be sent again.
Newest ==
    ~current_is_sb =>
        /\ NotOlder(Src, current.data)
        /\ applied_num < current.num => NotOlder(current.data, server_term)
        /\ \A m \in s2c : Visible(m) =>
              /\ NotOlder(current.data, m.to)
              /\ m.num = current.num => m.to = current.data

MirrorInv == OnScreen /\ InFlight /\ Newest

LEMMA Reflexive == ASSUME NEW a \in Real PROVE NotOlder(a, a)
  BY BoundsAssumption DEF NotOlder, Mirror!NotOlder, Real

LEMMA Transitive ==
    ASSUME NEW a \in Real, NEW b \in Real, NEW c \in Real,
           NotOlder(a, b), NotOlder(b, c)
    PROVE  NotOlder(a, c)
  BY BoundsAssumption DEF NotOlder, Mirror!NotOlder, Real

LEMMA SourceReal == TypeOK => Src \in Real
  BY DEF TypeOK, LoopTypes, Src, Real

\* Output and a change of source only move the broadcast forward.
LEMMA SourceAdvances == TypeOK /\ [Next]_vars => NotOlder(Src', Src)
  <1> SUFFICES ASSUME TypeOK, [Next]_vars PROVE NotOlder(Src', Src)
    OBVIOUS
  <1> USE BoundsAssumption DEF NotOlder, Mirror!NotOlder, Src, Overlay
  <1>0. gen \in 1 .. MaxGen /\ ogen \in 1 .. MaxGen /\ epoch \in 0 .. MaxEpoch
    BY DEF TypeOK, LoopTypes
  <1>1. ASSUME \/ epoch' = epoch + 1
               \/ epoch' = epoch /\ gen' >= gen /\ ogen' >= ogen
        PROVE  NotOlder(Src', Src)
    BY <1>0, <1>1
  <1>2. CASE Shells
    <2>1. \/ epoch' = epoch + 1
          \/ epoch' = epoch /\ gen' \in {gen, gen + 1} /\ ogen' \in {ogen, ogen + 1}
      BY <1>2, SMT DEF Shells, ShellOutput, OverlayOutput, OverlayExit, ShellExit
    <2> QED
      BY <1>0, <1>1, <2>1
  <1>3. CASE \E m \in c2s : ReceiveMessage(m)
    <2>1. epoch' = epoch + 1 \/ (epoch' = epoch /\ gen' = gen /\ ogen' = ogen)
      BY <1>3 DEF ReceiveMessage
    <2> QED
      BY <1>0, <1>1, <2>1
  <1>4. CASE Next /\ ~Shells /\ ~(\E m \in c2s : ReceiveMessage(m))
    <2>1. UNCHANGED term_vars
      BY <1>4, Zenon DEF Next, Server, Viewport, Network, SendVisible, SendScrollback,
         Retransmit, SendEmpty, ExitAttested, ExitExpired, ReceiveFrame, SendMessage,
         UserRequest, UserQuit, GiveUp, LoseFrame, LoseMessage
    <2> QED
      BY <1>0, <1>1, <2>1 DEF term_vars
  <1>5. CASE UNCHANGED vars
    BY <1>0, <1>1, <1>5 DEF vars, term_vars
  <1> QED
    BY <1>2, <1>3, <1>4, <1>5

LEMMA MirrorInit == Init => MirrorInv
  <1> SUFFICES ASSUME Init PROVE MirrorInv
    OBVIOUS
  <1>1. Src = <<0, 1>>
    BY DEF Init, Src, Overlay
  <1> QED
    BY <1>1, BoundsAssumption DEF Init, MirrorInv, OnScreen, InFlight, Newest, NotOlder,
       Mirror!NotOlder, Empty, Real

\* A step that makes no frame and shows none.
LEMMA MirrorKept ==
    ASSUME TypeOK, TypeOK', MirrorInv, NotOlder(Src', Src), s2c' \subseteq s2c,
           UNCHANGED <<current, current_is_sb, applied_num, server_term>>
    PROVE  MirrorInv'
  <1>1. Src \in Real /\ Src' \in Real
    BY DEF TypeOK, LoopTypes, Src, Real
  <1>2. \A a \in Real : NotOlder(Src, a) => NotOlder(Src', a)
    BY <1>1, Transitive
  <1>3. \A m \in s2c : m.to \in Real
    BY DEF TypeOK, NetworkTypes, Bodies
  <1>4. current.data \in Real
    BY DEF TypeOK, ProducerTypes, Frames
  <1>5. OnScreen'
    BY <1>2 DEF MirrorInv, OnScreen
  <1>6. InFlight'
    BY <1>2, <1>3 DEF MirrorInv, InFlight, Visible, NotOlder, Mirror!NotOlder
  <1>7. Newest'
    BY <1>2, <1>4 DEF MirrorInv, Newest, Visible, NotOlder, Mirror!NotOlder
  <1> QED
    BY <1>5, <1>6, <1>7 DEF MirrorInv

LEMMA MirrorSendVisible ==
    ASSUME TypeOK, TypeOK', MirrorInv, SendVisible
    PROVE  MirrorInv'
  <1>1. UNCHANGED <<applied_num, server_term, Src>>
    BY DEF SendVisible, client_vars, screen_vars, term_vars, Src, Overlay
  <1>2. current'.num = current.num + 1 /\ current'.data = Src /\ current_is_sb' = FALSE
    BY DEF SendVisible, AdvanceVisible, Rotate
  <1>3. current.num \in Nat /\ applied_num \in Nat /\ \A k \in s2c : k.num \in Nat
    BY BoundsAssumption DEF TypeOK, ProducerTypes, ViewportTypes, NetworkTypes, Frames, Bodies
  <1>4. PICK m \in VisibleBodies(current', acked_num, acked_data, shutdown) :
           s2c' = s2c \cup {m}
    BY DEF SendVisible
  <1>5. m.num = current'.num /\ m.to = Src
    BY <1>2, <1>4, VisibleMade
  <1>6. Src \in Real /\ NotOlder(Src, Src)
    BY SourceReal, Reflexive
  <1>7. OnScreen'
    BY <1>1, <1>2, <1>3 DEF MirrorInv, OnScreen, NotOlder, Mirror!NotOlder
  <1>8. InFlight'
    BY <1>1, <1>2, <1>3, <1>4, <1>5, <1>6
    DEF MirrorInv, OnScreen, InFlight, Visible, NotOlder, Mirror!NotOlder
  <1>9. Newest'
    BY <1>1, <1>2, <1>3, <1>4, <1>5, <1>6
    DEF MirrorInv, OnScreen, InFlight, Newest, Visible, NotOlder, Mirror!NotOlder
  <1> QED
    BY <1>7, <1>8, <1>9 DEF MirrorInv

\* A body that carries no screen joins those in flight.
LEMMA MirrorBlank ==
    ASSUME TypeOK, MirrorInv, NEW m, m.num <= current'.num, m.kind \in {"empty", "scrollback"},
           s2c' = s2c \cup {m}, current'.num \in Nat, current'.num >= current.num,
           (current' = current /\ UNCHANGED current_is_sb) \/ current_is_sb',
           UNCHANGED <<applied_num, server_term, Src>>
    PROVE  MirrorInv'
  <1>1. current.num \in Nat /\ applied_num \in Nat /\ \A k \in s2c : k.num \in Nat
    BY BoundsAssumption DEF TypeOK, ProducerTypes, ViewportTypes, NetworkTypes, Frames, Bodies
  <1>2. OnScreen'
    BY <1>1 DEF MirrorInv, OnScreen, NotOlder, Mirror!NotOlder
  <1>3. InFlight'
    BY <1>1 DEF MirrorInv, InFlight, Visible, NotOlder, Mirror!NotOlder
  <1>4. Newest'
    BY <1>1 DEF MirrorInv, Newest, Visible, NotOlder, Mirror!NotOlder
  <1> QED
    BY <1>2, <1>3, <1>4 DEF MirrorInv

\* A retransmission rebuilds the screen of the newest frame.
LEMMA MirrorRetransmit ==
    ASSUME TypeOK, MirrorInv, Retransmit
    PROVE  MirrorInv'
  <1>1. UNCHANGED <<applied_num, server_term, current, current_is_sb, Src>>
    BY DEF Retransmit, client_vars, screen_vars, term_vars, producer_vars, sb_vars, Src, Overlay
  <1>2. current.num \in Nat /\ applied_num \in Nat /\ current.data \in Real
        /\ \A k \in s2c : k.num \in Nat
    BY BoundsAssumption DEF TypeOK, ProducerTypes, ViewportTypes, NetworkTypes, Frames, Bodies
  <1>3. CASE current_is_sb
    <2> DEFINE m == ScrollbackBody(current, shutdown)
    <2>1. m.num = current.num /\ m.kind = "scrollback"
      BY DEF ScrollbackBody, Frame
    <2>2. s2c' = s2c \cup {m}
      BY <1>3 DEF Retransmit
    <2> HIDE DEF m
    <2> QED
      BY <1>1, <1>2, <2>1, <2>2, MirrorBlank
  <1>4. CASE ~current_is_sb
    <2>1. PICK m \in VisibleBodies(current, acked_num, acked_data, shutdown) :
             s2c' = s2c \cup {m}
      BY <1>4 DEF Retransmit
    <2>2. m.num = current.num /\ m.to = current.data
      BY <2>1, VisibleMade
    <2>3. NotOlder(current.data, current.data)
      BY <1>2, Reflexive
    <2>4. OnScreen' /\ InFlight'
      BY <1>1, <1>2, <1>4, <2>1, <2>2, <2>3
      DEF MirrorInv, OnScreen, InFlight, Newest, Visible, NotOlder, Mirror!NotOlder
    <2>5. Newest'
      BY <1>1, <1>2, <1>4, <2>1, <2>2, <2>3
      DEF MirrorInv, Newest, Visible, NotOlder, Mirror!NotOlder
    <2> QED
      BY <2>4, <2>5 DEF MirrorInv
  <1> QED
    BY <1>3, <1>4

\* What a frame at the viewport shows is between what it showed and the source.
LEMMA MirrorReceiveFrame ==
    ASSUME TypeOK, MirrorInv, NEW m \in s2c, ReceiveFrame(m), Shown(m)
    PROVE  /\ MirrorInv' /\ UNCHANGED Src
           /\ NotOlder(server_term', server_term) /\ NotOlder(Src, server_term')
  <1>1. /\ UNCHANGED <<Src, current, current_is_sb>>
        /\ s2c' \subseteq s2c
    BY DEF ReceiveFrame, term_vars, sb_vars, producer_vars, Src, Overlay
  <1>2. current.num \in Nat /\ applied_num \in Nat /\ current.data \in Real
        /\ \A k \in s2c : k.num \in Nat /\ k.to \in Real
    BY BoundsAssumption DEF TypeOK, ProducerTypes, ViewportTypes, NetworkTypes, Frames, Bodies
  <1>3. CASE UNCHANGED server_term
             /\ (applied_num' = applied_num \/ (applied_num' = m.num /\ m.num > applied_num))
    <2>1. OnScreen' /\ InFlight' /\ Newest'
      BY <1>1, <1>2, <1>3
      DEF MirrorInv, OnScreen, InFlight, Newest, Visible, NotOlder, Mirror!NotOlder
    <2>2. NotOlder(server_term, server_term)
      BY Reflexive DEF MirrorInv, OnScreen
    <2> QED
      BY <1>1, <1>3, <2>1, <2>2 DEF MirrorInv, OnScreen
  <1>4. CASE Visible(m) /\ m.num > applied_num /\ applied_num' = m.num
             /\ server_term' = m.to
    <2>1. NotOlder(m.to, server_term) /\ NotOlder(Src, m.to) /\ m.num <= current.num
      BY <1>4 DEF MirrorInv, InFlight
    <2>2. OnScreen'
      BY <1>1, <1>2, <1>4, <2>1 DEF OnScreen, NotOlder, Mirror!NotOlder
    <2>3. InFlight'
      BY <1>1, <1>2, <1>4, <2>1 DEF MirrorInv, InFlight, Visible, NotOlder, Mirror!NotOlder
    <2>4. Newest'
      BY <1>1, <1>2, <1>4, <2>1 DEF MirrorInv, Newest, Visible, NotOlder, Mirror!NotOlder
    <2> QED
      BY <1>1, <1>4, <2>1, <2>2, <2>3, <2>4 DEF MirrorInv
  <1> QED
    BY <1>3, <1>4 DEF Shown

LEMMA MirrorNext ==
    ASSUME Safe, TypeOK, TypeOK', Shared, MirrorInv, [Next]_vars
    PROVE  MirrorInv' /\ [Mirror!Next]_<<Src, server_term>>
  <1>1. NotOlder(Src', Src)
    BY SourceAdvances
  <1>2. CASE \E m \in s2c : ReceiveFrame(m)
    <2>1. PICK m \in s2c : ReceiveFrame(m)
      BY <1>2
    <2>2. Shown(m)
      BY <2>1, ShownWhole
    <2>3. MirrorInv' /\ NotOlder(server_term', server_term) /\ NotOlder(Src, server_term')
          /\ UNCHANGED Src
      BY <2>1, <2>2, MirrorReceiveFrame
    <2> QED
      BY <2>3 DEF Mirror!Next, Mirror!Show, NotOlder, Mirror!NotOlder
  <1>3. CASE ~(\E m \in s2c : ReceiveFrame(m))
    <2>1. UNCHANGED server_term
      BY <1>3, Zenon DEF Next, Shells, Server, Viewport, Network, ShellOutput, OverlayOutput,
         OverlayExit, ShellExit, SendVisible, SendScrollback, Retransmit, SendEmpty,
         ExitAttested, ExitExpired, ReceiveMessage, SendMessage, UserRequest, UserQuit, GiveUp,
         LoseFrame, LoseMessage, client_vars, screen_vars, vars
    <2>2. [Mirror!Next]_<<Src, server_term>>
      BY <1>1, <2>1 DEF Mirror!Next, Mirror!Change, NotOlder, Mirror!NotOlder
    <2>3. CASE SendVisible
      BY <2>2, <2>3, MirrorSendVisible
    <2>4. CASE Retransmit
      BY <2>2, <2>4, MirrorRetransmit
    <2>5. CASE SendScrollback
      <3> DEFINE m == ScrollbackBody(current', shutdown)
      <3>1. /\ UNCHANGED <<applied_num, server_term, Src>>
            /\ current_is_sb' /\ s2c' = s2c \cup {m} /\ current'.num = current.num + 1
        BY <2>5 DEF SendScrollback, AdvanceScrollback, Rotate, client_vars, screen_vars,
           term_vars, Src, Overlay
      <3>2. m.num = current'.num /\ m.kind = "scrollback"
        BY DEF ScrollbackBody, Frame
      <3>3. current.num \in Nat
        BY BoundsAssumption DEF TypeOK, ProducerTypes, Frames
      <3> HIDE DEF m
      <3> QED
        BY <2>2, <3>1, <3>2, <3>3, MirrorBlank
    <2>6. CASE SendEmpty
      <3> DEFINE m == EmptyBody(current.num, shutdown)
      <3>1. /\ UNCHANGED <<applied_num, server_term, current, current_is_sb, Src>>
            /\ s2c' = s2c \cup {m}
        BY <2>6 DEF SendEmpty, client_vars, screen_vars, term_vars, producer_vars, sb_vars, Src,
           Overlay
      <3>2. m.num = current.num /\ m.kind = "empty"
        BY DEF EmptyBody, Frame
      <3>3. current.num \in Nat
        BY BoundsAssumption DEF TypeOK, ProducerTypes, Frames
      <3> HIDE DEF m
      <3> QED
        BY <2>2, <3>1, <3>2, <3>3, MirrorBlank
    <2>7. CASE ~SendVisible /\ ~Retransmit /\ ~SendScrollback /\ ~SendEmpty
      <3>1. UNCHANGED <<current, current_is_sb, applied_num, server_term>>
        BY <1>3, <2>7, Zenon DEF Next, Shells, Server, Viewport, Network, ShellOutput,
           OverlayOutput, OverlayExit, ShellExit, ExitAttested, ExitExpired, ReceiveMessage,
           SendMessage, UserRequest, UserQuit, GiveUp, LoseFrame, LoseMessage, client_vars,
           screen_vars, producer_vars, sb_vars, vars
      <3>2. s2c' \subseteq s2c
        BY <1>3, <2>7 DEF Next, Shells, Server, Viewport, Network, ShellOutput,
           OverlayOutput, OverlayExit, ShellExit, ExitAttested, ExitExpired, ReceiveMessage,
           SendMessage, UserRequest, UserQuit, GiveUp, LoseFrame, LoseMessage, net_vars, vars
      <3> QED
        BY <1>1, <2>2, <3>1, <3>2, MirrorKept
    <2> QED
      BY <2>2, <2>3, <2>4, <2>5, <2>6, <2>7
  <1> QED
    BY <1>2, <1>3

LEMMA MirrorAlways ==
    ASSUME Safe
    PROVE  Spec => []MirrorInv
  <1>1. TypeOK /\ TypeOK' /\ Shared /\ MirrorInv /\ [Next]_vars => MirrorInv'
    BY MirrorNext
  <1> QED
    BY <1>1, MirrorInit, SharedAlways, TypeCorrect, PTL DEF Spec

(* With base checksums (CAP_BASE_SUM) and without CAP_MORPH, as today's     *)
(* client is by default, and with any client that takes no v1 scrollback    *)
(* frames, morphs and no checksums included, apply_frame makes the viewport *)
(* a mirror: it shows only screens the server had and never an older one    *)
(* after a newer one, whatever datagrams are lost or reordered and whatever *)
(* base the server diffs against.                                           *)
THEOREM MirrorCorrect ==
    ASSUME (BaseSum /\ ~Morph) \/ ~Scrollback
    PROVE  Spec => MirrorSpec
  <1>1. Safe
    BY DEF Safe
  <1>2. Init => Mirror!Init
    BY DEF Init, Mirror!Init, Src, Overlay, Empty
  <1>3. TypeOK /\ TypeOK' /\ Shared /\ MirrorInv /\ [Next]_vars
            => [Mirror!Next]_<<Src, server_term>>
    BY <1>1, MirrorNext
  <1>4. Spec => []MirrorInv
    BY <1>1, MirrorAlways
  <1> QED
    BY <1>2, <1>3, <1>4, SharedAlways, TypeCorrect, PTL DEF Spec, MirrorSpec, Mirror!Spec

-----------------------------------------------------------------------------
(* The final handshake: the server leaves with the viewport on the last     *)
(* screen.                                                                  *)

\* What is confirmed was applied; and the newest frame, applied, is on screen.
Confirmed ==
    /\ acked_num <= applied_num
    /\ \A m \in c2s : m.ack <= applied_num
    /\ ~current_is_sb =>
          /\ \A m \in s2c : m.num = current.num => m.kind # "scrollback"
          /\ applied_num = current.num => server_term = current.data

\* Once the frame the shutdown owes was made, it is the newest there is, and
\* every body of it says goodbye.
Final ==
    shutdown /\ ~force_frame =>
        /\ current.num > 0 /\ ~current_is_sb
        /\ current.data = <<epoch, last_gen>>
        /\ \A m \in s2c : m.num = current.num => m.bye
        /\ applied_num = current.num => shutdown_seen

Left ==
    exited = "attested" =>
        /\ shutdown /\ ~force_frame /\ acked_num = current.num
        /\ ~Overlay => last_gen = gen

ExitInv == Confirmed /\ Final /\ Left

LEMMA ExitInit == Init => ExitInv
  BY DEF Init, ExitInv, Confirmed, Final, Left

LEMMA ConfirmedNumbers ==
    ASSUME TypeOK
    PROVE  /\ acked_num \in Nat /\ applied_num \in Nat /\ current.num \in Nat
           /\ \A m \in c2s : m.ack \in Nat
           /\ \A m \in s2c : m.num \in Nat
  <1>1. acked_num \in Nat
    BY BoundsAssumption DEF TypeOK, ProducerTypes
  <1> QED
    BY <1>1, SlotNumbers

\* A step that makes no frame, applies none and confirms none.
LEMMA ConfirmedKept ==
    ASSUME Confirmed,
           UNCHANGED <<current, current_is_sb, acked_num, applied_num, server_term>>,
           \A m \in c2s' : m \in c2s \/ m.ack = applied_num,
           \A m \in s2c' : m \in s2c \/ current_is_sb \/ m.kind # "scrollback",
           applied_num \in Nat
    PROVE  Confirmed'
  BY DEF Confirmed

LEMMA ConfirmedReceiveMessage ==
    ASSUME TypeOK, Confirmed, NEW m \in c2s, ReceiveMessage(m)
    PROVE  Confirmed'
  <1>1. UNCHANGED <<current, current_is_sb, applied_num, server_term, s2c>> /\ c2s' \subseteq c2s
    BY DEF ReceiveMessage, client_vars, screen_vars
  <1>2. acked_num' \in {acked_num, m.ack}
    BY DEF ReceiveMessage, Ack
  <1> QED
    BY <1>1, <1>2 DEF Confirmed

LEMMA ConfirmedReceiveFrame ==
    ASSUME TypeOK, MirrorInv, Confirmed, NEW m \in s2c, ReceiveFrame(m), Shown(m)
    PROVE  Confirmed'
  <1>1. UNCHANGED <<current, current_is_sb, acked_num, c2s>> /\ s2c' \subseteq s2c
    BY DEF ReceiveFrame, producer_vars, sb_vars
  <1>2. applied_num' \in Nat /\ applied_num <= applied_num'
    BY ConfirmedNumbers DEF Shown
  <1>3. acked_num <= applied_num' /\ \A k \in c2s : k.ack <= applied_num'
    BY <1>2, ConfirmedNumbers DEF Confirmed
  <1>4. ~current_is_sb /\ applied_num' = current.num => server_term' = current.data
    BY DEF Shown, Confirmed, MirrorInv, Newest
  <1> QED
    BY <1>1, <1>3, <1>4 DEF Confirmed

LEMMA ConfirmedNext ==
    ASSUME Safe, TypeOK, Shared, MirrorInv, Confirmed, [Next]_vars
    PROVE  Confirmed'
  <1>1. CASE SendVisible
    <2>1. UNCHANGED <<acked_num, applied_num, c2s>> /\ current'.num = current.num + 1
      BY <1>1 DEF SendVisible, AdvanceVisible, Rotate, client_vars, screen_vars
    <2>2. PICK k \in VisibleBodies(current', acked_num, acked_data, shutdown) :
             s2c' = s2c \cup {k}
      BY <1>1 DEF SendVisible
    <2>3. k.kind # "scrollback"
      BY <2>2, VisibleMade
    <2>4. \A m \in s2c : m.num # current'.num
      BY <2>1, ConfirmedNumbers DEF MirrorInv, InFlight
    <2>5. applied_num # current'.num
      BY <2>1, ConfirmedNumbers DEF MirrorInv, OnScreen
    <2> QED
      BY <2>1, <2>2, <2>3, <2>4, <2>5 DEF Confirmed
  <1>2. CASE SendScrollback
    <2>1. UNCHANGED <<acked_num, applied_num, c2s>> /\ current_is_sb'
      BY <1>2 DEF SendScrollback, AdvanceScrollback, client_vars, screen_vars
    <2> QED
      BY <2>1 DEF Confirmed
  <1>3. CASE Retransmit
    <2>1. UNCHANGED <<current, current_is_sb, acked_num, applied_num, server_term, c2s>>
      BY <1>3 DEF Retransmit, sb_vars, producer_vars, client_vars, screen_vars
    <2>2. \A m \in s2c' : m \in s2c \/ current_is_sb \/ m.kind # "scrollback"
      BY <1>3, VisibleMade DEF Retransmit
    <2> QED
      BY <2>1, <2>2, ConfirmedKept, ConfirmedNumbers
  <1>4. CASE \E m \in c2s : ReceiveMessage(m)
    BY <1>4, ConfirmedReceiveMessage
  <1>5. CASE \E m \in s2c : ReceiveFrame(m)
    BY <1>5, ShownWhole, ConfirmedReceiveFrame
  <1>6. CASE ~SendVisible /\ ~SendScrollback /\ ~Retransmit
             /\ ~(\E m \in c2s : ReceiveMessage(m)) /\ ~(\E m \in s2c : ReceiveFrame(m))
    <2>1. UNCHANGED <<current, current_is_sb, acked_num, applied_num, server_term>>
      BY <1>6, Zenon DEF Next, Shells, Server, Viewport, Network, ShellOutput, OverlayOutput,
         OverlayExit, ShellExit, SendEmpty, ExitAttested, ExitExpired, SendMessage, UserRequest,
         UserQuit, GiveUp, LoseFrame, LoseMessage, producer_vars, sb_vars, client_vars,
         screen_vars, vars
    <2>2. \A m \in s2c' : m \in s2c \/ m.kind # "scrollback"
      BY <1>6 DEF Next, Shells, Server, Viewport, Network, ShellOutput, OverlayOutput,
         OverlayExit, ShellExit, SendEmpty, ExitAttested, ExitExpired, SendMessage, UserRequest,
         UserQuit, GiveUp, LoseFrame, LoseMessage, net_vars, vars, EmptyBody, Frame
    <2>3. \A m \in c2s' : m \in c2s \/ m.ack = applied_num
      BY <1>6 DEF Next, Shells, Server, Viewport, Network, ShellOutput, OverlayOutput,
         OverlayExit, ShellExit, SendEmpty, ExitAttested, ExitExpired, SendMessage, UserRequest,
         UserQuit, GiveUp, LoseFrame, LoseMessage, net_vars, vars, Message
    <2> QED
      BY <2>1, <2>2, <2>3, ConfirmedKept, ConfirmedNumbers
  <1> QED
    BY <1>1, <1>2, <1>3, <1>4, <1>5, <1>6

\* Only a new frame pays what the shutdown owes.
LEMMA FinalNext ==
    ASSUME Safe, TypeOK, TypeOK', Shared, MirrorInv, Final, [Next]_vars
    PROVE  Final'
  <1>1. CASE SendVisible
    <2>1. /\ current'.num = current.num + 1 /\ current'.data = Src /\ ~current_is_sb'
          /\ last_gen' = SrcGen /\ UNCHANGED <<epoch, shutdown, applied_num>>
      BY <1>1 DEF SendVisible, AdvanceVisible, Rotate, term_vars, client_vars, screen_vars
    <2>2. PICK k \in VisibleBodies(current', acked_num, acked_data, shutdown) :
             s2c' = s2c \cup {k}
      BY <1>1 DEF SendVisible
    <2>3. k.bye = shutdown
      BY <2>2 DEF VisibleBodies, Frame
    <2>4. \A m \in s2c : m.num # current'.num
      BY <2>1, ConfirmedNumbers DEF MirrorInv, InFlight
    <2>5. applied_num # current'.num /\ current'.num > 0
      BY <2>1, ConfirmedNumbers DEF MirrorInv, OnScreen
    <2>6. Src = <<epoch, SrcGen>>
      BY DEF Src, SrcGen
    <2> QED
      BY <2>1, <2>2, <2>3, <2>4, <2>5, <2>6 DEF Final
  <1>2. CASE SendScrollback
    <2>1. ~shutdown'
      BY <1>2 DEF SendScrollback, MakeScrollback, WantScrollback, loop_vars
    <2> QED
      BY <2>1 DEF Final
  <1>3. CASE Retransmit \/ SendEmpty
    <2>1. UNCHANGED <<current, current_is_sb, epoch, last_gen, shutdown, applied_num,
                      shutdown_seen>>
      BY <1>3, Zenon DEF Retransmit, SendEmpty, sb_vars, loop_vars, term_vars, producer_vars,
         client_vars, screen_vars, user_vars
    <2>2. shutdown' /\ ~force_frame' => shutdown /\ ~force_frame
      BY <1>3, <2>1 DEF Retransmit, SendEmpty, Forced, loop_vars
    <2>3. shutdown => \A m \in s2c' : m \in s2c \/ m.bye
      <3>1. CASE Retransmit
        <4>1. PICK k \in IF current_is_sb THEN {ScrollbackBody(current, shutdown)}
                         ELSE VisibleBodies(current, acked_num, acked_data, shutdown) :
                 s2c' = s2c \cup {k}
          BY <3>1 DEF Retransmit
        <4>2. k.bye = shutdown
          BY <4>1 DEF VisibleBodies, ScrollbackBody, Frame
        <4> QED
          BY <4>1, <4>2
      <3>2. CASE SendEmpty
        <4>1. s2c' = s2c \cup {EmptyBody(current.num, shutdown)}
          BY <3>2 DEF SendEmpty
        <4>2. EmptyBody(current.num, shutdown).bye = shutdown
          BY DEF EmptyBody, Frame
        <4> QED
          BY <4>1, <4>2
      <3> QED
        BY <1>3, <3>1, <3>2
    <2> QED
      BY <2>1, <2>2, <2>3 DEF Final
  <1>4. CASE \E m \in c2s : ReceiveMessage(m)
    <2>1. PICK m \in c2s : ReceiveMessage(m)
      BY <1>4
    <2>2. UNCHANGED <<current, current_is_sb, last_gen, s2c, applied_num, shutdown_seen>>
      BY <2>1 DEF ReceiveMessage, client_vars, screen_vars, user_vars
    <2>3. shutdown' /\ ~force_frame' => shutdown /\ ~force_frame /\ UNCHANGED epoch
      BY <2>1 DEF ReceiveMessage
    <2> QED
      BY <2>2, <2>3 DEF Final
  <1>5. CASE \E m \in s2c : ReceiveFrame(m)
    <2>1. PICK m \in s2c : ReceiveFrame(m)
      BY <1>5
    <2>2. UNCHANGED <<current, current_is_sb, last_gen, epoch, shutdown, force_frame>>
          /\ s2c' \subseteq s2c /\ shutdown_seen' = (shutdown_seen \/ m.bye)
      BY <2>1 DEF ReceiveFrame, producer_vars, sb_vars, loop_vars, term_vars
    <2>3. applied_num' \in {applied_num, m.num}
      BY <2>1, ShownWhole DEF Shown
    <2> QED
      BY <2>2, <2>3 DEF Final
  <1>6. CASE Shells
    <2>1. UNCHANGED <<current, current_is_sb, last_gen, s2c, applied_num, shutdown_seen>>
      BY <1>6, Zenon DEF Shells, ShellOutput, OverlayOutput, OverlayExit, ShellExit,
         producer_vars, sb_vars, loop_vars, net_vars, client_vars, screen_vars, user_vars
    <2>2. shutdown' /\ ~force_frame' => shutdown /\ ~force_frame /\ UNCHANGED epoch
      BY <1>6 DEF Shells, ShellOutput, OverlayOutput, OverlayExit, ShellExit, loop_vars
    <2> QED
      BY <2>1, <2>2 DEF Final
  <1>7. CASE ~SendVisible /\ ~SendScrollback /\ ~Retransmit /\ ~SendEmpty /\ ~Shells
             /\ ~(\E m \in c2s : ReceiveMessage(m)) /\ ~(\E m \in s2c : ReceiveFrame(m))
    <2>1. UNCHANGED <<current, current_is_sb, epoch, last_gen, shutdown, force_frame,
                      applied_num, shutdown_seen>>
      BY <1>7, Zenon DEF Next, Server, Viewport, Network, ExitAttested, ExitExpired,
         SendMessage, UserRequest, UserQuit, GiveUp, LoseFrame, LoseMessage, producer_vars,
         sb_vars, loop_vars, term_vars, client_vars, screen_vars, user_vars, vars
    <2>2. s2c' \subseteq s2c
      BY <1>7 DEF Next, Server, Viewport, Network, ExitAttested, ExitExpired,
         SendMessage, UserRequest, UserQuit, GiveUp, LoseFrame, LoseMessage, net_vars, vars
    <2> QED
      BY <2>1, <2>2 DEF Final
  <1> QED
    BY <1>1, <1>2, <1>3, <1>4, <1>5, <1>6, <1>7

\* Nothing at the server moves once it left.
LEMMA LeftNext ==
    ASSUME TypeOK, MirrorInv, Confirmed, Left, [Next]_vars
    PROVE  Left'
  <1>1. CASE ExitAttested
    <2>1. acked_num = current.num
      BY <1>1, ConfirmedNumbers DEF ExitAttested, FinalStateAcked, Confirmed, MirrorInv, OnScreen
    <2>2. UNCHANGED <<shutdown, force_frame, acked_num, current, last_gen, gen>>
      BY <1>1, Zenon DEF ExitAttested, producer_vars, term_vars
    <2> QED
      BY <1>1, <2>1, <2>2 DEF ExitAttested, FinalStateAcked, Left
  <1>2. CASE ExitExpired
    BY <1>2 DEF ExitExpired, Left
  <1>3. CASE ~ExitAttested /\ ~ExitExpired /\ Running
    <2>1. UNCHANGED exited
      BY <1>3, Zenon DEF Next, Shells, Server, Viewport, Network, ShellOutput, OverlayOutput,
         OverlayExit, ShellExit, SendVisible, SendScrollback, Retransmit, SendEmpty,
         ReceiveMessage, ReceiveFrame, SendMessage, UserRequest, UserQuit, GiveUp, LoseFrame,
         LoseMessage, loop_vars, vars
    <2> QED
      BY <1>3, <2>1 DEF Left, Running
  <1>4. CASE ~Running
    <2>1. UNCHANGED <<term_vars, loop_vars, producer_vars>>
      BY <1>4, Zenon DEF Next, Shells, Server, Viewport, Network, ShellOutput, OverlayOutput,
         OverlayExit, ShellExit, SendVisible, SendScrollback, Retransmit, SendEmpty, CanSend,
         ExitAttested, ExitExpired, ReceiveMessage, ReceiveFrame, SendMessage, UserRequest,
         UserQuit, GiveUp, LoseFrame, LoseMessage, vars
    <2> QED
      BY <2>1 DEF Left, Overlay, term_vars, loop_vars, producer_vars
  <1> QED
    BY <1>1, <1>2, <1>3, <1>4

LEMMA ExitAlways ==
    ASSUME Safe
    PROVE  Spec => []ExitInv
  <1>1. TypeOK /\ TypeOK' /\ Shared /\ MirrorInv /\ ExitInv /\ [Next]_vars => ExitInv'
    BY ConfirmedNext, FinalNext, LeftNext DEF ExitInv
  <1> QED
    BY <1>1, ExitInit, MirrorAlways, SharedAlways, TypeCorrect, PTL DEF Spec

LEMMA ExitFollows ==
    ASSUME TypeOK, MirrorInv, ExitInv
    PROVE  AttestedExit
  <1> SUFFICES ASSUME exited = "attested"
               PROVE  /\ shutdown_seen
                      /\ server_term = <<epoch, last_gen>>
                      /\ ~Overlay => last_gen = gen
    BY DEF AttestedExit
  <1>1. /\ shutdown /\ ~force_frame /\ acked_num = current.num
        /\ ~Overlay => last_gen = gen
    BY DEF ExitInv, Left
  <1>2. applied_num = current.num
    BY <1>1, ConfirmedNumbers DEF ExitInv, Confirmed, MirrorInv, OnScreen
  <1> QED
    BY <1>1, <1>2 DEF ExitInv, Final, Confirmed

(* With the same capabilities, server_loop leaves by the handshake only     *)
(* after the viewport heard that the session ended and showed its last      *)
(* screen: an exit on an ack of an older frame, or with a frame still owed, *)
(* does not happen.                                                         *)
THEOREM ExitCorrect ==
    ASSUME (BaseSum /\ ~Morph) \/ ~Scrollback
    PROVE  Spec => []AttestedExit
  <1>1. (Spec => []MirrorInv) /\ (Spec => []ExitInv)
    BY MirrorAlways, ExitAlways DEF Safe
  <1>2. TypeOK /\ MirrorInv /\ ExitInv => AttestedExit
    BY ExitFollows
  <1> QED
    BY <1>1, <1>2, TypeCorrect, PTL

(* Towards a client that takes no v1 scrollback frames, what the server     *)
(* takes the viewport to have, it has: the base FrameProducer diffs against *)
(* is the dump apply_frame will apply the diff to, whatever acks came late, *)
(* out of order or with a resync, and the handshake ends on the last screen.*)
THEOREM KnowsCorrect ==
    ASSUME ~Scrollback
    PROVE  Spec => []ServerKnows
  <1>1. Spec => []ChainInv
    BY ChainAlways
  <1>2. Spec => []AttestedExit
    BY ExitCorrect
  <1>3. ChainInv /\ AttestedExit => ServerKnows
    BY BaseFollows DEF ServerKnows
  <1> QED
    BY <1>1, <1>2, <1>3, PTL
=============================================================================
