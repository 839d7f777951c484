----------------------------- MODULE ClientProxy -----------------------------
(***************************************************************************)
(* The path of a client's messages through the mendicant proxy            *)
(* (src/client/proxy.c, src/client/io.c), composed with the hub end of    *)
(* the connection: the member's outbound queue (MsgQueue) feeding the      *)
(* outgoing task, and the incoming task reading what the proxy forwards.  *)
(*                                                                         *)
(*   hub: MsgQueue --outgoing--> hubSock --+                               *)
(*                                         | Proxy_event_loop --> toLis    *)
(*   hub: incoming <-- toHub <-------------+ <-- lisIn <-- listener        *)
(*                                                                         *)
(* A socket or pipe is the sequence of frames written to it and not yet    *)
(* read, holding up to SockCap frames; a frame is written or read whole    *)
(* (readframe reads exactly one, select reporting an fd writable means a  *)
(* frame fits).  A closed end is a flag: the reader sees end of file once  *)
(* the frames before it are read, and a writer to a closed pipe or socket *)
(* gets SIGPIPE, which the proxy does not ignore (hub.c ignores it).       *)
(* Encryption is the CryptoHandshake module's business: here a frame is   *)
(* the message it carries.                                                 *)
(***************************************************************************)
EXTENDS Naturals, Sequences

CONSTANTS Dim, MaxMsgs, Null, Garbage,   \* the member queue (MsgQueue)
          SockCap,   \* frames a socket or pipe buffer holds
          MaxLis,    \* bound on the messages the listener sends
          NoMsg,     \* header[side]/body[side] before the first read
          Err        \* an error frame of Proxy_error

VARIABLES slots, i, j, dead, pc, next,   \* the member queue and its consumer
          hin,       \* the hub's incoming task: "reading" or "done"
          hubClosed, \* half_close (server_destroy_client) closed the hub's socket
          hubSock,   \* frames the hub sent, not yet read by the proxy
          toHub,     \* frames the proxy sent, not yet read by the hub
          rs,        \* readset: conn->host.fd ("host"), client.read_fd ("client")
          ws,        \* writeset: client.write_fd ("client"), conn->host.fd ("host")
          buf,       \* buf[side]: header[side] and body[side] of the loop
          pst,       \* the proxy: "loop", "exited" (returned 0), "killed" (SIGPIPE)
          lisIn,     \* frames the listener sent, not yet read by the proxy
          toLis,     \* frames the proxy sent, not yet read by the listener
          lnext,     \* the next message the listener sends
          lisClosed  \* the listener closed its end

qvars == <<slots, i, j, dead, pc, next>>
hvars == <<hin, hubClosed, hubSock, toHub>>
pvars == <<rs, ws, buf, pst>>
lvars == <<lisIn, toLis, lnext, lisClosed>>
vars == <<qvars, hvars, pvars, lvars>>

MQ == INSTANCE MsgQueue

Sides == {"hub", "lis"}
LisIds == 1..MaxLis

\* PROXY_HANDLE_EVENT(HUB, host.fd, Proxy_hub_recv, client.write_fd, ...)
\* and (LISTENER, client.read_fd, Proxy_listener_recv, host.fd, ...).
ReadFd == [hub |-> "host", lis |-> "client"]
WriteFd == [hub |-> "client", lis |-> "host"]

TypeOK ==
  /\ MQ!TypeOK
  /\ hin \in {"reading", "done"} /\ hubClosed \in BOOLEAN
  /\ hubSock \in Seq(MQ!MsgIds) /\ Len(hubSock) <= SockCap
  /\ toHub \in Seq(LisIds) /\ Len(toHub) <= SockCap
  /\ rs \subseteq {"host", "client"} /\ ws \subseteq {"client", "host"}
  /\ buf \in [Sides -> MQ!MsgIds \cup LisIds \cup {NoMsg}]
  /\ pst \in {"loop", "exited", "killed"}
  /\ lisIn \in Seq(LisIds) /\ Len(lisIn) <= SockCap
  /\ toLis \in Seq(MQ!MsgIds \cup {Err})
  /\ lnext \in 1..MaxLis + 1 /\ lisClosed \in BOOLEAN

Init ==
  /\ MQ!Init
  /\ hin = "reading" /\ hubClosed = FALSE /\ hubSock = <<>> /\ toHub = <<>>
  /\ rs = {"host", "client"} /\ ws = {}
  /\ buf = [s \in Sides |-> NoMsg]
  /\ pst = "loop"
  /\ lisIn = <<>> /\ toLis = <<>> /\ lnext = 1 /\ lisClosed = FALSE

-----------------------------------------------------------------------------
(* The proxy.  One turn of Proxy_event_loop is one step: what select      *)
(* reports ready stays ready until the proxy itself reads or writes, so   *)
(* the handlers run on the masks select returned.  A turn is a function   *)
(* of a record P of the proxy's fds and the four sockets.                 *)

\* select: an fd in readset is ready when a frame or end of file is there,
\* one in writeset when a frame fits or the other end is gone.
Readable(P, fd) == IF fd = "host" THEN P.hubSock # <<>> \/ hubClosed
                                  ELSE P.lisIn # <<>> \/ lisClosed
Writable(P, fd) == IF fd = "client" THEN Len(P.toLis) < SockCap \/ lisClosed
                                    ELSE Len(P.toHub) < SockCap \/ hubClosed

\* Mutant: FD_SWAP after a read sets the write fd but leaves the read fd
\* in readset.
SwapToWriteNoClr(P, side) == [P EXCEPT !.ws = @ \cup {WriteFd[side]}]

\* FD_SWAP(fd1, fds1, fd2, fds2): FD_SET(fd1, fds1); FD_CLR(fd2, fds2).
SwapToWrite(P, side) == [P EXCEPT !.ws = @ \cup {WriteFd[side]}, !.rs = @ \ {ReadFd[side]}]

\* Mutant: FD_SWAP after a write clears the write fd but never puts the
\* read fd back in readset.
SwapToReadNoSet(P, side) == [P EXCEPT !.ws = @ \ {WriteFd[side]}]

SwapToRead(P, side) == [P EXCEPT !.rs = @ \cup {ReadFd[side]}, !.ws = @ \ {WriteFd[side]}]

\* Proxy_error: writenodes of an err frame to client.write_fd, result
\* ignored; a closed listener means SIGPIPE.  The write blocks until it is
\* done, so it may go past SockCap.
ProxyError(P) == CASE P.pst = "killed" -> P
                   [] lisClosed        -> [P EXCEPT !.pst = "killed"]
                   [] OTHER            -> [P EXCEPT !.toLis = Append(@, Err)]

\* check_err failing in the loop: Proxy_error, then return 0.
Fail(P) == LET Q == ProxyError(P) IN
           IF Q.pst = "killed" THEN Q ELSE [Q EXCEPT !.pst = "exited"]

\* readnodes: readframe of one frame; end of file fails it.  The hub side
\* is Proxy_hub_recv, whose own check_err reports HUB_IO before the loop's
\* check_err reports IO; Proxy_listener_recv has no check of its own.
ProxyRead(P, side) ==
  LET sock == IF side = "hub" THEN P.hubSock ELSE P.lisIn
      rest == IF side = "hub" THEN [P EXCEPT !.hubSock = Tail(@)]
                              ELSE [P EXCEPT !.lisIn = Tail(@)]
  IN IF sock = <<>>
       THEN Fail(IF side = "hub" THEN ProxyError(P) ELSE P)
       ELSE SwapToWrite([rest EXCEPT !.buf[side] = Head(sock)], side)

\* Proxy_listener_send (writenodes to client.write_fd) and Proxy_hub_send
\* (write_header_node to host.fd): writev returns > 0, then FD_SWAP back.
\* SIGPIPE kills the proxy on a closed pipe; on a socket the hub closed,
\* the first write may still be accepted and lost.
ProxyWrite(P, side) ==
  CASE side = "hub" /\ lisClosed -> {[P EXCEPT !.pst = "killed"]}
    [] side = "hub" -> {SwapToRead([P EXCEPT !.toLis = Append(@, P.buf.hub)], side)}
    [] hubClosed -> {[P EXCEPT !.pst = "killed"], SwapToRead(P, side)}
    [] OTHER -> {SwapToRead([P EXCEPT !.toHub = Append(@, P.buf.lis)], side)}

\* PROXY_HANDLE_EVENT(side, ...): read if readfd is in the read mask, then
\* write if writefd is in the write mask; a failure returns from the loop.
HandleEvent(P, side, rmask, wmask) ==
  LET R == IF ReadFd[side] \in rmask THEN ProxyRead(P, side) ELSE P
  IN CASE R.pst # "loop"           -> {R}
       [] WriteFd[side] \in wmask  -> ProxyWrite(R, side)
       [] OTHER                    -> {R}

\* One turn of Proxy_event_loop: select on the two sets (it blocks until an
\* fd is ready), the HUB event, then the LISTENER event.
ProxyTurn ==
  /\ pst = "loop"
  /\ LET P == [rs |-> rs, ws |-> ws, buf |-> buf, pst |-> pst,
               hubSock |-> hubSock, lisIn |-> lisIn, toLis |-> toLis, toHub |-> toHub]
         rmask == {fd \in rs : Readable(P, fd)}
         wmask == {fd \in ws : Writable(P, fd)}
     IN /\ rmask \cup wmask # {}
        /\ \E P1 \in HandleEvent(P, "hub", rmask, wmask) :
           \E P2 \in IF P1.pst = "loop" THEN HandleEvent(P1, "lis", rmask, wmask) ELSE {P1} :
             /\ rs' = P2.rs /\ ws' = P2.ws /\ buf' = P2.buf /\ pst' = P2.pst
             /\ hubSock' = P2.hubSock /\ lisIn' = P2.lisIn
             /\ toLis' = P2.toLis /\ toHub' = P2.toHub
  /\ UNCHANGED <<qvars, hin, hubClosed, lnext, lisClosed>>

-----------------------------------------------------------------------------
(* The hub end of the connection. *)

\* ConnectionState_half_close, on whichever task closes first: the client
\* socket is destroyed, and Member_logout kills the queue and wakes its
\* sleeper; a second call finds state->client NULL and does nothing.
Logout == /\ hubClosed' = TRUE
          /\ IF dead THEN UNCHANGED <<dead, pc>> ELSE dead' = TRUE /\ MQ!WakeAll

\* Another connection's Route_deliver: Member_send_msg to this member.
Deliver == MQ!SendMsg /\ UNCHANGED <<hvars, pvars, lvars>>

\* The outgoing task's Member_first_msg, before and after its sleep.
OutgoingFirst == (MQ!FirstMsg \/ MQ!FirstMsgWoken) /\ UNCHANGED <<hvars, pvars, lvars>>

\* The outgoing task holding the head: exec(MSG_QUEUED),
\* ConnectionState_send_msg -> Peer_send -> FrameSource_send (flushed),
\* exec(MSG_SENT) -> Member_delete_msg.  Peer_send waits while the socket
\* is full; once the proxy is gone the write may still be accepted and
\* lost.
HubSend ==
  /\ pc = "holding" /\ ~dead
  /\ pst = "loop" => Len(hubSock) < SockCap
  /\ hubSock' = IF pst = "loop" THEN Append(hubSock, slots[i]) ELSE hubSock
  /\ MQ!DeleteMsg
  /\ UNCHANGED <<hin, hubClosed, toHub, pvars, lvars>>

\* The same send failing, or not attempted: on a connection already closing
\* exec(MSG_QUEUED) or ConnectionState_send_msg fails and the task leaves
\* its loop; a write to the closed proxy fails (EPIPE: the hub ignores
\* SIGPIPE), FAIL runs half_close and the task leaves its loop.
HubSendFail ==
  /\ pc = "holding"
  /\ dead \/ pst # "loop"
  /\ pc' = "stopped" /\ dead' = TRUE /\ hubClosed' = TRUE
  /\ UNCHANGED <<slots, i, j, next, hin, hubSock, toHub, pvars, lvars>>

\* ConnectionState_read_msg -> Peer_recv: a frame; or nothing once the
\* socket is closed (state->client NULL, or the read fails) or at end of
\* file once the proxy is gone, which ends the read loop (READ_CLOSE,
\* half_close).
HubRecv ==
  /\ hin = "reading"
  /\ \/ /\ ~hubClosed /\ toHub # <<>>
        /\ toHub' = Tail(toHub)
        /\ UNCHANGED <<qvars, hin, hubClosed>>
     \/ /\ hubClosed \/ (toHub = <<>> /\ pst # "loop")
        /\ hin' = "done" /\ Logout
        /\ UNCHANGED <<slots, i, j, next, toHub>>
  /\ UNCHANGED <<hubSock, pvars, lvars>>

\* The hub ends the connection on its own (a message that fails to decode
\* or decrypt, any FAIL of the machine): half_close, the read loop ends.
HubAbort ==
  /\ hin = "reading"
  /\ hin' = "done" /\ Logout
  /\ UNCHANGED <<slots, i, j, next, hubSock, toHub, pvars, lvars>>

-----------------------------------------------------------------------------
(* The listener: the local client on the other side of the pipe or domain *)
(* socket.  Its messages are 1..MaxLis, in the order it writes them.      *)

LisSend ==
  /\ ~lisClosed /\ lnext <= MaxLis /\ Len(lisIn) < SockCap
  /\ lisIn' = Append(lisIn, lnext) /\ lnext' = lnext + 1
  /\ UNCHANGED <<qvars, hvars, pvars, toLis, lisClosed>>

LisRecv ==
  /\ ~lisClosed /\ toLis # <<>>
  /\ toLis' = Tail(toLis)
  /\ UNCHANGED <<qvars, hvars, pvars, lisIn, lnext, lisClosed>>

LisClose ==
  /\ ~lisClosed /\ lisClosed' = TRUE
  /\ UNCHANGED <<qvars, hvars, pvars, lisIn, toLis, lnext>>

Next == \/ Deliver \/ OutgoingFirst \/ HubSend \/ HubSendFail
        \/ HubRecv \/ HubAbort
        \/ ProxyTurn
        \/ LisSend \/ LisRecv \/ LisClose

(* Fairness.  libtask runs the hub's tasks whenever they are ready (the    *)
(* MsgQueue module's argument), and the proxy is a process of its own,    *)
(* woken by select.  The listener is assumed to keep reading what it is   *)
(* sent; nothing makes it send, close, or the hub abort.                   *)
Fairness == /\ WF_vars(OutgoingFirst) /\ WF_vars(HubSend) /\ WF_vars(HubSendFail)
            /\ WF_vars(HubRecv)
            /\ WF_vars(ProxyTurn) /\ WF_vars(LisRecv)

Spec == Init /\ [][Next]_vars /\ Fairness

-----------------------------------------------------------------------------
(* The refinement mapping.  What is in flight on each channel, oldest     *)
(* first: the frames in the pipe to the reader, the frame the proxy holds *)
(* for it (a side's buffer is pending exactly while its write fd is in    *)
(* writeset), and the frames not yet read by the proxy.  What no one will *)
(* read any more is not in flight: everything once the reader is gone,    *)
(* and what the proxy had not passed on once it is gone.                  *)

Messages(s) == SelectSeq(s, LAMBDA x : x # Err)
Pending(side) == IF WriteFd[side] \in ws THEN <<buf[side]>> ELSE <<>>

DownFlight == IF lisClosed THEN <<>>
              ELSE Messages(toLis) \o (IF pst # "loop" THEN <<>> ELSE Pending("hub") \o hubSock)
UpFlight == IF hubClosed THEN <<>>
            ELSE toHub \o (IF pst # "loop" THEN <<>> ELSE Pending("lis") \o lisIn)

\* A direction is open while its reader is up and the proxy loops.
OpenChans == {c \in {"down", "up"} : pst = "loop" /\ ~(IF c = "down" THEN lisClosed ELSE hubClosed)}

Tunnel == INSTANCE TunnelSpec WITH Msgs <- MQ!MsgIds \cup LisIds,
                                   down <- DownFlight, up <- UpFlight, open <- OpenChans

\* The proxy is the transparent tunnel of spec.md: through the select
\* loop's one buffer per direction and FD_SWAP's juggling of the read and
\* write sets, no message is reordered, duplicated or dropped from the
\* middle of either direction, whatever the order in which the hub, the
\* listener and select's readiness interleave, and whichever end closes.
TunnelRefined == Tunnel!Spec

\* Every message in flight leaves the tunnel: the listener reads what the
\* hub sent and the hub reads what the listener sent, unless an end goes
\* away first.  Neither direction of the single select loop starves the
\* other, and the loop never stops with a frame pending.
TunnelDelivers ==
  /\ \A m \in MQ!MsgIds :
       (\E k \in DOMAIN DownFlight : DownFlight[k] = m) ~> (\A k \in DOMAIN DownFlight : DownFlight[k] # m)
  /\ \A m \in LisIds :
       (\E k \in DOMAIN UpFlight : UpFlight[k] = m) ~> (\A k \in DOMAIN UpFlight : UpFlight[k] # m)

\* The member queue keeps its own guarantees inside the composition.
MailboxRefined == MQ!MailboxRefined
Delivered == MQ!Delivered
====
