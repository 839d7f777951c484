------------------------------ MODULE HubConn ------------------------------
(***************************************************************************)
(* The hub's connection lifecycle: src/hub/hub_state.c, connection.c (the  *)
(* Ragel machine), connection_state.c (the incoming and outgoing tasks),   *)
(* member.c (login, logout, the outbound queue) and the CLOSE action of    *)
(* hub.c, run by libtask's cooperative scheduler.                          *)
(*                                                                         *)
(* libtask runs one task at a time from a FIFO ready queue; a task runs    *)
(* until it yields (taskyield appends it to the tail) or blocks (socket    *)
(* wait, qlock, tasksleep).  So each action below is the code a task runs *)
(* from one suspension point to the next, taken when that task is at the  *)
(* head of the ready queue.  The sequential code of such a run is written *)
(* as pure operators on a record W of all variables (Exec, RunActs, After *)
(* ... ), composed in the order the C code calls them.                     *)
(*                                                                         *)
(* A "life" n is the n-th accepted client: its handler task <<n, "in">>    *)
(* (which runs ConnectionState_incoming nested in exec(OPEN)), its          *)
(* outgoing task <<n, "out">>, its Peer and its Member are all numbered n. *)
(* ConnectionState objects are recycled through hub->closed, so the object *)
(* a life uses is whichever Hub_new_or_reuse_conn returned.                *)
(*                                                                         *)
(* What no code path may do is recorded in `fault` and stops the model:   *)
(* a NULL or freed Member used, a freed Peer used, a task touching an      *)
(* object that now serves another life, or an assert that aborts.         *)
(***************************************************************************)
EXTENDS Integers, Sequences

CONSTANTS MaxAccepts,  \* clients accepted over a behaviour
          Cap,         \* messages a member queue holds (MEMBER_MSG_QUEUE_LENGTH - 1)
          MaxRecv,     \* messages one client sends after the handshake
          ClientMsgs   \* what a received message does to the machine

ASSUME ClientMsgs \subseteq {"good", "badid", "unroutable", "undecodable"}

Lives == 1..MaxAccepts
Objs  == 1..MaxAccepts        \* at most one ConnectionState per accept
Tasks == Lives \X {"in", "out"}
NoTask == <<0, "none">>

\* The events of hub.h that connection_state.c and hub_state.c emit.
Events == {"O", "P", "1", "0", "R", "s", "Q", "e", "r", "w"}

(***************************************************************************)
(* The Ragel tables of connection.c decoded: from state, event, target     *)
(* state and the actions run in order.  The error action (half_close then *)
(* rest_close) is written as those two calls.  The hate states 7..9 are   *)
(* left out: no code emits the 'H' event that leads to them.              *)
(***************************************************************************)
Arcs ==
  {[from |-> 1,  ev |-> "O", to |-> 2,  acts |-> <<"begin", "open">>],
   [from |-> 2,  ev |-> "P", to |-> 3,  acts |-> <<"key_prep">>],
   [from |-> 3,  ev |-> "1", to |-> 4,  acts |-> <<"tune">>],
   [from |-> 4,  ev |-> "1", to |-> 5,  acts |-> <<"register">>],
   [from |-> 5,  ev |-> "1", to |-> 6,  acts |-> <<"established">>],
   [from |-> 6,  ev |-> "Q", to |-> 10, acts |-> <<"msg_ready">>],
   [from |-> 6,  ev |-> "R", to |-> 13, acts |-> <<"recv">>],
   [from |-> 10, ev |-> "0", to |-> 11, acts |-> <<"clear_send">>],
   [from |-> 10, ev |-> "e", to |-> 6,  acts |-> <<"sent", "clear_send">>],
   [from |-> 13, ev |-> "s", to |-> 6,
    acts |-> <<"msgid_check", "service", "clear_recv">>]}
  \cup {[from |-> s, ev |-> e, to |-> 12, acts |-> <<"half_close">>] :
          s \in 2..6, e \in {"r", "w"}}
  \cup {[from |-> 12, ev |-> e, to |-> 14, acts |-> <<"rest_close">>] :
          e \in {"r", "w"}}
  \cup {[from |-> 11, ev |-> e, to |-> 12, acts |-> <<"aborted", "half_close">>] :
          e \in Events}

Transition(s, e) ==
  IF \E a \in Arcs : a.from = s /\ a.ev = e
    THEN CHOOSE a \in Arcs : a.from = s /\ a.ev = e
    ELSE [from |-> s, ev |-> e, to |-> 0, acts |-> <<"half_close", "rest_close">>]

\* ConnectionState_done and ConnectionState_invariant.
IsDone(s) == s = 0 \/ s = 14
Invariant(s) == IF s = 0 THEN -1 ELSE IF s >= 14 THEN 1 ELSE 0

\* What a step's socket operation returns.  A read either blocks or returns
\* at once with end of file or a message of some kind (for a good one, the
\* member the service delivers to, 0 for none); a send blocks or completes;
\* the handshake fails before the key confirm, after it, or succeeds.
ReadResults == {[kind |-> k, to |-> 0] : k \in {"block", "eof"} \cup ClientMsgs}
               \cup (IF "good" \in ClientMsgs
                       THEN {[kind |-> "good", to |-> d] : d \in Lives}
                       ELSE {})
SendResults == {"block", "ok", "fail"}
HsResults == {"fail", "confirm_fail", "ok"}
NoRead == [kind |-> "block", to |-> 0]

\* Faults: what the C code does here is a crash, an abort or a use of
\* freed memory.
Faults == {"none", "null_member", "uaf_member", "uaf_peer", "stale",
           "closed_empty", "rest_close_assert", "qunlock_unowned"}

\* Task positions (pc): created and ready to run; blocked in the handshake,
\* in Peer_recv or in Peer_send; readied by the socket ("..r"); at the top of
\* the read or dequeue loop; asleep on or woken from the member queue;
\* waiting for or handed the connection lock; yielding inside Member_logout.
Pcs == {"none", "open", "hs1", "hs1r", "hs2", "hs2r", "recv", "recvr",
        "send", "sendr", "loop", "asleep", "woken", "lockwait", "locked",
        "lo", "done"}
BlockedIo == {"hs1", "hs2", "recv", "send"}

\* Call sites of ConnectionState_exec: what the caller does with its result.
Sites == {"handler", "in_keyp", "in_pass1", "in_pass2", "in_recv", "in_svc", "in_rclose",
          "confirm", "out_queued", "out_sent", "out_fail", "out_wclose"}
ActNames == {"begin", "open", "key_prep", "tune", "register", "established",
             "recv", "clear_recv", "clear_send", "service", "msg_ready",
             "msgid_check", "aborted", "sent", "half_close", "rest_close"}

\* state->recv: the body Peer_recv returned (its kind), the member the
\* service delivers it to, and whether Message_decons made recv.msg.
NoRcv == [body |-> "none", to |-> 0, msg |-> FALSE]

VARIABLES
  \* ConnectionState fields, per object
  cs, client, member, opeer, rcv, owner, waiting,
  life,      \* the accept the object currently serves (0: never used)
  closed,    \* hub->closed, head first
  nobj,      \* objects calloc'd so far
  \* Member fields, per life
  mst,       \* "none", "live" (logged in) or "gone" (Member_destroy ran)
  mq,        \* messages in the member's queue
  mdead,     \* queue->dead
  rwait,     \* tasks asleep on queue->read_wait, in sleeping order
  \* Peer and socket of each life
  pst,       \* "none", "live", or "freed" by ConnectionState_finish
  fdopen,    \* the client's socket is open
  fin,       \* ConnectionState_finish ran on the object while it served n
  nrecv,     \* messages the client has sent
  \* libtask
  ready,     \* the ready queue
  pc, tobj,  \* where each task is, and its ConnectionState
  tref,      \* the life whose member or peer a blocked task is using
  tsite,     \* a task yielding in Member_logout: the exec call site ...
  tacts,     \* ... and the actions of the transition left to run
  accepted, fault

vars == <<cs, client, member, opeer, rcv, owner, waiting, life, closed, nobj,
          mst, mq, mdead, rwait, pst, fdopen, fin, nrecv, ready, pc, tobj,
          tref, tsite, tacts, accepted, fault>>

W == [cs |-> cs, client |-> client, member |-> member, opeer |-> opeer,
      rcv |-> rcv, owner |-> owner, waiting |-> waiting, life |-> life,
      closed |-> closed, nobj |-> nobj, mst |-> mst, mq |-> mq,
      mdead |-> mdead, rwait |-> rwait, pst |-> pst, fdopen |-> fdopen,
      fin |-> fin, nrecv |-> nrecv, ready |-> ready, pc |-> pc, tobj |-> tobj,
      tref |-> tref, tsite |-> tsite, tacts |-> tacts, accepted |-> accepted,
      fault |-> fault]

\* Make the world w the next state (w is evaluated once, bound to v).
Set(w) == \E v \in {w} :
            /\ cs' = v.cs /\ client' = v.client /\ member' = v.member
            /\ opeer' = v.opeer /\ rcv' = v.rcv /\ owner' = v.owner
            /\ waiting' = v.waiting /\ life' = v.life /\ closed' = v.closed
            /\ nobj' = v.nobj /\ mst' = v.mst /\ mq' = v.mq /\ mdead' = v.mdead
            /\ rwait' = v.rwait /\ pst' = v.pst /\ fdopen' = v.fdopen
            /\ fin' = v.fin /\ nrecv' = v.nrecv /\ ready' = v.ready
            /\ pc' = v.pc /\ tobj' = v.tobj /\ tref' = v.tref
            /\ tsite' = v.tsite /\ tacts' = v.tacts /\ accepted' = v.accepted
            /\ fault' = v.fault

TypeOK ==
  /\ cs \in [Objs -> 0..14]
  /\ client \in [Objs -> Lives \cup {0}]
  /\ member \in [Objs -> Lives \cup {0}]
  /\ opeer \in [Objs -> Lives \cup {0}]
  /\ rcv \in [Objs -> [body : {"none"} \cup ClientMsgs, to : Lives \cup {0},
                       msg : BOOLEAN]]
  /\ owner \in [Objs -> Tasks \cup {NoTask}]
  /\ waiting \in [Objs -> Seq(Tasks)]
  /\ life \in [Objs -> Lives \cup {0}]
  /\ closed \in Seq(Objs)
  /\ nobj \in 0..MaxAccepts
  /\ mst \in [Lives -> {"none", "live", "gone"}]
  /\ mq \in [Lives -> 0..Cap]
  /\ mdead \in [Lives -> BOOLEAN]
  /\ rwait \in [Lives -> Seq(Tasks)]
  /\ pst \in [Lives -> {"none", "live", "freed"}]
  /\ fdopen \in [Lives -> BOOLEAN]
  /\ fin \in [Lives -> BOOLEAN]
  /\ nrecv \in [Lives -> 0..MaxRecv]
  /\ ready \in Seq(Tasks)
  /\ pc \in [Tasks -> Pcs]
  /\ tobj \in [Tasks -> Objs \cup {0}]
  /\ tref \in [Tasks -> Lives \cup {0}]
  /\ tsite \in [Tasks -> Sites \cup {"none"}]
  /\ tacts \in [Tasks -> Seq(ActNames)]
  /\ accepted \in 0..MaxAccepts
  /\ fault \in Faults

Init ==
  /\ cs = [o \in Objs |-> 0]
  /\ client = [o \in Objs |-> 0]
  /\ member = [o \in Objs |-> 0]
  /\ opeer = [o \in Objs |-> 0]
  /\ rcv = [o \in Objs |-> NoRcv]
  /\ owner = [o \in Objs |-> NoTask]
  /\ waiting = [o \in Objs |-> <<>>]
  /\ life = [o \in Objs |-> 0]
  /\ closed = <<>>
  /\ nobj = 0
  /\ mst = [n \in Lives |-> "none"]
  /\ mq = [n \in Lives |-> 0]
  /\ mdead = [n \in Lives |-> FALSE]
  /\ rwait = [n \in Lives |-> <<>>]
  /\ pst = [n \in Lives |-> "none"]
  /\ fdopen = [n \in Lives |-> FALSE]
  /\ fin = [n \in Lives |-> FALSE]
  /\ nrecv = [n \in Lives |-> 0]
  /\ ready = <<>>
  /\ pc = [t \in Tasks |-> "none"]
  /\ tobj = [t \in Tasks |-> 0]
  /\ tref = [t \in Tasks |-> 0]
  /\ tsite = [t \in Tasks |-> "none"]
  /\ tacts = [t \in Tasks |-> <<>>]
  /\ accepted = 0
  /\ fault = "none"

-----------------------------------------------------------------------------
(***************************************************************************)
(* The sequential code, as operators from a world w to the world after it. *)
(***************************************************************************)
SeqSet(s) == {s[k] : k \in DOMAIN s}

Raise(w, f) == [w EXCEPT !.fault = f]

\* Fault-injection variant of WakeAll: the sleepers are readied but stay
\* on the rendez.
WakeAllNoClear(w, m) ==
  [w EXCEPT !.ready = @ \o w.rwait[m],
            !.pc = [x \in Tasks |-> IF x \in SeqSet(w.rwait[m]) THEN "woken"
                                                              ELSE w.pc[x]]]

\* MsgQueue_wake_all: taskwakeupall readies the sleepers in sleeping order.
WakeAll(w, m) ==
  [w EXCEPT !.ready = @ \o w.rwait[m],
            !.pc = [x \in Tasks |-> IF x \in SeqSet(w.rwait[m]) THEN "woken"
                                                              ELSE w.pc[x]],
            !.rwait[m] = <<>>]

\* Fault-injection variants of SendTo: no MsgQueue_wake_all after the add;
\* no MsgQueue_is_full check before it.
SendToNoWake(w, d) ==
  IF d = 0 \/ w.mst[d] # "live" \/ w.mq[d] >= Cap THEN w
  ELSE [w EXCEPT !.mq[d] = @ + 1]

SendToNoFullCheck(w, d) ==
  IF d = 0 \/ w.mst[d] # "live" THEN w
  ELSE WakeAll([w EXCEPT !.mq[d] = @ + 1], d)

\* Member_send_msg to member d (0: the route or command delivers to no one):
\* refused when the queue is full, which every caller ignores.
SendTo(w, d) ==
  IF d = 0 \/ w.mst[d] # "live" \/ w.mq[d] >= Cap THEN w
  ELSE WakeAll([w EXCEPT !.mq[d] = @ + 1], d)

\* Fault-injection variant of Unlock: qunlock frees the lock and readies
\* the first waiter without making it the owner.
UnlockNoHandoff(w, t) ==
  LET o == w.tobj[t]
      q == w.waiting[o]
  IN IF w.owner[o] = NoTask THEN Raise(w, "qunlock_unowned")
     ELSE IF q = <<>>
       THEN [w EXCEPT !.owner[o] = NoTask, !.ready = Append(@, t),
                      !.pc[t] = "loop"]
       ELSE [w EXCEPT !.owner[o] = NoTask, !.waiting[o] = Tail(q),
                      !.ready = Append(Append(@, Head(q)), t),
                      !.pc[Head(q)] = "locked", !.pc[t] = "loop"]

\* ConnectionState_unlock: qunlock (libtask aborts when nobody owns the
\* lock, else hands it to the first waiter and readies it), then taskyield.
Unlock(w, t) ==
  LET o == w.tobj[t]
      q == w.waiting[o]
  IN IF w.owner[o] = NoTask THEN Raise(w, "qunlock_unowned")
     ELSE IF q = <<>>
       THEN [w EXCEPT !.owner[o] = NoTask, !.ready = Append(@, t),
                      !.pc[t] = "loop"]
       ELSE [w EXCEPT !.owner[o] = Head(q), !.waiting[o] = Tail(q),
                      !.ready = Append(Append(@, Head(q)), t),
                      !.pc[Head(q)] = "locked", !.pc[t] = "loop"]

\* The end of Hub_connection_handler, once ConnectionState_incoming has
\* returned: Hub_exec(CLOSE) asserts hub->closed is not empty and runs
\* ConnectionState_finish on its head (destroying that object's Peer); then
\* the handler task returns.
HubClose(w, t) ==
  IF w.closed = <<>> THEN Raise(w, "closed_empty")
  ELSE LET h == Head(w.closed)
       IN [w EXCEPT !.pst = IF w.opeer[h] = 0 THEN @
                            ELSE [@ EXCEPT ![w.opeer[h]] = "freed"],
                    !.opeer[h] = 0, !.rcv[h] = NoRcv,
                    !.fin[w.life[h]] = TRUE, !.pc[t] = "done"]

\* Fault-injection variant of LogoutBegin: Member_logout without
\* MsgQueue_mark_dead.
LogoutBeginNoDead(w, t, m, site, rest) ==
  [WakeAll(w, m)
     EXCEPT !.ready = Append(@, t), !.pc[t] = "lo", !.tref[t] = m,
            !.tsite[t] = site, !.tacts[t] = rest]

\* Member_logout up to its taskyield: mark the queue dead, wake its
\* sleepers, yield.  The rest of the transition's actions wait in tacts.
LogoutBegin(w, t, m, site, rest) ==
  [WakeAll([w EXCEPT !.mdead[m] = TRUE], m)
     EXCEPT !.ready = Append(@, t), !.pc[t] = "lo", !.tref[t] = m,
            !.tsite[t] = site, !.tacts[t] = rest]

\* ConnectionState_half_close, first part: server_destroy_client closes
\* the client's socket.  The rest (Member_logout when there is a member,
\* then member = NULL) spans a yield: LogoutBegin and LogoutEnd.
HalfCloseClient(w, o) == [w EXCEPT !.fdopen[w.client[o]] = FALSE, !.client[o] = 0]

\* ConnectionState_rest_close: assert half_close ran, then push the object
\* on hub->closed unless it already is the head.
RestClose(w, o) ==
  CASE w.client[o] # 0 -> Raise(w, "rest_close_assert")
    [] w.closed # <<>> /\ Head(w.closed) = o -> w
    [] OTHER -> [w EXCEPT !.closed = <<o>> \o @]

RECURSIVE Exec(_, _, _, _, _), RunActs(_, _, _, _, _), After(_, _, _, _, _),
          ReadMsg(_, _, _), Received(_, _, _), Lock(_, _, _, _, _),
          SendMsg(_, _, _)

\* ConnectionState_exec(state, e) called by task t at call site `site`;
\* io is what the socket operations of this run return.
Exec(w, t, e, site, io) ==
  LET o == w.tobj[t]
  IN IF IsDone(w.cs[o]) THEN After(w, t, site, -1, io)
     ELSE LET tr == Transition(w.cs[o], e)
          IN RunActs([w EXCEPT !.cs[o] = tr.to], t, tr.acts, site, io)

\* The actions of one transition, in order; an fgoto to the Aborting state
\* (cs = 11) skips the rest and makes exec return 0.
RunActs(w, t, acts, site, io) ==
  LET o == w.tobj[t]
      n == w.life[o]
      m == w.member[o]
      r == w.rcv[o]
      a == Head(acts)
      Next1(x) == RunActs(x, t, Tail(acts), site, io)
      Abort(x) == After([x EXCEPT !.cs[o] = 11], t, site, 0, io)
  IN
  IF acts = <<>> THEN After(w, t, site, Invariant(w.cs[o]), io)
  ELSE CASE a \in {"msg_ready", "aborted", "clear_send"} -> Next1(w)
         [] a = "begin" -> Next1([w EXCEPT !.owner[o] = NoTask,
                                           !.waiting[o] = <<>>])
            \* open: ConnectionState_incoming runs nested, to its end
         [] a = "open" -> Exec(w, t, "P", "in_keyp", io)
         [] a = "key_prep" -> Next1([w EXCEPT !.opeer[o] = n,
                                              !.pst[n] = "live"])
            \* tune: Peer_establish_receiver sends and waits for the reply
         [] a = "tune" -> [w EXCEPT !.pc[t] = "hs1", !.tref[t] = w.opeer[o]]
         [] a = "register" ->
              LET p == w.opeer[o]
              IN Next1([w EXCEPT !.member[o] = p, !.mst[p] = "live",
                                 !.mq[p] = 0, !.mdead[p] = FALSE])
         [] a = "established" ->
              LET u == <<n, "out">>
              IN Next1([w EXCEPT !.pc[u] = "loop", !.tobj[u] = o,
                                 !.ready = Append(@, u)])
         [] a = "recv" ->
              CASE r.body = "none" -> Abort(w)
                [] r.body = "undecodable" -> Abort([w EXCEPT !.rcv[o].msg = FALSE])
                [] OTHER -> Next1([w EXCEPT !.rcv[o].msg = TRUE])
         [] a = "msgid_check" -> IF r.body = "badid" THEN Abort(w) ELSE Next1(w)
         [] a = "service" ->
              IF r.body = "unroutable" THEN Abort(w) ELSE Next1(SendTo(w, r.to))
         [] a = "clear_recv" -> Next1([w EXCEPT !.rcv[o] = NoRcv])
         [] a = "sent" ->
              CASE m = 0 -> Raise(w, "null_member")
                [] w.mst[m] = "gone" -> Raise(w, "uaf_member")
                [] OTHER -> Next1([w EXCEPT !.mq[m] = IF @ > 0 THEN @ - 1 ELSE 0])
         [] a = "half_close" ->
              IF w.client[o] = 0 THEN Next1(w)
              ELSE LET w1 == HalfCloseClient(w, o)
                   IN CASE m = 0 -> Next1(w1)
                        [] w.mst[m] = "gone" -> Raise(w1, "uaf_member")
                        [] OTHER -> LogoutBegin(w1, t, m, site, Tail(acts))
         [] a = "rest_close" ->
              LET w1 == RestClose(w, o)
              IN IF w1.fault # "none" THEN w1 ELSE Next1(w1)

\* What the code around each exec call does with its result.
After(w, t, site, rc, io) ==
  LET o == w.tobj[t]
  IN CASE site = "in_keyp" -> Exec(w, t, "1", "in_pass1", io)
       [] site = "in_pass1" -> Exec(w, t, "1", "in_pass2", io)
       [] site = "in_pass2" -> ReadMsg(w, t, io)
       [] site = "in_recv" ->
            IF rc = 0 /\ w.rcv[o].msg THEN Exec(w, t, "s", "in_svc", io)
                                      ELSE Unlock(w, t)
       [] site = "in_svc" -> Unlock(w, t)
          \* incoming returned, and exec(OPEN) with it: the handler goes on
       [] site \in {"in_rclose", "handler"} -> HubClose(w, t)
       [] site = "confirm" -> w
       [] site = "out_queued" -> IF rc = 0 THEN SendMsg(w, t, io) ELSE Unlock(w, t)
       [] site = "out_sent" -> Unlock(w, t)
          \* a failed send breaks out of the loop without unlocking
       [] site = "out_fail" -> Exec(w, t, "w", "out_wclose", io)
       [] site = "out_wclose" -> [w EXCEPT !.pc[t] = "done"]

\* The test of incoming's loop, ConnectionState_read_msg: stop when the
\* machine is done or the client is gone, else Peer_recv on the member's
\* peer, which blocks or returns at once.
ReadMsg(w, t, io) ==
  LET o == w.tobj[t]
      m == w.member[o]
  IN CASE IsDone(w.cs[o]) \/ w.client[o] = 0 -> Exec(w, t, "r", "in_rclose", io)
       [] m = 0 -> Raise(w, "null_member")
       [] w.mst[m] = "gone" -> Raise(w, "uaf_member")
       [] w.pst[m] = "freed" -> Raise(w, "uaf_peer")
       [] io.rd.kind = "block" -> [w EXCEPT !.pc[t] = "recv", !.tref[t] = m]
       [] OTHER -> Received(w, t, io)

\* Peer_recv returned: NULL (end of file, a socket error or a packet that
\* does not decrypt) ends the loop with READ_CLOSE; a message is stored in
\* state->recv and the loop body locks and runs MSG_RECV.
Received(w, t, io) ==
  LET o == w.tobj[t]
  IN IF io.rd.kind = "eof"
       THEN Exec([w EXCEPT !.rcv[o].body = "none"], t, "r", "in_rclose", io)
       ELSE Lock([w EXCEPT !.rcv[o].body = io.rd.kind, !.rcv[o].to = io.rd.to,
                           !.nrecv[t[1]] = @ + 1],
                 t, "R", "in_recv", io)

\* ConnectionState_lock (qlock): take the free lock and go on with the
\* caller's exec, or queue behind the owner.
Lock(w, t, e, site, io) ==
  LET o == w.tobj[t]
  IN IF w.owner[o] = NoTask THEN Exec([w EXCEPT !.owner[o] = t], t, e, site, io)
     ELSE [w EXCEPT !.waiting[o] = Append(@, t), !.pc[t] = "lockwait"]

\* ConnectionState_send_msg: 0 when the machine is done, else Peer_send on
\* state->member->peer, which completes, fails (always, once the socket is
\* closed) or blocks; its result makes outgoing emit MSG_SENT or FAIL.
SendMsg(w, t, io) ==
  LET o == w.tobj[t]
      m == w.member[o]
  IN CASE IsDone(w.cs[o]) -> Exec(w, t, "0", "out_fail", io)
       [] m = 0 -> Raise(w, "null_member")
       [] w.mst[m] = "gone" -> Raise(w, "uaf_member")
       [] w.pst[m] = "freed" -> Raise(w, "uaf_peer")
       [] ~w.fdopen[m] \/ io.snd = "fail" -> Exec(w, t, "0", "out_fail", io)
       [] io.snd = "ok" -> Exec(w, t, "e", "out_sent", io)
       [] OTHER -> [w EXCEPT !.pc[t] = "send", !.tref[t] = m]

\* The test of outgoing's loop, ConnectionState_dequeue_msg: 0 when the
\* machine is done, else Member_first_msg (which asserts the member is not
\* NULL): NULL on a dead queue, sleep on an empty one, else lock and queue.
Dequeue(w, t, io) ==
  LET o == w.tobj[t]
      m == w.member[o]
  IN CASE IsDone(w.cs[o]) -> Exec(w, t, "w", "out_wclose", io)
       [] m = 0 -> Raise(w, "null_member")
       [] w.mst[m] = "gone" -> Raise(w, "uaf_member")
       [] w.mdead[m] -> Exec(w, t, "w", "out_wclose", io)
       [] w.mq[m] = 0 -> [w EXCEPT !.rwait[m] = Append(@, t), !.pc[t] = "asleep",
                                   !.tref[t] = m]
       [] OTHER -> Lock(w, t, "Q", "out_queued", io)

\* MsgQueue_first after tasksleep returns: NULL if the queue died or is
\* still empty, else the head.
Woken(w, t, io) ==
  LET m == w.tref[t]
  IN CASE w.mst[m] = "gone" -> Raise(w, "uaf_member")
       [] w.mdead[m] \/ w.mq[m] = 0 -> Exec(w, t, "w", "out_wclose", io)
       [] OTHER -> Lock(w, t, "Q", "out_queued", io)

\* Fault-injection variant of NewOrReuseConn: reuse the head of
\* hub->closed without removing it from the list.
NewOrReuseConnNoPop(w) ==
  IF w.closed # <<>>
    THEN [w |-> w, o |-> Head(w.closed)]
    ELSE [w |-> [w EXCEPT !.nobj = @ + 1], o |-> w.nobj + 1]

\* Hub_new_or_reuse_conn: pop the head of hub->closed and memset it, or
\* calloc a fresh object; the result is the world and the object.
NewOrReuseConn(w) ==
  IF w.closed # <<>>
    THEN [w |-> [w EXCEPT !.closed = Tail(@)], o |-> Head(w.closed)]
    ELSE [w |-> [w EXCEPT !.nobj = @ + 1], o |-> w.nobj + 1]

\* The socket results a run uses; DefaultIo for runs that do no I/O.
IoOf(rd, snd, hs) == [rd |-> rd, snd |-> snd, hs |-> hs]
DefaultIo == IoOf(NoRead, "ok", "ok")

\* The handshake after the initiator's reply arrives (hs1) or its final
\* message (hs2), inside the tune action of exec(PASS) at line 91 of
\* connection_state.c.  A failure makes tune set cs = 11; in hs1 the key
\* confirm callback runs exec(PASS) nested, which registers the member,
\* before the rest of the reply is checked.
Handshake1(w, t, hs) ==
  LET o == w.tobj[t]
      p == w.tref[t]
      w1 == Exec(w, t, "1", "confirm", DefaultIo)
      confirmed == ~IsDone(w.cs[o]) /\ Invariant(w1.cs[o]) = 0
  IN CASE w.pst[p] = "freed" -> Raise(w, "uaf_peer")
       [] hs = "fail" \/ ~w.fdopen[p] ->
            After([w EXCEPT !.cs[o] = 11], t, "in_pass1", 0, DefaultIo)
       [] w1.fault # "none" -> w1
       [] ~confirmed \/ hs = "confirm_fail" ->
            After([w1 EXCEPT !.cs[o] = 11], t, "in_pass1", 0, DefaultIo)
       [] OTHER -> [w1 EXCEPT !.pc[t] = "hs2"]

Handshake2(w, t, hs, io) ==
  LET o == w.tobj[t]
      p == w.tref[t]
  IN CASE w.pst[p] = "freed" -> Raise(w, "uaf_peer")
       [] hs = "fail" \/ ~w.fdopen[p] ->
            After([w EXCEPT !.cs[o] = 11], t, "in_pass1", 0, io)
       [] OTHER -> After(w, t, "in_pass1", Invariant(w.cs[o]), io)

\* Peer_send, blocked, returns.
SendDone(w, t, ok) ==
  CASE w.pst[w.tref[t]] = "freed" -> Raise(w, "uaf_peer")
    [] ok -> Exec(w, t, "e", "out_sent", DefaultIo)
    [] OTHER -> Exec(w, t, "0", "out_fail", DefaultIo)

\* Member_logout after its taskyield: sglib_Member_delete_if_member and
\* Member_destroy; half_close sets state->member = NULL and the transition
\* goes on with the actions after half_close.
LogoutEnd(w, t) ==
  LET o == w.tobj[t]
      m == w.tref[t]
  IN RunActs([w EXCEPT !.mst[m] = "gone", !.member[o] = 0, !.tsite[t] = "none",
                       !.tacts[t] = <<>>],
             t, w.tacts[t], w.tsite[t], DefaultIo)

-----------------------------------------------------------------------------
(***************************************************************************)
(* Actions.  A task step is taken by the task at the head of the ready     *)
(* queue; it is popped first and the code it runs puts it back, blocks it  *)
(* or ends it.  A task that finds its object serving another life has no  *)
(* meaning left in the model: that is the fault "stale".                   *)
(***************************************************************************)
Running(t, p) == /\ fault = "none"
                 /\ ready # <<>> /\ Head(ready) = t
                 /\ pc[t] = p

Popped == [W EXCEPT !.ready = Tail(@)]

TaskRuns(t, w) == Set(IF life[tobj[t]] = t[1] THEN w ELSE Raise(Popped, "stale"))

\* A read result is a message only while the client has messages to send.
CanRead(t, rd) == rd.kind \in ClientMsgs => nrecv[t[1]] < MaxRecv

\* The listener accepts a client and creates its handler task.
Accept == /\ fault = "none"
          /\ accepted < MaxAccepts
          /\ LET n == accepted + 1
             IN Set([W EXCEPT !.accepted = n, !.fdopen[n] = TRUE,
                              !.ready = Append(@, <<n, "in">>),
                              !.pc[<<n, "in">>] = "open"])

\* Hub_connection_handler: Hub_exec(OPEN) (no action in the listening
\* state), Hub_queue_conn (new or reused object, ConnectionState_init, exec
\* OPEN), which runs incoming up to the first handshake wait.
Open(t) ==
  /\ Running(t, "open")
  /\ LET r == NewOrReuseConn(Popped)
         o == r.o
         w == [r.w EXCEPT !.cs[o] = 1, !.client[o] = t[1], !.member[o] = 0,
                          !.opeer[o] = 0, !.rcv[o] = NoRcv, !.owner[o] = NoTask,
                          !.waiting[o] = <<>>, !.life[o] = t[1], !.tobj[t] = o]
     IN Set(Exec(w, t, "O", "handler", DefaultIo))

HandshakeRecv1(t) ==
  /\ Running(t, "hs1r")
  /\ \E hs \in HsResults : TaskRuns(t, Handshake1(Popped, t, hs))

HandshakeRecv2(t) ==
  /\ Running(t, "hs2r")
  /\ \E hs \in {"fail", "ok"}, rd \in ReadResults :
       /\ CanRead(t, rd)
       /\ TaskRuns(t, Handshake2(Popped, t, hs, IoOf(rd, "ok", "ok")))

\* Incoming at the top of its loop, after the unlock's taskyield.
IncomingLoop(t) ==
  /\ Running(t, "loop") /\ t[2] = "in"
  /\ \E rd \in ReadResults :
       /\ CanRead(t, rd)
       /\ TaskRuns(t, ReadMsg(Popped, t, IoOf(rd, "ok", "ok")))

\* Peer_recv, blocked, returns; once the socket is closed it returns NULL.
IncomingRecvDone(t) ==
  /\ Running(t, "recvr")
  /\ \E rd \in ReadResults :
       /\ rd.kind # "block" /\ CanRead(t, rd)
       /\ ~fdopen[tref[t]] => rd.kind = "eof"
       /\ TaskRuns(t, IF pst[tref[t]] = "freed" THEN Raise(Popped, "uaf_peer")
                      ELSE Received(Popped, t, IoOf(rd, "ok", "ok")))

\* A task handed the lock by qunlock runs the exec it locked for:
\* incoming's MSG_RECV, outgoing's MSG_QUEUED.
Locked(t) ==
  /\ Running(t, "locked")
  /\ \E s \in SendResults :
       TaskRuns(t, IF t[2] = "in"
                     THEN Exec(Popped, t, "R", "in_recv", DefaultIo)
                     ELSE Exec(Popped, t, "Q", "out_queued", IoOf(NoRead, s, "ok")))

OutgoingLoop(t) ==
  /\ Running(t, "loop") /\ t[2] = "out"
  /\ \E s \in SendResults : TaskRuns(t, Dequeue(Popped, t, IoOf(NoRead, s, "ok")))

OutgoingWoken(t) ==
  /\ Running(t, "woken")
  /\ \E s \in SendResults : TaskRuns(t, Woken(Popped, t, IoOf(NoRead, s, "ok")))

OutgoingSendDone(t) ==
  /\ Running(t, "sendr")
  /\ \E ok \in BOOLEAN :
       /\ ~fdopen[tref[t]] => ~ok
       /\ TaskRuns(t, SendDone(Popped, t, ok))

LogoutResume(t) ==
  /\ Running(t, "lo")
  /\ TaskRuns(t, LogoutEnd(Popped, t))

\* The socket a task waits on becomes ready (data, space, an error, or
\* the descriptor closed): libtask's fdtask readies the task.
IoReady(t) ==
  /\ fault = "none"
  /\ pc[t] \in BlockedIo
  /\ Set([W EXCEPT !.ready = Append(@, t),
                   !.pc[t] = CASE pc[t] = "hs1" -> "hs1r"
                               [] pc[t] = "hs2" -> "hs2r"
                               [] pc[t] = "recv" -> "recvr"
                               [] OTHER -> "sendr"])

TaskStep(t) == \/ Open(t) \/ HandshakeRecv1(t) \/ HandshakeRecv2(t)
               \/ IncomingLoop(t) \/ IncomingRecvDone(t) \/ Locked(t)
               \/ OutgoingLoop(t) \/ OutgoingWoken(t)
               \/ OutgoingSendDone(t) \/ LogoutResume(t)

Next == \/ Accept
        \/ \E t \in Tasks : TaskStep(t) \/ IoReady(t)

\* The scheduler can run a task exactly when the ready queue is non-empty:
\* every pc a queued task can have is taken by one of TaskStep's actions.
CanSchedule == ready # <<>> /\ fault = "none"

\* libtask always runs the head of the ready queue: weak fairness of the
\* scheduler, written with CanSchedule for its ENABLED.  Nothing makes a
\* client answer, read or hang up, so no socket wait is assumed to end.
Fairness == \/ []<>~CanSchedule
            \/ []<><<\E t \in Tasks : TaskStep(t)>>_vars

Spec == Init /\ [][Next]_vars /\ Fairness

\* The same with live clients: every socket wait ends (data, buffer space,
\* an error or a hang-up), as libtask's fdtask readies the waiting task.
LiveClientSpec == Spec /\ \A t \in Tasks : WF_vars(IoReady(t))

-----------------------------------------------------------------------------
(* Properties. *)

\* Member_logout marks the queue dead, wakes its sleepers and yields before
\* Member_destroy frees it: no task ever uses a destroyed Member, and none
\* is left asleep on the freed queue's rendez.
MemberFreedSafely == /\ fault # "uaf_member"
                     /\ \A m \in Lives : mst[m] = "gone" => rwait[m] = <<>>

\* hub->closed, built by rest_close and consumed by Hub_new_or_reuse_conn,
\* never holds an object twice (SGLIB_LIST_ADD would make a cycle) and holds
\* only objects whose machine is in the error or final state.
ClosedListWellFormed ==
  \A k \in DOMAIN closed :
     /\ cs[closed[k]] \in {0, 14}
     /\ \A l \in DOMAIN closed : l # k => closed[l] # closed[k]

\* No assert or libtask check aborts the hub: Hub_exec(CLOSE) always finds
\* hub->closed non-empty, rest_close always runs after half_close, and
\* qunlock is never called on a free lock.
NoAssertAbort == fault \notin {"closed_empty", "rest_close_assert", "qunlock_unowned"}

\* A message queued for a member is eventually sent by its connection's
\* outgoing task, unless the member logs out or the connection waits on
\* its client: in Peer_send, or in the last handshake read (the member is
\* registered, so routable, one exec before the outgoing task exists).
\* Member_send_msg's wake-up is never lost and the outgoing task is never
\* stuck on the lock.
WaitsOnClient(n) == pc[<<n, "out">>] = "send" \/ pc[<<n, "in">>] = "hs2"

QueuedMsgSent == \A m \in Lives, k \in 1..Cap :
                   (mq[m] = k) ~> \/ mq[m] < k \/ mdead[m] \/ fault # "none"
                                  \/ WaitsOnClient(m)

\* The outgoing task never calls Peer_send or Member_first_msg on a NULL
\* state->member.
NoNullMemberDeref == fault # "null_member"

\* No task resumes a Peer operation on a Peer that ConnectionState_finish
\* has destroyed.
NoPeerUseAfterFinish == fault # "uaf_peer"

\* No task runs on a ConnectionState that has been recycled for another
\* client.
NoStaleTask == fault # "stale"

\* Only the incoming task ever waits for a connection's lock: incoming
\* blocks with the lock held only inside Member_logout, after marking the
\* queue dead, so outgoing's next Member_first_msg returns NULL instead of
\* reaching ConnectionState_lock.
OnlyIncomingWaits == \A t \in Tasks : pc[t] = "lockwait" => t[2] = "in"

\* A task waiting for a connection's lock eventually gets it.
LockWaitEnds == \A t \in Tasks :
                  pc[t] = "lockwait" ~> (pc[t] # "lockwait" \/ fault # "none")
====
