------------------------------ MODULE HubService ------------------------------
(***************************************************************************)
(* The hub's message service: what happens to a Message between Peer_recv *)
(* and the queues of the members it is routed to (hub/commands.c,          *)
(* hub/routing.c, hub/heap.c, protocol/message.c, hub/queue.c), with the  *)
(* member directory of MemberDirectory composed in.                       *)
(*                                                                         *)
(* Each connection is served as in HubConn; here a connection is named by *)
(* its member's id and its incoming work is one step per received message *)
(* (the MSG_RECV and SVC_RECV execs run under the connection lock with no *)
(* suspension point: recv, msgid_check, service, clear_recv).  The         *)
(* outgoing task's Peer_send may block with state->send.msg set.  A close  *)
(* runs half_close (Route_unregister_all, then Member_logout up to its     *)
(* yield), the rest of Member_logout, and later ConnectionState_finish.    *)
(*                                                                         *)
(* A Message is an id with its ref_count; its hdr and body Nodes are       *)
(* freed with it.  A route is the path of Node names that reaches it from  *)
(* the root.  A heap of members is a count per member (Heap_add has no     *)
(* duplicate check), iterated in address order, which is taken to be the  *)
(* order the members were allocated in.                                    *)
(***************************************************************************)
EXTENDS Integers, Sequences, FiniteSets, SequencesExt

CONSTANTS
    Keys, MaxLogins, MaxPerKey, MemcmpDiff,  \* of MemberDirectory
    UserPaths,  \* paths clients register on and send to
    Targets,    \* the routes clients address messages to
    Args,       \* the inner paths of route/register and route/unregister
    Dim,        \* MEMBER_MSG_QUEUE_LENGTH: ring slots (Dim - 1 messages)
    MaxMsgs     \* Messages allocated over a behaviour

VARIABLES tree, mkey, mst, nlog

MD == INSTANCE MemberDirectory

VARIABLES
    routes,    \* the paths of the Route nodes below hub->routes
    rmembers,  \* rmembers[p][m]: copies of member m in route p's members heap
    mroutes,   \* mroutes[m][p]: copies of route p in member m's routes heap
    q,         \* q[m]: the Messages in member m's queue, oldest first
    ref,       \* ref[i]: Message i's ref_count
    freed,     \* freed[i]: Message i, its hdr and its body are freed
    nmsg,      \* Messages allocated so far
    dropped,   \* a full queue refused a Message and no caller reported it
    fault,     \* "none", or the memory error a step made
    cst,       \* cst[m]: the state of member m's connection
    recv,      \* recv[m]: state->recv: .msg the Message, .nodes whose hdr/body
    sendmsg    \* sendmsg[m]: state->send.msg (0: NULL)

Ids == 1..MaxLogins
MsgIds == 1..MaxMsgs
CStates == {"none", "open", "abort", "dying", "closed", "done"}

\* The fields of the state a service step changes, as one record.
W == [routes |-> routes, rmembers |-> rmembers, mroutes |-> mroutes, q |-> q,
      ref |-> ref, freed |-> freed, nmsg |-> nmsg, dropped |-> dropped,
      fault |-> fault]

Store(w) ==
    /\ routes' = w.routes /\ rmembers' = w.rmembers /\ mroutes' = w.mroutes
    /\ q' = w.q /\ ref' = w.ref /\ freed' = w.freed /\ nmsg' = w.nmsg
    /\ dropped' = w.dropped /\ fault' = w.fault

Result(w, ok) == [w |-> w, ok |-> ok]

-----------------------------------------------------------------------------
(* The route tree *)

\* The nodes a path walks through: its non-empty prefixes.
PathNodes(p) == Prefixes(p) \ {<<>>}

\* The registrations table: each hub command's path and what its callback
\* does with the sender and the inner message.
Registrations ==
       (<<"route", "register">>   :> "register")
    @@ (<<"route", "unregister">> :> "unregister")
    @@ (<<"route", "members">>    :> "reply")
    @@ (<<"route", "children">>   :> "reply")
    @@ (<<"member", "register">>  :> "reply")
    @@ (<<"member", "mendicate">> :> "reply")
    @@ (<<"member", "invite">>    :> "reply")
    @@ (<<"member", "send">>      :> "reply")
    @@ (<<"info", "get">>         :> "checked")
    @@ (<<"info", "list">>        :> "checked")
    @@ (<<"info", "tag">>         :> "checked")
    @@ (<<"system", "ping">>      :> "checked")

Internal == DOMAIN Registrations

\* Every path a route may get: the command paths and what clients name.
AllPaths == UNION {PathNodes(p) : p \in Internal \cup UserPaths \cup Args \cup Targets}

\* Hub_commands_register: Route_register_callback on each registration,
\* whose Route_extend_and_find creates the path's missing nodes.
HubCommandsRegister == UNION {PathNodes(p) : p \in Internal}

\* Route_find: walk from the root, NULL at the first missing child.
RouteFind(w, p) == p \in w.routes

\* Route_extend_and_find: Route_add creates every missing node of the path.
RouteExtendAndFind(w, p) == [w EXCEPT !.routes = @ \cup PathNodes(p)]

\* Route_register: extend the tree, then Route_add_member, which refuses a
\* route marked internal and otherwise adds each to the other's heap.
RouteRegister(w, m, p) ==
    LET w1 == RouteExtendAndFind(w, p)
    IN  IF p \in Internal THEN Result(w1, FALSE)
        ELSE Result([w1 EXCEPT !.rmembers[p][m] = @ + 1,
                               !.mroutes[m][p] = @ + 1], TRUE)

\* Heap_delete: remove one copy if the binary search finds one.
HeapDelete(cnt, x) == IF cnt[x] > 0 THEN [cnt EXCEPT ![x] = @ - 1] ELSE cnt

\* Mutant: only the route's heap forgets the member.
RouteUnregisterOneSide(w, m, p) ==
    IF ~RouteFind(w, p) THEN Result(w, FALSE)
    ELSE Result([w EXCEPT !.rmembers[p] = HeapDelete(@, m)], TRUE)

\* Route_unregister: 0 when the route does not exist; else one copy of
\* each is deleted from the other's heap.
RouteUnregister(w, m, p) ==
    IF ~RouteFind(w, p) THEN Result(w, FALSE)
    ELSE Result([w EXCEPT !.rmembers[p] = HeapDelete(@, m),
                          !.mroutes[m] = HeapDelete(@, p)], TRUE)

\* Mutant: half_close leaves the member on its routes.
RouteUnregisterAllNoop(w, m) == w

\* Route_unregister_all: for each entry of the member's routes heap, one
\* Heap_delete from that route's members; then Heap_clear.
RouteUnregisterAll(w, m) ==
    LET left(p) == w.rmembers[p][m] - w.mroutes[m][p]
    IN  [w EXCEPT !.rmembers = [p \in AllPaths |->
                     [w.rmembers[p] EXCEPT ![m] = IF left(p) > 0 THEN left(p) ELSE 0]],
                  !.mroutes[m] = [p \in AllPaths |-> 0]]

\* HEAP_ITERATE over a members heap: ascending addresses, a member added
\* twice visited twice.
HeapOrder(cnt) ==
    LET ids == SetToSortSeq({m \in Ids : cnt[m] > 0}, <)
    IN  FlattenSeq([k \in 1..Len(ids) |-> [c \in 1..cnt[ids[k]] |-> ids[k]]])

-----------------------------------------------------------------------------
(* Messages and queues *)

\* A freed Message that a member queue still points to is a use after free
\* at the next send or delete of that queue.
Settle(w) ==
    IF w.fault = "none" /\ \E m \in Ids : \E k \in 1..Len(w.q[m]) : w.freed[w.q[m][k]]
      THEN [w EXCEPT !.fault = "freed_queued"] ELSE w

\* Message_destroy: decrement, assert the count is not negative, free the
\* hdr, the body and the Message at zero.  On freed memory it is a double
\* free.
MessageDestroy(w, i) ==
    LET r == w.ref[i] - 1
    IN  CASE w.freed[i] -> [w EXCEPT !.fault = "double_free"]
          [] r < 0      -> [w EXCEPT !.fault = "ref_assert"]
          [] OTHER      -> [w EXCEPT !.ref[i] = r, !.freed[i] = (r = 0)]

\* Node_destroy of a received hdr and body.
NodeDestroy(w, i) == IF w.freed[i] THEN [w EXCEPT !.fault = "double_free"]
                     ELSE [w EXCEPT !.freed[i] = TRUE]

\* Message_alloc: a fresh Message with ref_count 0.
MessageAlloc(w) == [w EXCEPT !.nmsg = @ + 1]

\* Mutant: the full test is off by one, so the ring's sentinel slot fills.
MemberSendMsgOverfill(w, m, i) ==
    IF Len(w.q[m]) >= Dim THEN Result(w, FALSE)
    ELSE Result([w EXCEPT !.q[m] = Append(@, i), !.ref[i] = @ + 1], TRUE)

\* Mutant: the queue takes the Message without a reference.
MemberSendMsgNoRef(w, m, i) ==
    IF Len(w.q[m]) >= Dim - 1 THEN Result(w, FALSE)
    ELSE Result([w EXCEPT !.q[m] = Append(@, i)], TRUE)

\* Member_send_msg: 0 on a full queue, else MsgQueue_add (which takes a
\* reference) and wake the readers.
MemberSendMsg(w, m, i) ==
    IF Len(w.q[m]) >= Dim - 1 THEN Result(w, FALSE)
    ELSE Result([w EXCEPT !.q[m] = Append(@, i), !.ref[i] = @ + 1], TRUE)

\* MsgQueue_delete of the head: destroy it, then advance.
MsgQueueDelete(w, m) == [MessageDestroy(w, Head(w.q[m])) EXCEPT !.q[m] = Tail(@)]

\* MsgQueue_destroy: delete until empty.
RECURSIVE MsgQueueDestroy(_, _)
MsgQueueDestroy(w, m) ==
    IF w.q[m] = <<>> \/ w.fault # "none" THEN w
    ELSE MsgQueueDestroy(MsgQueueDelete(w, m), m)

-----------------------------------------------------------------------------
(* Servicing a received Message *)

\* Route_deliver: Member_send_msg to each member in heap order; the first
\* refusal ends the loop with -1, after the members before it got it.
RECURSIVE DeliverTo(_, _, _)
DeliverTo(w, i, ms) ==
    IF ms = <<>> THEN Result(w, TRUE)
    ELSE LET r == MemberSendMsg(w, Head(ms), i)
         IN  IF r.ok THEN DeliverTo(r.w, i, Tail(ms)) ELSE r

RouteDeliver(w, p, i) == DeliverTo(w, i, HeapOrder(w.rmembers[p]))

\* send_response: Message_alloc a reply and Member_send_msg it to the
\* sender; the result is ignored.
SendResponse(w, m) ==
    LET w1 == MessageAlloc(w)
        r  == MemberSendMsg(w1, m, w1.nmsg)
    IN  IF r.ok THEN r.w ELSE [r.w EXCEPT !.dropped = TRUE]

\* The callbacks: extract_message NULL (an empty inner path) fails first;
\* register and unregister return the Route call's result; the others
\* answer the sender, the checked ones (ping, info) after a check of the
\* request that may fail.
Callback(w, m, t, a, valid) ==
    LET kind == Registrations[t]
    IN  CASE a = <<>>              -> Result(w, FALSE)
          [] kind = "register"     -> RouteRegister(w, m, a)
          [] kind = "unregister"   -> RouteUnregister(w, m, a)
          [] kind = "checked" /\ ~valid -> Result(w, FALSE)
          [] OTHER                 -> Result(SendResponse(w, m), TRUE)

\* Hub_service_message: no route fails; an internal route runs its
\* callback; else Route_deliver, whose count is only logged.
HubServiceMessage(w, m, t, a, valid, i) ==
    CASE ~RouteFind(w, t) -> Result(w, FALSE)
      [] t \in Internal   -> Callback(w, m, t, a, valid)
      [] OTHER ->
           LET r == RouteDeliver(w, t, i)
           IN  Result(IF r.ok THEN r.w ELSE [r.w EXCEPT !.dropped = TRUE], TRUE)

\* What a client may send: a frame that Message_decons rejects, a Message
\* with the wrong msgid, or a Message for route t with inner path a.
Inputs ==
    {[k |-> "undecodable", to |-> <<>>, arg |-> <<>>, valid |-> TRUE],
     [k |-> "badid", to |-> <<>>, arg |-> <<>>, valid |-> TRUE]}
    \cup {[k |-> "msg", to |-> t, arg |-> a, valid |-> v] :
            t \in Targets, a \in Args \cup {<<>>}, v \in BOOLEAN}

\* Messages a received input may allocate: itself and a reply.
Allocs(in) == IF in.k = "msg" /\ in.to \in Internal THEN 2 ELSE 1

-----------------------------------------------------------------------------
(* Actions *)

\* The register action's Member_login: the connection is established.
Login(k) ==
    /\ fault = "none"
    /\ MD!Login(k)
    /\ cst' = [cst EXCEPT ![nlog + 1] = "open"]
    /\ UNCHANGED <<routes, rmembers, mroutes, q, ref, freed, nmsg, dropped,
                   fault, recv, sendmsg>>

\* One frame received by incoming, under the lock: the recv action's
\* Message_decons, then (exec SVC_RECV) msgid_check, service and
\* clear_recv.  A failure sets cs to Aborting and skips what follows it.
Receive(m, in) ==
    /\ fault = "none" /\ cst[m] = "open"
    /\ nmsg + Allocs(in) <= MaxMsgs
    /\ LET w0 == MessageAlloc(W)
           i  == w0.nmsg
           r  == HubServiceMessage(w0, m, in.to, in.arg, in.valid, i)
       IN  CASE in.k = "undecodable" ->
                  \* Message_decons: ref_inc, a check fails, Message_destroy
                  \* frees the hdr and body that state->recv still holds
                  /\ Store(MessageDestroy([w0 EXCEPT !.ref[i] = 1], i))
                  /\ recv' = [recv EXCEPT ![m] = [msg |-> 0, nodes |-> i]]
                  /\ cst' = [cst EXCEPT ![m] = "abort"]
             [] in.k = "badid" ->
                  \* msgid_check: Message_ref_inc ("we own it now")
                  /\ Store([w0 EXCEPT !.ref[i] = 1])
                  /\ recv' = [recv EXCEPT ![m] = [msg |-> i, nodes |-> i]]
                  /\ cst' = [cst EXCEPT ![m] = "abort"]
             [] r.ok ->
                  \* clear_recv drops the pointers
                  /\ Store(r.w)
                  /\ UNCHANGED <<recv, cst>>
             [] OTHER ->
                  \* the service action fails: on_fail's Message_ref_inc
                  /\ Store([r.w EXCEPT !.ref[i] = @ + 1])
                  /\ recv' = [recv EXCEPT ![m] = [msg |-> i, nodes |-> i]]
                  /\ cst' = [cst EXCEPT ![m] = "abort"]
    /\ UNCHANGED <<tree, mkey, mst, nlog, sendmsg>>

\* Outgoing: ConnectionState_dequeue_msg sets send.msg to the queue's head
\* (no reference taken), then lock, MSG_QUEUED and Peer_send, which blocks.
SendBegin(m) ==
    /\ fault = "none" /\ cst[m] = "open"
    /\ sendmsg[m] = 0 /\ q[m] # <<>>
    /\ sendmsg' = [sendmsg EXCEPT ![m] = Head(q[m])]
    /\ UNCHANGED <<tree, mkey, mst, nlog, routes, rmembers, mroutes, q, ref,
                   freed, nmsg, dropped, fault, cst, recv>>

\* Peer_send returns: MSG_SENT's sent action (Member_delete_msg), then
\* clear_send.
SendDone(m) ==
    /\ fault = "none" /\ cst[m] = "open" /\ sendmsg[m] # 0
    /\ Store(Settle(MsgQueueDelete(W, m)))
    /\ sendmsg' = [sendmsg EXCEPT ![m] = 0]
    /\ UNCHANGED <<tree, mkey, mst, nlog, cst, recv>>

\* ConnectionState_half_close up to Member_logout's yield:
\* Route_unregister_all, then mark the queue dead and wake it.
HalfClose(m) ==
    /\ Store(RouteUnregisterAll(W, m))
    /\ MD!LogoutBegin(m)
    /\ cst' = [cst EXCEPT ![m] = "dying"]

\* A close event (end of file, or any event once Aborting) runs half_close,
\* whether or not outgoing is blocked in Peer_send.  A failed Peer_send
\* (FAIL's clear_send, then outgoing's WRITE_CLOSE) reaches the state a
\* close before the dequeue reaches, so it is this step too.
Close(m) ==
    /\ fault = "none" /\ cst[m] \in {"open", "abort"}
    /\ HalfClose(m)
    /\ UNCHANGED <<recv, sendmsg>>

\* Member_logout after the yield: unlink, Member_destroy (MsgQueue_destroy
\* deletes every queued Message); then rest_close.
LogoutResume(m) ==
    /\ fault = "none" /\ cst[m] = "dying"
    /\ MD!LogoutEnd(m)
    /\ Store(Settle(MsgQueueDestroy(W, m)))
    /\ cst' = [cst EXCEPT ![m] = "closed"]
    /\ UNCHANGED <<recv, sendmsg>>

\* ConnectionState_finish: Message_destroy of recv.msg, or Node_destroy
\* of recv's body and hdr when there is no Message; Message_destroy of
\* send.msg; then the pointers are cleared.
Finish(m) ==
    /\ fault = "none" /\ cst[m] = "closed"
    /\ LET w1 == CASE recv[m].msg # 0   -> MessageDestroy(W, recv[m].msg)
                   [] recv[m].nodes # 0 -> NodeDestroy(W, recv[m].nodes)
                   [] OTHER             -> W
           w2 == IF sendmsg[m] # 0 /\ w1.fault = "none"
                   THEN MessageDestroy(w1, sendmsg[m]) ELSE w1
       IN  Store(Settle(w2))
    /\ recv' = [recv EXCEPT ![m] = [msg |-> 0, nodes |-> 0]]
    /\ sendmsg' = [sendmsg EXCEPT ![m] = 0]
    /\ cst' = [cst EXCEPT ![m] = "done"]
    /\ UNCHANGED <<tree, mkey, mst, nlog>>

Init ==
    /\ MD!Init
    /\ routes = HubCommandsRegister
    /\ rmembers = [p \in AllPaths |-> [m \in Ids |-> 0]]
    /\ mroutes = [m \in Ids |-> [p \in AllPaths |-> 0]]
    /\ q = [m \in Ids |-> <<>>]
    /\ ref = [i \in MsgIds |-> 0]
    /\ freed = [i \in MsgIds |-> FALSE]
    /\ nmsg = 0
    /\ dropped = FALSE
    /\ fault = "none"
    /\ cst = [m \in Ids |-> "none"]
    /\ recv = [m \in Ids |-> [msg |-> 0, nodes |-> 0]]
    /\ sendmsg = [m \in Ids |-> 0]

Next ==
    \/ \E k \in Keys : Login(k)
    \/ \E m \in Ids :
         \/ \E in \in Inputs : Receive(m, in)
         \/ SendBegin(m) \/ SendDone(m)
         \/ Close(m) \/ LogoutResume(m) \/ Finish(m)

vars == <<tree, mkey, mst, nlog, routes, rmembers, mroutes, q, ref, freed,
          nmsg, dropped, fault, cst, recv, sendmsg>>

Spec == Init /\ [][Next]_vars

-----------------------------------------------------------------------------
(* Properties *)

TypeOK ==
    /\ MD!TypeOK
    /\ HubCommandsRegister \subseteq routes /\ routes \subseteq AllPaths
    /\ rmembers \in [AllPaths -> [Ids -> Nat]]
    /\ mroutes \in [Ids -> [AllPaths -> Nat]]
    /\ \A m \in Ids : q[m] \in Seq(1..nmsg) /\ Len(q[m]) < Dim
    /\ ref \in [MsgIds -> Nat] /\ freed \in [MsgIds -> BOOLEAN]
    /\ nmsg \in 0..MaxMsgs
    /\ cst \in [Ids -> CStates]
    /\ recv \in [Ids -> [msg : 0..nmsg, nodes : 0..nmsg]]
    /\ sendmsg \in [Ids -> 0..nmsg]

\* The two heaps Route_register fills agree: member m is in route p's
\* members as often as p is in m's routes, through any sequence of
\* registers, unregisters and closes.  Route_unregister_all walks only the
\* member's side, so a route that kept a member the other side forgot
\* would keep it after the member is destroyed.
RoutesMirror == \A p \in AllPaths, m \in Ids : rmembers[p][m] = mroutes[m][p]

\* Only a logged-in member of an open connection is in a route's members:
\* half_close unregisters it before Member_logout yields, so no delivery
\* of another connection reaches a member being logged out or freed.
RoutedMembersLive ==
    \A p \in AllPaths, m \in Ids :
        rmembers[p][m] > 0 => mst[m] = "live" /\ cst[m] \in {"open", "abort"}

\* The ref_count of every allocated Message that is not freed is the number
\* of queue slots holding it, plus one while a connection owns it as
\* state->recv.msg after a failure: queue adds and deletes, the decons
\* increment and decrement, and the failure increments balance.
Holders(i) ==
    Cardinality({<<m, k>> \in Ids \X (1..Dim) : k <= Len(q[m]) /\ q[m][k] = i})
    + Cardinality({m \in Ids : recv[m].msg = i})

RefCountIsHolders == \A i \in 1..nmsg : ~freed[i] => ref[i] = Holders(i)

\* No Message, hdr or body is freed twice, and none is freed while a member
\* queue still holds it (spec 3.3: malformed input never crashes the hub;
\* spec 2: a Message is destroyed when its reference count reaches zero).
MessageMemorySafe == fault = "none"

\* A Message refused by a full queue is reported as a delivery failure,
\* never silently dropped (spec 4.6 and 4.7): checks Route_deliver's -1
\* and send_response against what their callers do with them.
NoSilentDrop == ~dropped

DirectoryLive == MD!DirectoryLive

====
