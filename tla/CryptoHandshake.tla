--------------------------- MODULE CryptoHandshake ---------------------------
(***************************************************************************)
(* The four-message key agreement of protocol/crypto.c, run by the hub as *)
(* receiver (Peer_establish_receiver, protocol/peer.c) and by the client   *)
(* proxy as initiator (Proxy_connect, client/proxy.c), followed by the     *)
(* encrypted data phase (Peer_send/Peer_recv, Proxy_hub_send/recv).        *)
(*                                                                         *)
(* Every connection s is a pair of parties <<s,"R">> and <<s,"I">> joined *)
(* by a TCP stream per direction (chan). Hub and client use long-term ECC *)
(* keys (CryptState_create(hub->name, hub->key)), so the ECDH secret K is *)
(* the same for every connection between them. A random 128-bit nonce is *)
(* a value no other draw produces, tagged with the party and the call     *)
(* site; CryptState_nonce_inc counts up from it. CCM decryption succeeds  *)
(* only with the key and nonce the packet was encrypted under.            *)
(*                                                                         *)
(* The network may close a connection at any time and may replay, into    *)
(* any stream, a copy of a frame it has seen, of a kind in Replayable.     *)
(***************************************************************************)
EXTENDS Naturals, Sequences, Bags

CONSTANTS
    Conns,       \* connection ids
    MaxData,     \* data packets each party sends
    MaxInject,   \* frames the network may replay
    Replayable   \* frame kinds the network may replay

Roles == {"R", "I"}
Parties == Conns \X Roles
Peer(p) == <<p[1], IF p[2] = "R" THEN "I" ELSE "R">>

K == <<"shared">>    \* ecc_shared_secret of the two long-term keys
Zeroed == <<"zero">> \* memset to 0
None == <<"none">>   \* NULL session buffer or unscheduled key

Pcs == {"start", "init", "final", "resp", "estab", "ended", "failed"}
Kinds == {"start", "init", "resp", "final", "data"}

VARIABLES
    st,        \* st[p]: the CryptState and program counter of party p
    chan,      \* chan[p]: frames in flight to p
    closed,    \* closed[s]: connection s was closed by one side
    encs,      \* bag of the <<key, nonce>> pairs encryptions used
    seen,      \* every frame sent so far
    sent,      \* data packets sent by p
    got,       \* frames accepted by p's data phase, in order
    injected   \* frames replayed by the network

vars == <<st, chan, closed, encs, seen, sent, got, injected>>

-----------------------------------------------------------------------------
(* Nonces and keys. *)

\* CryptState_create_nonce: a fresh random draw at call site `site`.
CreateNonce(p, site) == [r |-> <<p, site>>, k |-> 0]

ZeroNonce == [r |-> Zeroed, k |-> 0]

\* Mutant: the increment is lost.
NonceIncNoop(n) == n

\* CryptState_nonce_inc: both 64-bit halves are incremented.
NonceInc(n) == [n EXCEPT !.k = @ + 1]

\* CryptState_rand_sess: p's own random session key.
OwnSession(p) == <<"session", p>>

\* CryptState_create: calloc'ed state, a fresh session key.
CryptStateCreate(p) ==
    [pc |-> "start", mnonce |-> ZeroNonce, tnonce |-> ZeroNonce,
     msess |-> OwnSession(p), tsess |-> None, shared |-> None,
     mskey |-> None, tskey |-> None]

-----------------------------------------------------------------------------
(* Packets. A frame is its kind, the key and nonce it was encrypted under *)
(* (none for the cleartext first message), and an abstract body.         *)

\* CryptState_encrypt_node/encrypt_packet: CCM under `key` and them.nonce,
\* then them.nonce is incremented.
EncryptPacket(s, key, kind, body) ==
    [frame |-> [kind |-> kind, key |-> key, nonce |-> s.tnonce, body |-> body],
     st |-> [s EXCEPT !.tnonce = NonceInc(@)]]

\* Mutant: the plaintext is returned although the tag does not match.
DecryptPacketNoTagCheck(s, key, f) ==
    [ok |-> f.kind # "start",
     st |-> IF f.kind = "start" THEN s ELSE [s EXCEPT !.mnonce = NonceInc(@)]]

\* CryptState_decrypt_node/decrypt_packet: the envelope decons fails on the
\* cleartext first message (no CRYPT_ENV_MSG) and leaves me.nonce; otherwise
\* me.nonce is incremented whether or not the tag then matches.
DecryptPacket(s, key, f) ==
    [ok |-> f.kind # "start" /\ f.key = key /\ f.nonce = s.mnonce,
     st |-> IF f.kind = "start" THEN s ELSE [s EXCEPT !.mnonce = NonceInc(@)]]

\* Mutant: the two session keys are scheduled into each other's slots.
FinalizeSessionSwapped(s) ==
    [s EXCEPT !.mskey = s.tsess, !.tskey = s.msess,
              !.shared = Zeroed, !.msess = None, !.tsess = None]

\* CryptState_finalize_session: schedule both session keys, then (ensure)
\* zero the shared key and destroy both session buffers.
FinalizeSession(s) ==
    [s EXCEPT !.mskey = s.msess, !.tskey = s.tsess,
              !.shared = Zeroed, !.msess = None, !.tsess = None]

\* CryptState_create_shared_key: decons the header ("[bnnw" with the
\* receiver's nonce when nonced, "[bw" otherwise), import their key, ask
\* key_confirm, derive K.
SharedKeyOk(f, nonced) == IF nonced THEN f.kind = "start" ELSE f.kind = "init"
CreateSharedKey(s, f, nonced) ==
    [s EXCEPT !.tnonce = IF nonced THEN f.body ELSE @, !.shared = K]

-----------------------------------------------------------------------------
(* The handshake steps of crypto.c, as operators on one party's state. *)

\* R->I: N,PubR.  A nonce that travels in the clear.
ReceiverStart(p, s) == [s EXCEPT !.mnonce = CreateNonce(p, "Nr0")]

\* R<-I: PubI, Er(I,Kir,Ni).  create_shared_key, decrypt, decons.
ReceiverProcessResponseOk(s, f) ==
    SharedKeyOk(f, FALSE) /\ DecryptPacket(CreateSharedKey(s, f, FALSE), K, f).ok
ReceiverProcessResponse(s, f) ==
    LET d == DecryptPacket(CreateSharedKey(s, f, FALSE), K, f).st
    IN  [d EXCEPT !.tnonce = f.body.nonce, !.tsess = f.body.sess]

\* R->I: Ei(R,Kri,Ni,Nr).  A new nonce, then the payload under K.
ReceiverSendFinal(p, s) ==
    LET s1 == [s EXCEPT !.mnonce = CreateNonce(p, "Nr")]
    IN  EncryptPacket(s1, K, "resp",
                      [them |-> s1.tnonce, me |-> s1.mnonce, sess |-> s1.msess])

\* R<-I: Er(Nr).  Decrypt, increment the returned nonce, compare, finalize.
ReceiverDoneOk(s, f) ==
    LET d == DecryptPacket(s, K, f)
    IN  d.ok /\ f.kind = "final" /\ NonceInc(f.body.nonce) = d.st.mnonce
ReceiverDone(s, f) == FinalizeSession(DecryptPacket(s, K, f).st)

\* I<-R: N,PubR;  I->R: PubI, Er(I,Kir,Ni).
InitiatorStart(p, s, f) ==
    LET s1 == [CreateSharedKey(s, f, TRUE) EXCEPT !.mnonce = CreateNonce(p, "Ni")]
    IN  EncryptPacket(s1, K, "init", [nonce |-> s1.mnonce, sess |-> s1.msess])

\* I<-R: Ei(R,Kri,Ni,Nr).  Decrypt, decons them.nonce, check our nonce.
InitiatorProcessResponseOk(s, f) ==
    LET d == DecryptPacket(s, K, f)
    IN  d.ok /\ f.kind = "resp" /\ NonceInc(f.body.them) = d.st.mnonce
InitiatorProcessResponse(s, f) ==
    [DecryptPacket(s, K, f).st EXCEPT !.tnonce = f.body.me, !.tsess = f.body.sess]

\* I->R: Er(Nr), then finalize.
InitiatorSendFinal(s) ==
    LET e == EncryptPacket(s, K, "final", [nonce |-> s.tnonce])
    IN  [frame |-> e.frame, st |-> FinalizeSession(e.st)]

-----------------------------------------------------------------------------
(* Party steps: each runs from one blocking frame read to the next. *)

Head1(p) == Head(chan[p])
Transmit(p, f) ==
    /\ chan' = [chan EXCEPT ![Peer(p)] = Append(@, f), ![p] = Tail(@)]
    /\ seen' = seen \cup {f}
Encrypted(f) == encs' = encs (+) SetToBag({<<f.key, f.nonce>>})

\* A failed check: the hub's tune action goes to the error state, the proxy
\* returns an error; either way the connection is closed.
Fail(p) ==
    /\ st' = [st EXCEPT ![p].pc = "failed"]
    /\ closed' = [closed EXCEPT ![p[1]] = TRUE]
    /\ chan' = [chan EXCEPT ![p] = Tail(@)]
    /\ UNCHANGED <<encs, seen, sent, got, injected>>

\* Peer_establish_receiver: receiver_start, then FrameSource_send.
HubSendStart(p) ==
    /\ p[2] = "R" /\ st[p].pc = "start"
    /\ LET s == ReceiverStart(p, st[p])
           f == [kind |-> "start", key |-> None, nonce |-> ZeroNonce, body |-> s.mnonce]
       IN  /\ st' = [st EXCEPT ![p] = [s EXCEPT !.pc = "init"]]
           /\ chan' = [chan EXCEPT ![Peer(p)] = Append(@, f)]
           /\ seen' = seen \cup {f}
    /\ UNCHANGED <<closed, encs, sent, got, injected>>

\* Peer_establish_receiver: read the initiator's response,
\* receiver_process_response (whose key_confirm is the hub's
\* ConnectionState_confirm_key, which may refuse), receiver_send_final, send.
HubRecvInit(p) ==
    /\ p[2] = "R" /\ st[p].pc = "init" /\ chan[p] # <<>>
    /\ LET f == Head1(p) IN
       \E confirmed \in BOOLEAN :
         IF SharedKeyOk(f, FALSE) /\ confirmed /\ ReceiverProcessResponseOk(st[p], f)
         THEN LET e == ReceiverSendFinal(p, ReceiverProcessResponse(st[p], f))
              IN  /\ st' = [st EXCEPT ![p] = [e.st EXCEPT !.pc = "final"]]
                  /\ Transmit(p, e.frame)
                  /\ Encrypted(e.frame)
                  /\ UNCHANGED <<closed, sent, got, injected>>
         ELSE Fail(p)

\* Peer_establish_receiver: read the initiator's final, receiver_done.
HubRecvFinal(p) ==
    /\ p[2] = "R" /\ st[p].pc = "final" /\ chan[p] # <<>>
    /\ LET f == Head1(p) IN
       IF ReceiverDoneOk(st[p], f)
       THEN /\ st' = [st EXCEPT ![p] = [ReceiverDone(st[p], f) EXCEPT !.pc = "estab"]]
            /\ chan' = [chan EXCEPT ![p] = Tail(@)]
            /\ UNCHANGED <<closed, encs, seen, sent, got, injected>>
       ELSE Fail(p)

\* Proxy_connect: the first frame must be a header without a body; then
\* initiator_start (Proxy_confirm_key accepts the hub's genuine key) and send.
ProxyStart(p) ==
    /\ p[2] = "I" /\ st[p].pc = "start" /\ chan[p] # <<>>
    /\ LET f == Head1(p) IN
       IF SharedKeyOk(f, TRUE)
       THEN LET e == InitiatorStart(p, st[p], f)
            IN  /\ st' = [st EXCEPT ![p] = [e.st EXCEPT !.pc = "resp"]]
                /\ Transmit(p, e.frame)
                /\ Encrypted(e.frame)
                /\ UNCHANGED <<closed, sent, got, injected>>
       ELSE Fail(p)

\* Proxy_connect: read the hub's reply, initiator_process_response,
\* initiator_send_final (which finalizes), send, Proxy_final_verify.
ProxyFinish(p) ==
    /\ p[2] = "I" /\ st[p].pc = "resp" /\ chan[p] # <<>>
    /\ LET f == Head1(p) IN
       IF f.kind # "start" /\ InitiatorProcessResponseOk(st[p], f)
       THEN LET e == InitiatorSendFinal(InitiatorProcessResponse(st[p], f))
            IN  /\ st' = [st EXCEPT ![p] = [e.st EXCEPT !.pc = "estab"]]
                /\ Transmit(p, e.frame)
                /\ Encrypted(e.frame)
                /\ UNCHANGED <<closed, sent, got, injected>>
       ELSE Fail(p)

-----------------------------------------------------------------------------
(* The data phase: each party encrypts under them.skey (the peer's session *)
(* key) and them.nonce, and decrypts under me.skey and me.nonce.           *)

\* Peer_send (the hub) and Proxy_hub_send (the client): encrypt_node, write.
DataSend(p) ==
    /\ st[p].pc = "estab" /\ sent[p] < MaxData
    /\ LET e == EncryptPacket(st[p], st[p].tskey, "data", <<p, sent[p] + 1>>)
       IN  /\ st' = [st EXCEPT ![p] = e.st]
           /\ chan' = [chan EXCEPT ![Peer(p)] = Append(@, e.frame)]
           /\ seen' = seen \cup {e.frame}
           /\ Encrypted(e.frame)
    /\ sent' = [sent EXCEPT ![p] = @ + 1]
    /\ UNCHANGED <<closed, got, injected>>

\* Peer_recv (the hub) and Proxy_hub_recv (the client): read, decrypt_node.
\* A failed decrypt ends the hub's read loop (READ_CLOSE) and the proxy's
\* event loop.
DataRecv(p) ==
    /\ st[p].pc = "estab" /\ chan[p] # <<>>
    /\ LET f == Head1(p)
           d == DecryptPacket(st[p], st[p].mskey, f)
       IN  IF d.ok
           THEN /\ st' = [st EXCEPT ![p] = d.st]
                /\ chan' = [chan EXCEPT ![p] = Tail(@)]
                /\ got' = [got EXCEPT ![p] = Append(@, f)]
                /\ UNCHANGED <<closed, encs, seen, sent, injected>>
           ELSE Fail(p)

HubSend(p) == p[2] = "R" /\ DataSend(p)
HubRecv(p) == p[2] = "R" /\ DataRecv(p)
ProxyHubSend(p) == p[2] = "I" /\ DataSend(p)
ProxyHubRecv(p) == p[2] = "I" /\ DataRecv(p)

\* FrameSource_recv/readnodes return NULL on a closed stream: a handshake
\* step fails; an established connection ends cleanly.
EndOfStream(p) ==
    /\ closed[p[1]] /\ chan[p] = <<>>
    /\ st[p].pc \notin {"ended", "failed"}
    /\ st' = [st EXCEPT ![p].pc = IF @ = "estab" THEN "ended" ELSE "failed"]
    /\ UNCHANGED <<chan, closed, encs, seen, sent, got, injected>>

-----------------------------------------------------------------------------
(* The network. *)

\* Either side hangs up, or the connection is lost.
Disconnect(c) ==
    /\ ~closed[c]
    /\ closed' = [closed EXCEPT ![c] = TRUE]
    /\ UNCHANGED <<st, chan, encs, seen, sent, got, injected>>

\* A copy of a frame seen on the wire is written into a stream.
Inject(p) ==
    /\ injected < MaxInject /\ ~closed[p[1]]
    /\ \E f \in seen :
         /\ f.kind \in Replayable
         /\ chan' = [chan EXCEPT ![p] = Append(@, f)]
    /\ injected' = injected + 1
    /\ UNCHANGED <<st, closed, encs, seen, sent, got>>

-----------------------------------------------------------------------------
Init ==
    /\ st = [p \in Parties |-> CryptStateCreate(p)]
    /\ chan = [p \in Parties |-> <<>>]
    /\ closed = [c \in Conns |-> FALSE]
    /\ encs = EmptyBag
    /\ seen = {}
    /\ sent = [p \in Parties |-> 0]
    /\ got = [p \in Parties |-> <<>>]
    /\ injected = 0

Next ==
    \/ \E p \in Parties :
         \/ HubSendStart(p) \/ HubRecvInit(p) \/ HubRecvFinal(p)
         \/ ProxyStart(p) \/ ProxyFinish(p)
         \/ HubSend(p) \/ HubRecv(p) \/ ProxyHubSend(p) \/ ProxyHubRecv(p)
         \/ EndOfStream(p) \/ Inject(p)
    \/ \E c \in Conns : Disconnect(c)

Spec == Init /\ [][Next]_vars

-----------------------------------------------------------------------------
Nonces == [r : {Zeroed} \cup (Parties \X {"Nr0", "Nr", "Ni"}), k : Nat]

TypeOK ==
    /\ \A p \in Parties :
         /\ st[p].pc \in Pcs
         /\ st[p].mnonce \in Nonces /\ st[p].tnonce \in Nonces
         /\ st[p].shared \in {None, K, Zeroed}
    /\ \A p \in Parties : \A i \in DOMAIN chan[p] : chan[p][i].kind \in Kinds
    /\ closed \in [Conns -> BOOLEAN]
    /\ sent \in [Parties -> 0..MaxData]
    /\ \A p \in Parties : \A j \in DOMAIN got[p] : got[p][j].kind = "data"
    /\ injected \in 0..MaxInject

\* A nonce never repeats for the same key (spec 4.3), across every
\* encrypt_packet of both parties of every connection: handshake messages
\* under the shared key K and data packets under the session keys.
NoNonceReuse == \A e \in BagToSet(encs) : CopiesIn(e, encs) = 1

\* Every data packet a party accepts (Peer_recv, Proxy_hub_recv) was sent
\* by one other party, and they are accepted in the order sent, each once:
\* a replayed or reflected packet fails the CCM check.
DataInOrderOnce ==
    \A p \in Parties :
        \A j \in DOMAIN got[p] :
            /\ got[p][j].body = <<got[p][1].body[1], j>>
            /\ got[p][1].body[1] # p

\* When the hub has finalized a handshake (receiver_done), some client has
\* finalized one with it: each schedules its own session key for receiving
\* and the other's for sending.
Partnered(p, q) ==
    /\ st[p].mskey = OwnSession(p) /\ st[p].tskey = OwnSession(q)
    /\ st[q].mskey = OwnSession(q) /\ st[q].tskey = OwnSession(p)
Finalized(p) == st[p].mskey # None
HubKeyAgreement ==
    \A p \in Parties :
        p[2] = "R" /\ Finalized(p) =>
            \E q \in Parties : q[2] = "I" /\ Finalized(q) /\ Partnered(p, q)

====
