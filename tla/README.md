# TLA+ models of the utu hub

These modules model the concurrent core of the utu hub (`src/src/hub`,
`src/src/protocol`): its connection tasks, its member, routing and
message bookkeeping, the key agreement between hub and client, the
stackish wire formats both sides read and write, and the client proxy
(`src/src/client`) that tunnels a local program's messages to the hub. Its shape: many client connections, each
served by two cooperative tasks under libtask. They share member queues,
a per-connection lock and a free list of connection objects. The
definitions are translated from the C source. `PROJECT.json` maps every
modelled definition to the lines it stands for.

## The system

| Part | Source | State | Operations |
|---|---|---|---|
| Hub | `hub/hub.c`, `hub/hub_state.c` | `hub->closed` (free list of ConnectionState), members map, routes | `Hub_connection_handler` (per accepted client: OPEN, `Hub_queue_conn`, CLOSE), `Hub_new_or_reuse_conn`, CLOSE runs `ConnectionState_finish` on the head of `closed` |
| Connection machine | `hub/connection.c` (Ragel) | `cs`, `recv`, `send`, `lock`, `member`, `peer`, `client` | `ConnectionState_exec(event)`: begin, open, key_prep, tune, register, established, recv, msgid_check, service, sent, clear_*, half_close, rest_close, error |
| Connection tasks | `hub/connection_state.c` | — | `ConnectionState_incoming` (the handshake, then the read loop under the lock); `ConnectionState_outgoing` (dequeue, lock, send loop); `half_close`; `rest_close` |
| Member | `hub/member.c`, `hub/queue.[ch]` | queue ring `i, j, messages, dead, read_wait` | `Member_login`, `Member_send_msg`, `Member_first_msg` (blocks), `Member_delete_msg`, `Member_logout` (dead, wake, **yield**, destroy) |
| Peer | `protocol/peer.c`, `protocol/frame.c` | the socket | `Peer_establish_receiver` (2 blocking reads), `Peer_recv`, `Peer_send` (block on the socket) |
| Member directory | `hub/member.c`, `hub/member.h` | `hub->members` (sglib red-black tree keyed by `MEMBER_COMPARATOR`) | `Member_login`, `Member_logout` |
| Routing, commands | `hub/routing.c`, `hub/commands.c`, `hub/heap.c` | route tree; a members heap per route and a routes heap per member | `Hub_commands_register`, `Route_register`/`unregister`/`unregister_all`, `Hub_service_message` → `Route_deliver` / callbacks → `Member_send_msg` |
| Message | `protocol/message.c` | `ref_count`, hdr and body Nodes | `Message_alloc`, `Message_decons`, `Message_destroy` |
| Crypto | `protocol/crypto.c`, `protocol/peer.c`, `client/proxy.c` | CryptState (keys, nonces) per side | the four-message handshake, `encrypt_packet`/`decrypt_packet` |
| Framing, stackish | `protocol/frame.c`, `stackish/*.c` | the node tree (children linked at the head) | `FrameSource_recv` (header, hbuf, body), `Node_cons`/`Node_decons`, `Node_bstr`, `Node_parse_seq` |
| Client proxy | `client/proxy.c`, `client/io.c` | `readset`/`writeset`, `header[2]`/`body[2]`, the host socket and the listener's fds | `Proxy_event_loop` (select, `PROXY_HANDLE_EVENT` per side, `FD_SWAP`), `Proxy_hub_recv`/`send`, `Proxy_listener_recv`/`send`, `Proxy_error` |
| Server CLI | `server/server.c` | — | start-up only |

How the parts interact: the listener creates a handler task per client.
The handler runs `exec(OPEN)`, and the `open` action runs the whole
incoming task *nested inside* that exec. The `tune` action's handshake
calls the key-confirm callback, which runs `exec(PASS)` nested again: that
call registers the member and enters Established. The established action
creates the outgoing task. From then on, two tasks share the
ConnectionState and its lock. Other connections' incoming tasks put
messages on this member's queue and wake its outgoing task. A close
(READ_CLOSE, WRITE_CLOSE or the error action) runs `half_close`, which
calls `Member_logout`, which yields. It also runs `rest_close`, which
pushes the object on `hub->closed`. When the incoming task returns, the
handler's CLOSE finishes the head of `hub->closed`, and a later accept
pops and reuses it.

Hard behaviours: the tasks interleave only at suspension points. Those
are socket waits, `tasksleep` on a queue, `qlock`, the `taskyield` in
`ConnectionState_unlock`, and the `taskyield` inside `Member_logout`. The
last one is reached from *within* a state-machine action, so the other
task runs in the middle of a transition. Objects are recycled while tasks
of their previous life may still be suspended on them.

## Modules

* `MailboxSpec`: the abstract FIFO mailbox a member queue promises
  (offer refused when full, take in order, kill once).
* `MsgQueue`: the ring buffer of `queue.c` driven through `member.c`,
  with one consumer. `Pending` maps it to `MailboxSpec`, and
  `MailboxRefined` checks the refinement.
* `HubConn`: the connection lifecycle. Its actions are taken by the task
  at the head of libtask's FIFO ready queue, and each runs from one
  suspension point to the next: `Open`, `HandshakeRecv1`,
  `HandshakeRecv2`, `IncomingLoop`, `IncomingRecvDone`, `Locked`,
  `OutgoingLoop`, `OutgoingWoken`, `OutgoingSendDone`, `LogoutResume`.
  `Accept` creates a handler, and `IoReady` readies a task whose socket
  became ready. The sequential C code inside an action is written as
  pure operators on a record `W` of all variables, composed in the order
  the C code calls them (`Exec`, `RunActs`, `After`, `ReadMsg`,
  `Received`, `Lock`, `SendMsg`, `Dequeue`, `Woken`, `HubClose`,
  `LogoutBegin`/`LogoutEnd`, `HalfCloseClient`, `RestClose`). `Arcs` is
  the decoded Ragel table. A "life" n is the n-th accept: its tasks, its
  Peer and its Member all carry n; ConnectionState objects are recycled.
  A received message is abstracted to its outcome (delivered, bad msgid,
  unroutable, undecodable); a queue is its length and dead flag.
* `MemberDirectory`: `hub->members`, abstracted to the set of linked
  members. `MemberComparator` is `MEMBER_COMPARATOR` on byte strings,
  with `Memcmp` as a recursive operator. `Login` is `Member_login` (no duplicate
  check); `LogoutBegin`/`LogoutEnd` are `Member_logout` before and after
  its yield, and `sglib_Member_delete_if_member` removes *some* member
  comparing equal (which one depends on the tree's shape).
* `HubService`: what happens to a Message between `Peer_recv` and the
  member queues, with `MemberDirectory` composed in by
  `MD == INSTANCE MemberDirectory` (the directory's `Login` and `Logout`
  steps are conjuncts of the hub's register and close actions). State:
  the route set, the two heaps of every registration (as counts, since
  `Heap_add` does not check for duplicates), each queue's Messages, each
  Message's `ref_count` and freed flag, and each connection's Ragel
  state, `recv` and `send.msg`. Operators: `Registrations` and
  `HubCommandsRegister` (the internal command routes),
  `RouteRegister`, `RouteUnregister`, `RouteUnregisterAll`,
  `RouteDeliver` (stops at the first full queue, in heap order),
  `Callback` (every hub command), `SendResponse`, `HubServiceMessage`,
  `MessageAlloc`, `MessageDestroy`, `MemberSendMsg`, `MsgQueueDelete`,
  `MsgQueueDestroy`. Actions: `Login`, `Receive` (one received frame:
  undecodable, bad msgid, or serviced), `SendBegin`/`SendDone` (the
  outgoing task's borrowed `send.msg`), `Close` (half_close),
  `LogoutResume`, `Finish` (`ConnectionState_finish`). A use of freed
  memory is recorded in `fault` and stops the model.
* `CryptoHandshake`: the hub as receiver (`Peer_establish_receiver`)
  and the proxy as initiator (`Proxy_connect`) of the four-message key
  agreement of `crypto.c`, then the encrypted data phase, for several
  connections between the same long-term keys. Each `CryptState`
  function is an operator; nonces are a random part (unique per draw)
  plus the `nonce_inc` count; CCM decryption succeeds only under the
  key and nonce of the packet. The network closes connections and
  replays recorded frames of the kinds in `Replayable`.
* `Stackish`: the node tree of `stackish/node.c` as records (type,
  value, name, children), with `AddChild` linking at the head as
  `Node_create` does. `NodeCons` and `NodeDecons` interpret a format
  string over a stack of open groups, as the C loops do. `CatNode`,
  `CatList` and `NodeBstr` are `Node_catbstr`/`Node_bstr`, producing
  tokens (a token is a whole number, float, string, blob, word, attr,
  `[` or `]`); `%f` is modelled by `PrintF`, rounding to the printed
  precision. `ParseExec` is the parser's execute loop with its actions
  (`HandleStart`, `HandlePush`, `HandleWord`, `HandleGroup`,
  `HandleAttr`) and the points where it stops; `NodeParseSeq` and
  `NodeParse` wrap it as `node.c` does.
* `WireFormats`: the layouts `crypto.c` and `message.c` build and read.
  Each handshake message is a `NodeCons` on one side and a `NodeDecons`
  on the other; `Wire(t)` is `NodeParse(NodeBstr(t))`. `FrameRecv` is
  how `FrameSource_recv` splits a frame; `MessageCons`/`MessageDecons`
  are the message header and body. `SignNode`, `VerifySignature`,
  `GenerateChallenge`, `AnswerChallenge` and `ValidateChallenge` are
  the signing envelope and the hate challenge, with a hash or signature
  a tagged value (equal hashes mean equal inputs).
* `TunnelSpec`: what the proxy promises its two ends: two FIFO
  channels (down: hub to listener, up: listener to hub). A channel is
  `open` while both its ends are up and only then takes new messages;
  a break closes channels, and only a closed channel may lose messages,
  keeping a prefix of what was in flight.
* `ClientProxy`: the proxy's select loop between a listener and one hub
  connection, composed with `MsgQueue` (`MQ == INSTANCE MsgQueue`), which
  feeds the hub's outgoing task. Proxy state: `rs`/`ws` (the select
  sets, over the fds `host` and `client`), `buf` (`header[side]` and
  `body[side]`), `pst` (looping, exited after `check_err`, or killed by
  SIGPIPE). `ProxyTurn` is one pass of the loop: the masks, then
  `HandleEvent` for the HUB side and then the LISTENER side, built from
  `ProxyRead`, `ProxyWrite`, `SwapToWrite`/`SwapToRead` (`FD_SWAP`),
  `ProxyError` and `Fail` (`check_err`). Frames are whole messages in
  bounded socket buffers (`hubSock`, `toHub`, `lisIn`, `toLis`). The hub
  side is `Deliver` (`Member_send_msg`), `OutgoingFirst`, `HubSend` and
  `HubSendFail` (the outgoing task), and `HubRecv` and `HubAbort` (the
  incoming task); whichever closes first runs `half_close` (`Logout`),
  whose `server_destroy_client` closes the hub's socket. The listener
  sends numbered messages, reads, and may close. `DownFlight`/`UpFlight`
  and `OpenChans` (a direction is open while its reader is up and the
  proxy loops) map the state to `TunnelSpec`.
* `MCClientProxy`, `MCHubConn`, `MCMemberDirectory`, `MCHubService`,
  `MCCryptoHandshake`: constants for TLC.

What the code does but no code path may do (a NULL or freed pointer
used, an assert or libtask abort, a double free) is recorded in `fault`
and stops the model. Passing runs therefore check all behaviour up to
the first fault, and the violation runs show that faults are reachable.

## Runs

| Run | Checks | Result |
|---|---|---|
| `client_proxy` | `TypeOK`, `MailboxRefined`, `Delivered`, `TunnelRefined`, `TunnelDelivers` | pass, ~14.9k states |
| `hub_lifecycle` | `TypeOK`, `NoAssertAbort`, `MemberFreedSafely`, `ClosedListWellFormed`, `OnlyIncomingWaits`, `QueuedMsgSent` | pass, ~104k states |
| `hub_service` | `TypeOK`, `RoutesMirror`, `RoutedMembersLive`, `RefCountIsHolders`, `DirectoryLive`, `RelayRoundTrip` | pass, ~77k states |
| `crypto_handshake` | `TypeOK`, `NoNonceReuse`, `DataInOrderOnce`, `HubKeyAgreement`, `HandshakeFieldsAgree`, `HateChallengeAnswered` | pass, ~916k states |
| `hub_null_member` | `NoNullMemberDeref` | violated (finding) |
| `hub_peer_uaf` | `NoPeerUseAfterFinish` | violated (finding) |
| `hub_stale_task` | `NoStaleTask` | violated (finding) |
| `hub_lock_leak` | `LockWaitEnds` under `LiveClientSpec` | violated (finding) |
| `member_equal_keys` | `DirectoryLive` | violated (finding) |
| `message_memory` | `MessageMemorySafe` | violated (finding) |
| `message_silent_drop` | `NoSilentDrop` | violated (finding) |
| `crypto_start_replay` | `NoNonceReuse` | violated (finding) |

What the passing runs show:
* `TunnelRefined`: under every interleaving of the select loop, the
  hub's two tasks and the listener, including either end going away at
  any point, the proxy forwards each direction in order, without loss
  from the middle or duplication, and a direction loses messages only
  once its reader or the proxy is gone. It rests on `FD_SWAP`: a side's read
  fd leaves `readset` while its frame waits to be written, so
  `body[side]` is never overwritten.
* `TunnelDelivers`: a message in flight is eventually read by its
  receiver or dropped by a break; the loop never stalls one side.
* `MailboxRefined`, `Delivered`: the member queue feeding the hub side
  refines its FIFO mailbox, and everything added is eventually deleted
  unless the member logs out.
* `NoAssertAbort` holds only because `Member_logout` wakes the outgoing
  task and yields. During that yield, outgoing's WRITE_CLOSE pushes the
  object, so CLOSE finds `hub->closed` non-empty.
* `OnlyIncomingWaits`: the outgoing task never waits for the lock;
  incoming blocks with it held only inside `Member_logout`.
* `RoutesMirror` and `RoutedMembersLive`: registering, unregistering
  (twice, of a missing route, of an internal one) and closing keep each
  route's members heap and each member's routes heap in step, and
  `half_close` unlinks a member from every route before `Member_logout`
  frees it. Because Ragel sets `cs` before running an action, a message
  arriving during the logout yield finds the machine closing and is not
  serviced, so no route is registered on a dying member.
* `RefCountIsHolders`: every live Message's `ref_count` is the number of
  queues, `recv` slots and `send.msg` slots that hold it, through
  fan-out, refused queues, replies and logouts, up to the first fault.
* `NoNonceReuse`, `DataInOrderOnce`, `HubKeyAgreement`: with replays of
  encrypted frames, no key/nonce pair is used twice, each side accepts
  data in order and once, and a hub that finalizes has a partner with
  the same session keys.
* `HandshakeFieldsAgree`: for every frame in flight, its stackish
  layout survives `Node_cons`, `Node_bstr`, the parser and the reader's
  `Node_decons`: each field reaches its variable, and nonce halves
  written right-then-left arrive as left and right. This rests on two
  reversals cancelling (`Node_create` links at the head, `Node_catbstr`
  prints siblings before itself).
* `HateChallengeAnswered`: for levels 1 to 3, every right half, and a
  maximum level equal to or below the challenge's, the signed challenge
  is answered (or refused when the level is too high) and the answer,
  whose halves come back swapped, validates.
* `RelayRoundTrip`: a frame of a message header and an envelope splits
  back into the same header, the same authenticated `hbuf` and the same
  envelope, and any body of up to two children, leaves and nested
  (named, anonymous and attribute-named) groups, re-serialized by the
  hub parses back to the same tree in canonical form: the same types,
  names and child order, every number, string and blob unchanged, and
  every float rounded to the six decimals of `%f` (the run's float,
  1.3e-6, comes back as 1e-6). `Message_decons` takes the same type and
  the canonical data. Spec section 8 asks floats to round-trip exactly
  as IEEE doubles; that they do not is the `node.c:96` hazard.

What the violations show (see `findings` in PROJECT.json):
* **NULL member.** After an abort, a message for the member makes
  outgoing run half_close itself and then call `Peer_send` on
  `state->member == NULL`.
* **Freed Peer.** A `Peer_send` blocked in state 10 resumes after CLOSE
  destroyed the Peer.
* **Stale task.** A task suspended in `Member_logout` resumes on a
  recycled object.
* **Lock leak.** A failed send leaves the lock held, and incoming waits
  forever even when clients answer.
* **Equal keys.** `MEMBER_COMPARATOR` adds the length difference to a
  `memcmp` of the shorter length, so `01` and `00 00` compare equal;
  `Member_login` links both, and logging out one unlinks the other,
  leaving a freed member in the tree.
* **Double free of an undecodable frame.** `Message_decons`'s failure
  path frees the header and body, and `ConnectionState_finish` frees
  them again through `state->recv`.
* **Silent drop.** A reply refused by a full queue is dropped by
  `send_response`, and `Route_deliver`'s failure is only logged; the
  spec says both must surface.
* **Nonce reuse.** The client takes its first nonce from the hub's
  cleartext first message; replayed into another connection under the
  same static key, it makes the client encrypt twice under one nonce.

The same model also reaches (but no run isolates) the `send.msg` hazard
listed in PROJECT.json: `ConnectionState_finish` destroys the borrowed
queue head after `Member_logout` already released it.

Hub commands leak their Message: `clear_recv` drops `recv.msg` without
destroying it. `RefCountIsHolders` shows its count is 0 with no holder;
the leak is listed as a hazard rather than a run.

Each property of a passing run has a mutant in PROJECT.json: a plausible
bug in a mapped definition that TLC finds.

## Bounds

* `MCClientProxy`: `Dim = 3` (2 queued messages) and 3 hub messages,
  enough to fill the queue and wrap its indices; 2 listener messages;
  `SockCap = 1`, so every socket fills and a write waits for select to
  report room. With the listener's close and the hub's abort available
  at every point, this covers an end going away with frames in every
  buffer.
* `MCHubConn`: 2 accepts, so an object is recycled and one client
  delivers to the other's member; `Cap = 1`, so a queue fills; 2
  messages per client, so a second read races the first message's send;
  all four message kinds.
* `MCHubService`: 2 logins with 3 keys of one length; `Dim = 2` (one
  queued message), so a second delivery or reply is refused; 4 Messages,
  enough for a fan-out to two members and a reply; user paths `a` and
  `a/b` (an interior node created by a register); targets include a
  user route, `route/register`, `route/unregister`, `system/ping` and an
  unknown path.
* `MCMemberDirectory`: 3 logins over keys `01`, `00 00`, `01 01`, the
  smallest set with two distinct keys that compare equal.
* `MCCryptoHandshake`: 2 connections (symmetric), 2 data packets each,
  1 replayed frame: enough for a replay into another connection. The
  layouts are checked with nonce halves `<<1,2>>` and `<<0,3>>`, which
  tell left from right and include zero; the hate challenge at levels
  1-3 over every right half `0..2^(level+2)-1`, so the cut to
  `2^(level+1)` values matters.
* Layout and challenge checks name no variable in their body: TLC
  evaluates them once, and the properties apply them to the state.
  (A parameter named like a state variable makes TLC re-evaluate such
  a constant in every state, so the parameters avoid those names.)

Every action fires in the passing runs. Each run takes under a minute
except `crypto_handshake` (about 80 seconds).

## Fairness

libtask always runs the head of its FIFO ready queue. `Fairness` in
`HubConn` is weak fairness of the scheduler, written as
`[]<>~CanSchedule \/ []<><<TaskStep>>_vars`, where `CanSchedule` is
exactly ENABLED of the task step (this avoids evaluating ENABLED through
the recursive operators). Nothing in the code makes a client answer, so
`Spec` assumes no socket wait ends (spec §5 says a stalled peer blocks
its task). `LiveClientSpec` adds weak fairness of `IoReady`, and is used
only for the lock leak. `MsgQueue` assumes weak fairness of its one
consumer. `ClientProxy` assumes weak fairness of the proxy's loop (a
process blocked only in select, woken when an fd is ready), of the
hub's tasks, and of the listener's reads: nothing in the code makes the
listener read, so `TunnelDelivers` holds only for a listener that keeps
reading. Nothing makes the listener send or close, or the hub abort.
The other modules check safety only.

## Not modelled

* **Framing bytes** (`frame.c`): the `sbuf` buffering (the myriad
  library, not in the repository) and the 16-bit length prefix. The
  model works on stackish tokens, not bytes, so the length wrap of
  `frame.c:104` is a hazard without a property. `WireFormats` models how
  a received frame is split.
* **Heap order by address** (`heap.c:26`): `Heap_void_ptr_compare`
  truncates a pointer difference to `int`. Addresses are the allocator's
  business, so heaps are ordered by allocation; the hazard is listed.
* **`ROUTE_MAX_PATH`, `Heap_resize`, route/children and info replies**:
  limits and formatting with no effect on the properties; a reply is a
  Message whose text is left out.
* **Hate challenge at level 0**: `AnswerChallenge` searches below
  `level << (level+1)`, which is 0 at level 0, so no answer is found,
  although the spec says every level is answerable. `HateChallengeAnswered`
  checks levels 1-3. Nothing in the hub or client calls the challenge,
  and the twelve runs are given to the hub's findings, so this is listed
  as a hazard rather than a violation run. The same holds for
  `CryptState_verify_signature`, which never checks that the signed
  hash is the payload's and trusts the key carried in the message.
* **Client start-up and byte-level I/O**: `Proxy_listen`,
  `Proxy_configure`, sign-only mode, address resolution, and the bytes
  of `readn`/`readframe`/`write_header_node`. `ClientProxy` moves whole
  frames, so the zero-length assert (`io.c:16`), the 16-bit length wrap
  and short `writev` (`io.c:116`) are hazards without a property. The
  proxy's own crypto is in `CryptoHandshake`.
* **The server CLI**: argument parsing and start-up.
* **The stackish lexer**: the Ragel tables that split bytes into
  tokens, string escaping (none: `"%s"`, a hazard), blob resumption
  across reads, `Node_dump` and `Node_destroy`. The model's parser
  starts from tokens.
