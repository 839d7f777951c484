------------------------------ MODULE MsgQueue ------------------------------
(***************************************************************************)
(* A Member's outbound message queue: the ring buffer of src/hub/queue.c   *)
(* driven through the Member wrappers of src/hub/member.c.                 *)
(*                                                                         *)
(*   - any number of producers call Member_send_msg (routing fan-out,     *)
(*     command replies); an add is atomic under the cooperative scheduler *)
(*     and wakes every task sleeping on read_wait;                         *)
(*   - one consumer, the connection's outgoing task, loops on             *)
(*     Member_first_msg (peek, sleeping while the queue is empty) and     *)
(*     Member_delete_msg (drop the peeked head once it was sent);         *)
(*   - Member_logout marks the queue dead and wakes the sleepers.         *)
(*                                                                         *)
(* The messages array comes from malloc, so its slots start as garbage.   *)
(* A message is an id from 1..MaxMsgs; each offer uses a fresh one.       *)
(***************************************************************************)
EXTENDS Naturals, Sequences

CONSTANTS Dim,       \* MsgQueue dim (MEMBER_MSG_QUEUE_LENGTH in member.h)
          MaxMsgs,   \* bound on the number of messages offered
          Null,      \* a NULL slot
          Garbage    \* an uninitialized slot of the malloc'd array

ASSUME Dim \in Nat \ {0, 1} /\ MaxMsgs \in Nat

MsgIds == 1..MaxMsgs

VARIABLES slots,     \* queue->messages
          i,         \* queue->i, index of the oldest message
          j,         \* queue->j, index of the next free slot
          dead,      \* queue->dead
          pc,        \* where the consumer task is
          next       \* the id the next offered message gets

vars == <<slots, i, j, dead, pc, next>>

\* The consumer's positions: about to call Member_first_msg, asleep on
\* read_wait, woken but not yet run, holding the peeked head, or out of its
\* loop because Member_first_msg returned NULL.
ConsumerPcs == {"first", "asleep", "woken", "holding", "stopped"}

TypeOK == /\ slots \in [0..Dim-1 -> MsgIds \cup {Null, Garbage}]
          /\ i \in 0..Dim-1 /\ j \in 0..Dim-1
          /\ dead \in BOOLEAN
          /\ pc \in ConsumerPcs
          /\ next \in 1..MaxMsgs+1

\* MsgQueue_is_empty and MsgQueue_is_full of queue.h.
IsEmpty == i = j
IsFull == i = (j + 1) % Dim

\* MsgQueue_wake_all: the sleeping consumer becomes ready.
WakeAll == pc' = IF pc = "asleep" THEN "woken" ELSE pc

Init == /\ slots = [k \in 0..Dim-1 |-> Garbage]
        /\ i = 0 /\ j = 0
        /\ dead = FALSE
        /\ pc = "first"
        /\ next = 1

\* Fault-injection variant: Member_send_msg without MsgQueue_wake_all.
SendMsgNoWake == /\ next <= MaxMsgs
                 /\ next' = next + 1
                 /\ IF IsFull
                       THEN UNCHANGED <<slots, i, j, dead, pc>>
                       ELSE /\ slots' = [slots EXCEPT ![j] = next]
                            /\ j' = (j + 1) % Dim
                            /\ UNCHANGED <<i, dead, pc>>

(***************************************************************************)
(* Member_send_msg: refuse when full, else MsgQueue_add stores the message *)
(* at j, advances j, and the waiters are woken.                            *)
(***************************************************************************)
SendMsg == /\ next <= MaxMsgs
           /\ next' = next + 1
           /\ IF IsFull
                 THEN UNCHANGED <<slots, i, j, dead, pc>>
                 ELSE /\ slots' = [slots EXCEPT ![j] = next]
                      /\ j' = (j + 1) % Dim
                      /\ WakeAll
                      /\ UNCHANGED <<i, dead>>

(***************************************************************************)
(* Member_first_msg -> MsgQueue_first, first half: NULL on a dead queue,   *)
(* sleep on an empty one, otherwise peek the head.                         *)
(***************************************************************************)
FirstMsg == /\ pc = "first"
            /\ pc' = CASE dead    -> "stopped"
                       [] IsEmpty -> "asleep"
                       [] OTHER   -> "holding"
            /\ UNCHANGED <<slots, i, j, dead, next>>

(***************************************************************************)
(* MsgQueue_first after tasksleep returns: NULL if the queue died or is    *)
(* still empty, otherwise the head.                                        *)
(***************************************************************************)
FirstMsgWoken == /\ pc = "woken"
                 /\ pc' = IF dead \/ IsEmpty THEN "stopped" ELSE "holding"
                 /\ UNCHANGED <<slots, i, j, dead, next>>

\* Fault-injection variant: MsgQueue_delete clears the head but forgets to
\* advance i.
DeleteMsgNoAdvance == /\ pc = "holding"
                      /\ pc' = "first"
                      /\ IF ~IsEmpty /\ slots[i] # Null
                            THEN /\ slots' = [slots EXCEPT ![i] = Null]
                                 /\ UNCHANGED i
                            ELSE UNCHANGED <<slots, i>>
                      /\ UNCHANGED <<j, dead, next>>

\* Fault-injection variant: MsgQueue_delete advances i without wrapping it
\* around the ring.
DeleteMsgNoWrap == /\ pc = "holding"
                   /\ pc' = "first"
                   /\ IF ~IsEmpty /\ slots[i] # Null
                         THEN /\ slots' = [slots EXCEPT ![i] = Null]
                              /\ i' = i + 1
                         ELSE UNCHANGED <<slots, i>>
                   /\ UNCHANGED <<j, dead, next>>

(***************************************************************************)
(* Member_delete_msg -> MsgQueue_delete once the held head was sent: the   *)
(* head slot is cleared and i advances; on an empty queue or a NULL head   *)
(* nothing changes.  The consumer goes back to Member_first_msg.           *)
(***************************************************************************)
DeleteMsg == /\ pc = "holding"
             /\ pc' = "first"
             /\ IF ~IsEmpty /\ slots[i] # Null
                   THEN /\ slots' = [slots EXCEPT ![i] = Null]
                        /\ i' = (i + 1) % Dim
                   ELSE UNCHANGED <<slots, i>>
             /\ UNCHANGED <<j, dead, next>>

(***************************************************************************)
(* Member_logout: MsgQueue_mark_dead, then MsgQueue_wake_all.              *)
(***************************************************************************)
Logout == /\ ~dead
          /\ dead' = TRUE
          /\ WakeAll
          /\ UNCHANGED <<slots, i, j, next>>

Next == \/ SendMsg
        \/ FirstMsg
        \/ FirstMsgWoken
        \/ DeleteMsg
        \/ Logout

\* The outgoing task runs whenever it is ready: libtask's ready queue is FIFO
\* and every task ahead of it yields or blocks.
Fairness == /\ WF_vars(FirstMsg)
            /\ WF_vars(FirstMsgWoken)
            /\ WF_vars(DeleteMsg)

Spec == Init /\ [][Next]_vars /\ Fairness

-----------------------------------------------------------------------------
\* The messages between i and j, oldest first.
Pending == [k \in 1..((j - i) % Dim) |-> slots[(i + k - 1) % Dim]]

Mailbox == INSTANCE MailboxSpec WITH Cap <- Dim - 1, box <- Pending

\* The ring buffer is a FIFO mailbox of Dim - 1 messages: no add overwrites
\* a pending message, no delete skips or repeats one, and logout is the only
\* way to kill it (Member_send_msg, MsgQueue_add, MsgQueue_delete).
MailboxRefined == Mailbox!Spec

\* A message that is added to a live member's queue is eventually deleted
\* by the outgoing task, unless the member logs out first: the wake-up in
\* Member_send_msg is never lost and the head is never stuck.
Delivered == \A m \in MsgIds :
               (\E k \in DOMAIN Pending : Pending[k] = m)
                 ~> (dead \/ \A k \in DOMAIN Pending : Pending[k] # m)
=============================================================================
