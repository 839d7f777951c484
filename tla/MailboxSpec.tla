----------------------------- MODULE MailboxSpec -----------------------------
(***************************************************************************)
(* What a Member's outbound queue promises, with no ring buffer in sight:  *)
(* a FIFO of at most Cap messages that any task may offer a message to (an *)
(* offer to a full mailbox is refused, the message is not stored), that   *)
(* one consumer takes from in order, and that can be killed once.  Killing *)
(* does not stop offers: src/hub/member.c never looks at the dead flag     *)
(* before adding.                                                          *)
(***************************************************************************)
EXTENDS Naturals, Sequences

CONSTANTS Cap,       \* messages the mailbox holds (MsgQueue dim - 1)
          MsgIds     \* the messages that can be offered

VARIABLES box,       \* the pending messages, oldest first
          dead       \* the owning member logged out

vars == <<box, dead>>

Init == box = <<>> /\ dead = FALSE

Offer(m) == /\ Len(box) < Cap
            /\ box' = Append(box, m)
            /\ UNCHANGED dead

Take == /\ box # <<>>
        /\ box' = Tail(box)
        /\ UNCHANGED dead

Kill == /\ ~dead
        /\ dead' = TRUE
        /\ UNCHANGED box

Next == \/ \E m \in MsgIds : Offer(m)
        \/ Take
        \/ Kill

Spec == Init /\ [][Next]_vars
=============================================================================
