------------------------------ MODULE TunnelSpec ------------------------------
(***************************************************************************)
(* What the client proxy promises its two ends (spec.md: the local channel *)
(* is used "to tunnel application messages to/from the remote Hub         *)
(* transparently"), with no select loop, buffers or sockets in sight: two *)
(* FIFO channels, down (hub to listener) and up (listener to hub).  Either *)
(* end may put a message on the channel it sends on and take the oldest   *)
(* one off the channel it reads.  A channel is open while both of its    *)
(* ends are up; once an end goes away it is closed for good, takes no new  *)
(* messages, and may lose those still in flight, but only the newest ones:*)
(* what is left is a prefix of what was there, so nothing is ever         *)
(* reordered, duplicated, invented, or lost from the middle, and nothing  *)
(* is lost from a channel that is still open.                              *)
(***************************************************************************)
EXTENDS Naturals, Sequences

CONSTANTS Msgs          \* the messages either end may send

VARIABLES down,         \* hub to listener, oldest first
          up,           \* listener to hub, oldest first
          open          \* the channels whose two ends are both still up

vars == <<down, up, open>>

Channels == {"down", "up"}

Init == down = <<>> /\ up = <<>> /\ open = Channels

\* The channel named c as a function of the state, and the same channel
\* replaced by s.
Chan(c) == IF c = "down" THEN down ELSE up
SetChan(c, s) == IF c = "down" THEN down' = s /\ UNCHANGED <<up, open>>
                               ELSE up' = s /\ UNCHANGED <<down, open>>

Put(c, m) == c \in open /\ SetChan(c, Append(Chan(c), m))

Get(c) == Chan(c) # <<>> /\ SetChan(c, Tail(Chan(c)))

\* The channel c after a break: unchanged if it stays open, otherwise any
\* prefix of what it held.
Kept(c) == IF c \in open' THEN {Chan(c)}
           ELSE {SubSeq(Chan(c), 1, k) : k \in 0..Len(Chan(c))}

\* An end goes away: some channels close (one that closes may take the
\* other's end with it, as a process exit does), and a closed channel
\* loses its newest messages.
Break == /\ open' \in SUBSET open
         /\ down' \in Kept("down")
         /\ up' \in Kept("up")

Next == \/ \E c \in Channels : \/ \E m \in Msgs : Put(c, m)
                               \/ Get(c)
        \/ Break

Spec == Init /\ [][Next]_vars
=============================================================================
