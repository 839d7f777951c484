---------------------------- MODULE MCClientProxy ----------------------------
(* Model-checking instance of ClientProxy: a member queue of 3 slots (2    *)
(* messages) with 3 offers, so it fills and its indices wrap; sockets and  *)
(* pipes of one frame, so a writer blocks on a frame the reader has not    *)
(* taken and the proxy holds a frame while the next one waits behind it;  *)
(* and 2 listener messages, so both directions are busy at once.          *)
EXTENDS ClientProxy

MCDim == 3
MCMaxMsgs == 3
MCSockCap == 1
MCMaxLis == 2
====
