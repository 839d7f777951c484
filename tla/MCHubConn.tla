----------------------------- MODULE MCHubConn -----------------------------
(* Model-checking instance of HubConn: two accepted clients, so an object  *)
(* can be recycled from one to the other and one client can deliver to the *)
(* other's member; a queue of one message, so the full-queue refusal in    *)
(* Member_send_msg is reached; two messages per client, so a second read  *)
(* can race the first message's send; every kind of received message.     *)
EXTENDS HubConn

MCMaxAccepts == 2
MCCap == 1
MCMaxRecv == 2
MCClientMsgs == {"good", "badid", "unroutable", "undecodable"}
=============================================================================
