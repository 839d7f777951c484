---------------------------- MODULE MCHubService ----------------------------
EXTENDS HubService

\* Keys of one length, so that MEMBER_COMPARATOR orders them correctly.
MCKeys == {<<0, 1>>, <<1, 0>>, <<1, 1>>}
\* One user route and its child: register creates the child's parent.
MCUserPaths == {<<"a">>, <<"a", "b">>}
\* Clients send to a user route, to route/register and route/unregister,
\* to a command that answers (ping), and to a path nobody created.
MCTargets == {<<"a", "b">>, <<"route", "register">>, <<"route", "unregister">>,
              <<"system", "ping">>, <<"z">>}
\* Register and unregister name a user route or a command route.
MCArgs == {<<"a", "b">>, <<"route", "register">>}

SK == INSTANCE WireFormats

\* Leaves of every type, one of them named by an attribute (the parser
\* names only a node that has a parent that way), and groups of up to two
\* of them, anonymous, named by a word or by an attribute.  The float is
\* 1.3e-6, which "%f" prints as 0.000001.
MCLeaves == {SK!Num(0), SK!Str("s"), SK!Blob("b"), SK!Flt(13), SK!Named(SK!Num(3), SK!Attr("x"))}

\* The canonical form of a tree: every float at the six decimals "%f"
\* keeps (spec.md section 8: canonical form normalizes floats).
RECURSIVE Canonical(_)
Canonical(n) ==
  [n EXCEPT !.val = IF n.type = "float" THEN <<SK!PrintF(@[1]), "">> ELSE @,
            !.kids = [k \in DOMAIN @ |-> Canonical(@[k])]]
MCKidSeqs(S) == {<<>>} \cup {<<a>> : a \in S} \cup {<<a, b>> : a, b \in S}
MCGroups == {SK!Named([SK!Grp EXCEPT !.kids = ks], nm) :
                ks \in MCKidSeqs(MCLeaves), nm \in {SK!NoName, SK!Word("g"), SK!Attr("y")}}

\* Evaluated once by TLC: it names no variable.
RelayChecks ==
  /\ \A id \in {0, 7} :
       LET m == SK!MessageCons(id, SK!Num(1), SK!Word("t"))
           f == SK!FrameRecv(SK!NodeBstr(m.hdr) \o SK!NodeBstr(SK!Envelope("ct", "tag")))
           d == SK!MessageDecons(f.header, m.body)
       IN /\ f.ok /\ f.header = m.hdr /\ f.hbuf = SK!NodeBstr(m.hdr)
          /\ f.msg = SK!Envelope("ct", "tag")
          /\ d.ok /\ d.msgid = id
  /\ \A ks \in MCKidSeqs(MCLeaves \cup MCGroups) :
       LET body == SK!Named([SK!Grp EXCEPT !.kids = ks], SK!Word("t"))
           got == SK!NodeParse(SK!NodeBstr(body))
           d == SK!MessageDecons(SK!MessageCons(0, SK!Num(1), SK!Word("t")).hdr, got)
       IN /\ got = Canonical(body)
          /\ d.ok = (ks # <<>>)
          /\ d.ok => d.data = Canonical(Head(ks)) /\ d.type = SK!Word("t")

(* What a client sends is what the hub relays and what the recipient    *)
(* reads.  A frame of a Message header and an envelope is split by       *)
(* FrameSource_recv into the same header, the same hbuf bytes the sender *)
(* authenticated, and the same envelope, using up the frame; and any     *)
(* body the hub parses out of a client's payload and re-serializes with  *)
(* Node_bstr when it forwards it (Peer_send) parses back to the same     *)
(* tree in canonical form: the same types, names and children in order,  *)
(* every number, string and blob unchanged, and every float rounded to   *)
(* the six decimals of node.c's "%f" (not the exact double spec.md asks  *)
(* for); Message_decons finds the same type and canonical data.  Stated whenever a member's queue holds a Message to relay; *)
(* the model's Messages carry no contents, so every body in the bound is *)
(* checked.                                                              *)
RelayRoundTrip == \A m \in DOMAIN q : q[m] # <<>> => RelayChecks
====
