----------------------------- MODULE WireFormats -----------------------------
(***************************************************************************)
(* The stackish layouts of the protocol messages (protocol/crypto.c and   *)
(* protocol/message.c).  Each message is built with Node_cons by one side *)
(* and read with Node_decons by the other; the two format strings list the *)
(* fields in opposite orders because Node_cons links each child at the     *)
(* head of the list.  Wire(t) is what a Node goes through between them:    *)
(* Node_bstr, then Node_parse.  Keys, names, tags and ciphertexts are      *)
(* atoms; a hash or a signature is a tagged pair, so that equal hashes     *)
(* mean equal inputs.                                                      *)
(***************************************************************************)
EXTENDS Stackish

Wire(t) == NodeParse(NodeBstr(t))

\* Blob(v) with an arbitrary atom or tuple v as its bytes.
Bytes(v) == Node("blob", <<0, v>>)

-----------------------------------------------------------------------------
(* Frames and Messages *)

\* FrameSource_recv, once the length and the bytes are in: the header is
\* parsed from the start and hbuf carved up to where it stopped; a body is
\* parsed from there if bytes remain, and the frame must be used up.
FrameRecv(data) ==
    LET h == NodeParseSeq(data, 1)
        b == IF h.from <= Len(data) THEN NodeParseSeq(data, h.from) ELSE [root |-> Null, from |-> h.from]
    IN [ok |-> h.root # Null /\ (h.from <= Len(data) => b.root # Null) /\ b.from = Len(data) + 1,
        header |-> h.root, hbuf |-> SubSeq(data, 1, h.from - 1), msg |-> b.root]

\* Message_cons_header and Message_cons: "[nw" msgid, "header"; "[Gw" data, type
MessageCons(msgid, data, type) ==
    [hdr |-> NodeCons(<<"[", "n", "w">>, <<msgid, Word("header")>>),
     body |-> NodeCons(<<"[", "G", "w">>, <<data, type>>)]

\* Message_decons: the type is the body root's name and must be set; "[nw"
\* reads the msgid out of the header; "[G." takes the body's first child.
MessageDecons(hdr, body) ==
    LET h == NodeDecons(hdr, <<"[", "n", "w">>, <<Word("header")>>)
        b == NodeDecons(body, <<"[", "G", ".">>, <<>>)
    IN IF body.name = NoName \/ ~h.ok \/ ~b.ok THEN [ok |-> FALSE]
       ELSE [ok |-> TRUE, msgid |-> h.out[1].val[1], data |-> b.out[1], type |-> body.name]

-----------------------------------------------------------------------------
(* The four handshake messages and the envelope *)

\* CryptState_receiver_start: "[nnbw" me.right, me.left, PubR, "header"
ReceiverStart(l, r, key) == NodeCons(<<"[", "n", "n", "b", "w">>, <<r, l, key, Word("header")>>)

\* CryptState_initiator_process_response, nonced: "[bnnw" into ecc_key,
\* them.left, them.right
InitiatorReadsStart(t) == NodeDecons(t, <<"[", "b", "n", "n", "w">>, <<Word("header")>>)

\* CryptState_initiator_start: the cleartext header "[bw" PubI, "header"
InitiatorHeader(key) == NodeCons(<<"[", "b", "w">>, <<key, Word("header")>>)

\* ... and its payload "[sbnnw" me.name, me.session, me.right, me.left, "init"
InitiatorStartPayload(name, ses, l, r) ==
    NodeCons(<<"[", "s", "b", "n", "n", "w">>, <<name, ses, r, l, Word("init")>>)

\* CryptState_initiator_process_response, not nonced: "[bw" into ecc_key
ReceiverReadsHeader(t) == NodeDecons(t, <<"[", "b", "w">>, <<Word("header")>>)

\* CryptState_receiver_process_start: "[nnbsw" into them.left, them.right,
\* them.session, them.name
ReceiverReadsInit(t) == NodeDecons(t, <<"[", "n", "n", "b", "s", "w">>, <<Word("init")>>)

\* CryptState_receiver_done: "[sbnnnnw" me.name, me.session, them.right,
\* them.left, me.right, me.left, "recv"
ReceiverFinalPayload(name, ses, tl, tr, ml, mr) ==
    NodeCons(<<"[", "s", "b", "n", "n", "n", "n", "w">>, <<name, ses, tr, tl, mr, ml, Word("recv")>>)

\* CryptState_initiator_done: "[nnnnbsw" into them.left, them.right,
\* me_nonce.left, me_nonce.right, them.session, them.name
InitiatorReadsResponse(t) ==
    NodeDecons(t, <<"[", "n", "n", "n", "n", "b", "s", "w">>, <<Word("recv")>>)

\* ... and its reply "[nnw" them.right, them.left, "init"
InitiatorFinalPayload(tl, tr) == NodeCons(<<"[", "n", "n", "w">>, <<tr, tl, Word("init")>>)

\* CryptState_receiver_process_final: "[nnw" into expected.left, expected.right
ReceiverReadsFinal(t) == NodeDecons(t, <<"[", "n", "n", "w">>, <<Word("init")>>)

\* CryptState_encrypt_packet: "[bbw" ciphertext, tag, "env"
Envelope(ct, tag) == NodeCons(<<"[", "b", "b", "w">>, <<ct, tag, Word("env")>>)

\* CryptState_decrypt_packet: "[bbw" into rectag, payload
ReadEnvelope(t) == NodeDecons(t, <<"[", "b", "b", "w">>, <<Word("env")>>)

-----------------------------------------------------------------------------
(* Signatures and the hate challenge *)

Digest(bytes) == <<"sha", bytes>>
Sig(key, h) == <<"sig", key, h>>

\* CryptState_sign_node: the payload is Node_bstr(input), signed through
\* its hash; "[[bbbw[bbww" payload, hash, signature, "message", pubkey,
\* name, "identity", "signed".
SignNode(key, name, input) ==
    LET pbuf == NodeBstr(input) IN
    NodeCons(<<"[", "[", "b", "b", "b", "w", "[", "b", "b", "w", "w">>,
             <<pbuf, Digest(pbuf), Sig(key, Digest(pbuf)), Word("message"),
               key, name, Word("identity"), Word("signed")>>)

\* CryptState_verify_signature: "[[bbw[bbbww" into sig_name, pubkey,
\* signature, hash, payload; the name must match; ecc_verify_hash sets
\* sig_stat; the payload is parsed back.
VerifySignature(name, t) ==
    LET d == NodeDecons(t, <<"[", "[", "b", "b", "w", "[", "b", "b", "b", "w", "w">>,
                        <<Word("identity"), Word("message"), Word("signed")>>)
        v(i) == d.out[i].val[2]
    IN IF ~d.ok \/ v(1) # name THEN [stat |-> FALSE, node |-> Null]
       ELSE [stat |-> v(3) = Sig(v(2), v(4)), node |-> NodeParse(v(5))]

DigestNonce(l, r) == Digest(<<l, r>>)

\* CryptState_generate_hate_challenge: right is cut to level_max = 1 <<
\* (level + 1) values, 0 once the shift leaves the unsigned int; "[nnnbw"
\* level, 0, left, hash, "challenge"; signed.
GenerateChallenge(key, name, level, l, r) ==
    LET levelMax == IF level + 1 < 32 THEN 2^(level + 1) ELSE 0
    IN IF levelMax = 0 THEN Null
       ELSE SignNode(key, name,
              NodeCons(<<"[", "n", "n", "n", "b", "w">>,
                       <<level, 0, l, DigestNonce(l, r % levelMax), Word("challenge")>>))

\* CryptState_answer_hate_challenge: verify, "[bnnnw" into hash, left,
\* right, level; right must be 0 and level at most max_allowed_level; then
\* right runs from 0 while below level << (level + 1) until the hash
\* matches (the levels checked are far from wrapping the uint64 shift);
\* the answer "[nnw" left, right, "answer" is signed.
AnswerChallenge(key, name, theirName, t, maxLevel) ==
    LET v == VerifySignature(theirName, t)
        d == NodeDecons(v.node, <<"[", "b", "n", "n", "n", "w">>, <<Word("challenge")>>)
        f(i) == d.out[i].val
        level == f(4)[1]
        bound == level * 2^(level + 1)
        hits == {r \in 0..(bound - 1) : DigestNonce(f(2)[1], r) = f(1)[2]}
    IN IF ~v.stat \/ ~d.ok \/ f(3)[1] # 0 \/ level > maxLevel \/ hits = {} THEN Null
       ELSE SignNode(key, name,
              NodeCons(<<"[", "n", "n", "w">>,
                       <<f(2)[1], CHOOSE r \in hits : \A s \in hits : r <= s, Word("answer")>>))

\* Mutant: the answer is compared without undoing the swap.
ValidateChallengeUnswapped(theirName, t, l, r) ==
    LET v == VerifySignature(theirName, t)
        d == NodeDecons(v.node, <<"[", "n", "n", "w">>, <<Word("answer")>>)
    IN v.stat /\ d.ok /\ l = d.out[1].val[1] /\ r = d.out[2].val[1]

\* CryptState_validate_hate_challenge: verify, "[nnw" into ans.left,
\* ans.right; the expected nonce must come back swapped.
ValidateChallenge(theirName, t, l, r) ==
    LET v == VerifySignature(theirName, t)
        d == NodeDecons(v.node, <<"[", "n", "n", "w">>, <<Word("answer")>>)
    IN v.stat /\ d.ok /\ l = d.out[2].val[1] /\ r = d.out[1].val[1]

====
