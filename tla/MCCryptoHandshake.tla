------------------------- MODULE MCCryptoHandshake -------------------------
EXTENDS CryptoHandshake, TLC

CONSTANTS c1, c2

\* Two connections between the same hub and client identities, so frames
\* of one can be replayed into the other.
MCConns == {c1, c2}

\* Connections are interchangeable: nothing in the code tells them apart.
MCSymmetry == Permutations(MCConns)

\* The encrypted frames a network attacker may record and replay.
MCReplayEncrypted == {"init", "resp", "final", "data"}

\* Every frame, the hub's cleartext first message included.
MCReplayAll == {"start", "init", "resp", "final", "data"}

W == INSTANCE WireFormats

\* Nonce halves that tell left from right, zero among them.
MCHalves == {<<1, 2>>, <<0, 3>>}

\* The layout checks below are constants: TLC evaluates them once, and the
\* invariants that name them cost nothing per state.
LayoutsAgree ==
  LET OK(out) == [ok |-> TRUE, out |-> out]
      N(v) == W!Num(v)
      B(v) == W!Bytes(v)
      Env == W!ReadEnvelope(W!Wire(W!Envelope("ct", "tag"))) = OK(<<B("tag"), B("ct")>>)
  IN [kind \in {"start", "init", "resp", "final", "data"} |->
      \A m, t \in MCHalves :
      CASE kind = "start" ->
             W!InitiatorReadsStart(W!Wire(W!ReceiverStart(m[1], m[2], "PubR")))
               = OK(<<B("PubR"), N(m[1]), N(m[2])>>)
        [] kind = "init" ->
             /\ W!ReceiverReadsHeader(W!Wire(W!InitiatorHeader("PubI"))) = OK(<<B("PubI")>>)
             /\ W!ReceiverReadsInit(W!Wire(W!InitiatorStartPayload("nameI", "sesI", m[1], m[2])))
                  = OK(<<N(m[1]), N(m[2]), B("sesI"), W!Str("nameI")>>)
             /\ Env
        [] kind = "resp" ->
             /\ W!InitiatorReadsResponse(W!Wire(W!ReceiverFinalPayload("nameR", "sesR", t[1], t[2], m[1], m[2])))
                  = OK(<<N(m[1]), N(m[2]), N(t[1]), N(t[2]), B("sesR"), W!Str("nameR")>>)
             /\ Env
        [] kind = "final" ->
             /\ W!ReceiverReadsFinal(W!Wire(W!InitiatorFinalPayload(t[1], t[2]))) = OK(<<N(t[1]), N(t[2])>>)
             /\ Env
        [] kind = "data" -> Env]

ChallengesAnswered ==
  \A level \in 1..3 : \A r \in 0..(2^(level + 2) - 1) :
  \A maxLevel \in {level - 1, level} \ {0} :
    LET ans == W!AnswerChallenge("K2", "peer2", "peer1",
                 W!Wire(W!GenerateChallenge("K1", "peer1", level, 7, r)), maxLevel)
    IN IF maxLevel < level THEN ans = W!Null
       ELSE ans # W!Null /\ W!ValidateChallenge("peer2", W!Wire(ans), 7, r % 2^(level + 1))

(* Every field of the handshake reaches the variable meant for it.  For  *)
(* each of the four messages and the envelope, what the reading side's   *)
(* Node_decons format takes out of Node_parse(Node_bstr(Node_cons(..)))  *)
(* is what the sending side put in, and a nonce's halves arrive as left  *)
(* and right, not swapped: crypto.c writes "[nnbw" from me.right, me.left *)
(* and reads "[bnnw" into them.left, them.right, relying on Node_cons    *)
(* reversing the list and Node_bstr writing it back in insertion order.  *)
(* Stated of every frame in flight, by its kind.                         *)
HandshakeFieldsAgree ==
  \A p \in Parties : \A i \in DOMAIN chan[p] : LayoutsAgree[chan[p][i].kind]

(* A hate challenge is answered and the answer validates.  For levels 1   *)
(* to 3 and every right half the random nonce can have, the challenge     *)
(* that CryptState_generate_hate_challenge signs, once it has crossed the *)
(* wire, is answered by CryptState_answer_hate_challenge when the level   *)
(* is allowed and refused when it is not, and the signed answer is        *)
(* accepted by CryptState_validate_hate_challenge against the expected    *)
(* nonce (which the answer carries swapped).  Level 0 is left out: its    *)
(* answer is never found (see README).  Stated for every party that has *)
(* established its identity, the admission control the challenge is for. *)
HateChallengeAnswered ==
  \A p \in Parties : st[p].pc = "estab" => ChallengesAnswered
====
