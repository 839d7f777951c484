------------------------- MODULE MCMemberDirectory -------------------------
EXTENDS MemberDirectory

\* Keys of one length, as exports of keys on one curve usually are.
MCSameLengthKeys == {<<0, 1>>, <<1, 0>>, <<1, 1>>}

\* Two keys whose first bytes differ by one and whose lengths differ by one.
MCMixedLengthKeys == {<<1>>, <<0, 0>>, <<1, 1>>}
====
