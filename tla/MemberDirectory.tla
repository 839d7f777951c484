--------------------------- MODULE MemberDirectory ---------------------------
(***************************************************************************)
(* The hub's member directory, hub->members (hub/member.c): an sglib      *)
(* red-black tree of Member ordered by MEMBER_COMPARATOR (hub/member.h)    *)
(* on the exported public key. The register action logs a member in        *)
(* (Member_login); half_close logs it out (Member_logout), which yields    *)
(* between marking the queue dead and removing the member.                *)
(*                                                                         *)
(* A key is a byte string, a sequence of naturals. The tree is abstracted *)
(* to the set of members it holds: sglib_Member_delete_if_member removes   *)
(* the member its search reaches, one of those that compare equal to the  *)
(* argument; which one depends on the tree's shape, so it is a choice.    *)
(***************************************************************************)
EXTENDS Integers, Sequences, FiniteSets

CONSTANTS
    Keys,        \* the public keys clients present
    MaxLogins,   \* logins over a behaviour
    MaxPerKey,   \* logins with the same key over a behaviour
    MemcmpDiff   \* TRUE: memcmp returns the byte difference; FALSE: its sign

Ids == 1..MaxLogins
MStates == {"none", "live", "dying", "freed"}

VARIABLES
    tree,    \* the members linked into hub->members
    mkey,    \* mkey[m]: the key of member m
    mst,     \* mst[m]: none (not created), live, dying (in Member_logout), freed
    nlog     \* members created so far

vars == <<tree, mkey, mst, nlog>>

-----------------------------------------------------------------------------
(* MEMBER_COMPARATOR *)

\* memcmp's result for the first differing bytes: its magnitude is not
\* specified, so the build decides between the difference and the sign.
ByteDiff(x, y) ==
    IF MemcmpDiff THEN x - y ELSE IF x < y THEN -1 ELSE 1

\* memcmp(a, b, n)
Memcmp(a, b, n) ==
    LET RECURSIVE From(_)
        From(i) == IF i > n THEN 0
                   ELSE IF a[i] # b[i] THEN ByteDiff(a[i], b[i]) ELSE From(i + 1)
    IN  From(1)

\* memcmp over MIN of the lengths, plus the length difference.
MemberComparator(x, y) ==
    Memcmp(x, y, IF Len(x) < Len(y) THEN Len(x) ELSE Len(y)) + (Len(x) - Len(y))

-----------------------------------------------------------------------------
(* Operations *)

LoginsOf(k) == Cardinality({m \in Ids : mst[m] # "none" /\ mkey[m] = k})

\* Member_login: Member_create exports the peer's key, sglib_Member_add
\* links it in with no check for a member with the same key.
Login(k) ==
    /\ nlog < MaxLogins /\ LoginsOf(k) < MaxPerKey
    /\ LET m == nlog + 1 IN
       /\ mkey' = [mkey EXCEPT ![m] = k]
       /\ mst' = [mst EXCEPT ![m] = "live"]
       /\ tree' = tree \cup {m}
    /\ nlog' = nlog + 1

\* Member_logout up to its taskyield: mark the queue dead, wake.
LogoutBegin(m) ==
    /\ mst[m] = "live"
    /\ mst' = [mst EXCEPT ![m] = "dying"]
    /\ UNCHANGED <<tree, mkey, nlog>>

\* Mutant: the member is destroyed without being unlinked.
LogoutEndNoDelete(m) ==
    /\ mst[m] = "dying"
    /\ mst' = [mst EXCEPT ![m] = "freed"]
    /\ UNCHANGED <<tree, mkey, nlog>>

\* Member_logout after the yield: sglib_Member_delete_if_member (result
\* ignored), then Member_destroy of the argument.
LogoutEnd(m) ==
    /\ mst[m] = "dying"
    /\ \/ \E e \in tree :
            /\ MemberComparator(mkey[e], mkey[m]) = 0
            /\ tree' = tree \ {e}
       \/ /\ \A e \in tree : MemberComparator(mkey[e], mkey[m]) # 0
          /\ UNCHANGED tree
    /\ mst' = [mst EXCEPT ![m] = "freed"]
    /\ UNCHANGED <<mkey, nlog>>

Init ==
    /\ tree = {}
    /\ mkey = [m \in Ids |-> <<>>]
    /\ mst = [m \in Ids |-> "none"]
    /\ nlog = 0

Next ==
    \/ \E k \in Keys : Login(k)
    \/ \E m \in Ids : LogoutBegin(m) \/ LogoutEnd(m)

Spec == Init /\ [][Next]_vars

-----------------------------------------------------------------------------
TypeOK ==
    /\ tree \subseteq Ids
    /\ mst \in [Ids -> MStates]
    /\ \A m \in Ids : mst[m] # "none" => mkey[m] \in Keys
    /\ nlog \in 0..MaxLogins

\* Every member linked into hub->members is allocated: the tree never holds
\* a member Member_logout destroyed (a later add, delete or
\* Member_destroy_map would read its freed key).
DirectoryLive == \A m \in tree : mst[m] \in {"live", "dying"}

====
