------------------------- MODULE MCSessionLifecycle -------------------------
EXTENDS SessionLifecycle, TLC
CONSTANTS c1, c2, a1, a2, u1, u2, r1
MCAddr == c1 :> a1 @@ c2 :> a2
\* The address of the second socket is a user id.
MCAddrIsUser == c1 :> a1 @@ c2 :> u1
\* The sockets may be renamed together with their addresses.
MCSymmetry ==
  {p \in Permutations({c1, c2, a1, a2}) : \A c \in Conn : p[c] \in Conn /\ Addr[p[c]] = p[Addr[c]]}
=============================================================================
