------------------------ MODULE MCProtectedOperations ------------------------
(* One subject, one resource and two actions: the role grants reading, and *)
(* two chains claim writing: a sound one, and one whose child has an action*)
(* that its parent lacks.  A replica may deliver another state of revision *)
(* 1.                                                                      *)
EXTENDS ProtectedOperations, TLC

Root(actions) ==
  [fingerprint |-> <<"root", actions>>, nonce |-> "n1", issuer |-> "u",
   subject |-> "u", actions |-> actions, resources |-> {"x"}, issued |-> 0,
   from |-> 0, to |-> 1, audience |-> "service", parent |-> None]

Leaf(parent) ==
  [fingerprint |-> <<"leaf", parent>>, nonce |-> "n2", issuer |-> "u",
   subject |-> "v", actions |-> {"write"}, resources |-> {"x"}, issued |-> 0,
   from |-> 0, to |-> 1, audience |-> "service",
   parent |-> Root(parent).fingerprint]

Chain(parent) ==
  [claims |-> <<Root(parent), Leaf(parent)>>, kids |-> <<"k", "k">>]

SmallEnvelopes == {Chain({"read", "write"}), Chain({"read"})}

SmallKeys == [k \in {"k"} |-> [principal |-> "u", root |-> TRUE, from |-> 0, to |-> 3]]

SmallSnapshots ==
  {[revision |-> 0, revoked |-> {}],
   [revision |-> 1, revoked |-> {<<"u", "n1">>}],
   [revision |-> 1, revoked |-> {}]}

SmallRequests ==
  {[scope |-> "s", subject |-> "v", action |-> a, resource |-> "x"] :
     a \in {"read", "write"}}

SmallMembers ==
  {None} \cup {[id |-> "v", active |-> x, grants |-> {<<"read", "x">>}] :
                 x \in BOOLEAN}
SmallRings == [{"k"} -> {"active", None}]

ThreadSymmetry == Permutations(Threads)
=============================================================================
