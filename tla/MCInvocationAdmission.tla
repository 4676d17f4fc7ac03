------------------------ MODULE MCInvocationAdmission ------------------------
(* One session and one task: two requests of one invocation, without and   *)
(* with a scope, and a request of another invocation, not canonical and    *)
(* with two attempts.  Of the other events one is a request without its    *)
(* admission, one is of the in-process path and looks like a start, and    *)
(* one only makes the stream's version move.                               *)
EXTENDS InvocationAdmission, TLC

Plain(id, key, names, start) ==
  [id |-> id, stream |-> "s", key |-> key, names |-> names, start |-> start,
   worker |-> None]

Requested(i, t, r) ==
  Plain(<<"request", i, r>>, <<"execution-request", i>>,
        {<<"invocation", i>>, <<"task", t>>}, FALSE)
Running(t, r) ==
  Plain(<<"running", t, r>>, <<"task-running", t>>, {<<"task", t>>}, FALSE)
Legacy ==
  Plain(<<"legacy", "t", "t">>, <<"invocation-started", "t">>, {<<"task", "t">>},
        TRUE)
Chat == Plain(<<"chat", "s", "s">>, None, {}, FALSE)

Request(i, t, r, scope) ==
  [invocation |-> i, session |-> "s", task |-> t, key |-> i,
   events |-> <<Requested(i, t, r), Running(t, r)>>, scope |-> scope,
   canonical |-> TRUE, pure |-> TRUE, max |-> 1]

Generic(i, t, r) ==
  [Request(i, t, r, None) EXCEPT !.events = <<Requested(i, t, r)>>,
                                 !.canonical = FALSE, !.max = 2]

SmallRequests ==
  {Request("i", "t", "a", None), Request("i", "t", "b", "c"),
   Generic("j", "t", "d")}

SmallEvents ==
  {StartEvent(r, w) : r \in SmallRequests, w \in Workers}
    \cup UNION {{r.events[k] : k \in DOMAIN r.events} : r \in SmallRequests}
    \cup {Legacy, Chat}

SmallOthers == {Legacy, Chat, Requested("i", "t", "a")}

StoreSymmetry == Permutations(Stores) \cup Permutations(Workers)
=============================================================================
