-------------------------------- MODULE MCUap --------------------------------
(***************************************************************************)
(* Small callers of the endpoint: two sessions, one key in each, retries   *)
(* under the same and under a new request identifier, a second command for *)
(* the same key, and both forms of collect.                                *)
(***************************************************************************)
EXTENDS UapEndpoint

Greet(s, r, versions, required) ==
  [kind |-> "hello", shape |-> "ok", session |-> s, request |-> r,
   versions |-> versions, required |-> required]
Order(s, r, k, c) ==
  [kind |-> "command", shape |-> "ok", session |-> s, request |-> r,
   version |-> 1, key |-> k, command |-> c]
Poll(s, r, k, version) ==
  [kind |-> "poll", shape |-> "ok", session |-> s, request |-> r,
   version |-> version, key |-> k]
Collect(s, r, k, reclaim) ==
  [kind |-> "collect", shape |-> "ok", session |-> s, request |-> r,
   version |-> 1, key |-> k, reclaim |-> reclaim]
Malformed(kind, s, r, shape) ==
  [kind |-> kind, shape |-> shape, session |-> s, request |-> r]

EffectMessages ==
  {Greet("s1", "r0", << 1 >>, {}),
   Order("s1", "r1", "k", "c"), Order("s1", "r3", "k", "d"),
   Poll("s1", "r4", "k", 1),
   Collect("s1", "r5", "k", "false"), Collect("s1", "r6", "k", "true")}

SessionMessages ==
  {Greet("s1", "r0", << 3, 2, 1 >>, {"poll"}), Greet("s1", "r1", << 2, 1 >>, {}),
   Greet("s1", "r0", << 1 >>, {"poll"}), Greet("s2", "r0", << 2, 3 >>, {}),
   Greet("s2", "r0", << 1, 1 >>, {}), Greet("s2", "r1", << 1 >>, {"push"}),
   Greet("s2", "r0", << 1, 2 >>, {}),
   Order("s1", "r1", "k", "c"), Order("s2", "r1", "k", "d"),
   Order("s1", "r2", "no key", "c"),
   Poll("s1", "r1", "k", 1), Poll("s1", "r2", "k", 2),
   Poll("s2", "r1", "k", 1), Collect("s2", "r2", "k", "maybe"),
   Malformed("other", "s1", "r1", "ok"),
   Malformed("poll", "s1", "r1", "invalid-schema")}

MCMessages == EffectMessages \cup SessionMessages
==============================================================================
