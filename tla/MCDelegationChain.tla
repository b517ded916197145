--------------------------- MODULE MCDelegationChain ---------------------------
(* A small instance of DelegationChain: two actions, patterns of up to three  *)
(* segments (one of them not canonical), two constraint keys, two lifetimes.  *)
EXTENDS DelegationChain

CONSTANTS a, b, star, bad, badEntry, read, write, amount, env, prod, malformed, svc, other

NoConstraints == [k \in {} |-> 0]
ConstraintMaps == {NoConstraints, [k \in {amount} |-> 2], [k \in {amount} |-> 1],
                   [k \in {amount, env} |-> IF k = amount THEN 2 ELSE prod]}
BadConstraintMaps == {[k \in {amount} |-> 0], [k \in {env} |-> malformed]}

ResourceLists == {{<<a, star>>}, {<<a, b>>, <<b>>}, {<<a, b, star>>}, {<<a, b>>}, {<<star>>}, {<<a>>}, {}}

MCRequests ==
  [actions : {{read}, {read, write}}, resources : ResourceLists, expires : {2, 3},
   maxDepth : {0, 2}, maxUses : {0, 1}, constraints : ConstraintMaps]
  \union
  [actions : {{}, {read, badEntry}}, resources : {{<<a, b>>}, {<<a, b>>, badEntry}}, expires : {1, 2, 5},
   maxDepth : {0}, maxUses : {0}, constraints : ConstraintMaps \union BadConstraintMaps]

MCGrants ==
  [audiences : {{svc}, {svc, badEntry}}, actions : {{read, write}},
   resources : {{<<a, star>>, <<b>>}, {<<a, b>>}, {<<a, bad>>}}, maxTTL : {2, 9},
   maxDelegationDepth : {0, 2}, canDelegate : BOOLEAN, maxUses : {0, 1},
   constraints : {NoConstraints, [k \in {amount} |-> 2]}]

MCProbes ==
  [action : {read, write}, resource : {<<a>>, <<b>>, <<a, b>>, <<a, a>>, <<a, b, a>>, <<a, star>>},
   values : {NoConstraints, [k \in {amount} |-> 2],
             [k \in {amount, env} |-> IF k = amount THEN 1 ELSE prod]},
   time : {1, 2, 3}]
===============================================================================
