-------------------------- MODULE MCFirewallPolicyOrder --------------------------
(* Two managed policies, an unmanaged one, a predefined one and one of another  *)
(* pair of zones.                                                               *)
EXTENDS FirewallPolicyOrder, TLC

CONSTANTS allowDns, blockAll, byHand, system, toGuest

MCPolicy == {allowDns, blockAll, byHand, system, toGuest}
MCManaged == {allowDns, blockAll}
MCPredefined == {system}
MCElsewhere == {toGuest}
MCOrders == {<<allowDns, blockAll>>, <<blockAll, byHand>>,
             <<allowDns, allowDns>>, <<system, allowDns>>, <<allowDns, toGuest>>}
MCGiven == byHand :> 1 @@ toGuest :> 2 @@ system :> 3
=============================================================================
