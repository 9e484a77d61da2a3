------------------------------- MODULE MCRelay -------------------------------
(* A small instance of Relay: one branch with two parents' connections and *)
(* two of its child, and a later job over the same relay.                  *)
EXTENDS Relay, TLC

CONSTANTS p1, p2, p3, c1, c2, n1, n2, sender, kid, relay, k1,
          obj1, obj2, text1, text2

MCDeviceOf == [s \in Parents \cup Children |-> IF s \in Parents THEN sender ELSE kid]

MCBranchOf == [s \in Parents \cup Children |-> IF s = p3 THEN n2 ELSE n1]

Session(objects, grantEnds, jobEnds) ==
    [job |-> [sender |-> sender, recipients |-> {kid, relay}, relayed |-> TRUE,
              ends |-> jobEnds],
     grant |-> [relay |-> relay, children |-> {kid}, objects |-> {obj1, obj2},
                bytes |-> 3, ends |-> grantEnds],
     assignment |-> [relay |-> relay, parent |-> sender, child |-> kid,
                     objects |-> objects, bytes |-> 2, ends |-> grantEnds]]

(* The first job ends while the second, about other objects, goes on.      *)
MCOpen == (n1 :> Session({obj1}, 1, 1)) @@ (n2 :> Session({obj2}, 2, 2))

MCObjectOf == [k \in Keys |-> obj1]

MCSizeOf == [k \in Keys |-> 1]

RelaySymmetry == Permutations({p1, p2}) \cup Permutations({c1, c2})
                 \cup Permutations(Bodies)
=============================================================================
