-------------------------- MODULE MCSecureChannel --------------------------
(* A small instance of SecureChannel: two attempts of one transfer by one  *)
(* device, whose source was edited in between, and two connections of the  *)
(* receiver.  Each attempt has a snapshot of its own.                      *)
EXTENDS SecureChannel, TLC

CONSTANTS i1, i2, r1, r2, alice, bob, s

MCDeviceOf == [e \in Initiators \cup Responders |-> IF e \in Initiators THEN alice ELSE bob]
MCExpects == [i \in Initiators |-> bob]
MCTrusts == (alice :> {bob}) @@ (bob :> {alice})
MCSessionOf == [i \in Initiators |-> s]
MCRootOf == [i \in Initiators |-> i]
MCSizeOf == [kind \in {"ready", "decision", "key"} |-> 1] @@ ("offer" :> 2)

ChannelSymmetry == Permutations({i1, i2}) \cup Permutations({r1, r2})
=============================================================================
