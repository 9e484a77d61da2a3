---------------------------- MODULE PrivateLine ----------------------------
(***************************************************************************)
(* What a secure channel promises its two ends, whatever happens to the    *)
(* frames: each hears, of what the other has said, a beginning, in order,  *)
(* each part once, and only from the one it is connected to, who is        *)
(* connected to it.                                                        *)
(***************************************************************************)
EXTENDS Integers, Sequences

CONSTANTS Ends, Bodies, None

VARIABLES partner, said, heard

Init ==
    /\ partner = [e \in Ends |-> None]
    /\ said = [e \in Ends |-> <<>>]
    /\ heard = [e \in Ends |-> <<>>]

(* An end decides whom it talks to, for good; one that answers begins to   *)
(* talk at once.                                                           *)
Engage(e, d) ==
    /\ partner[e] = None
    /\ partner' = [partner EXCEPT ![e] = d]
    /\ \/ UNCHANGED said
       \/ \E body \in Bodies : said' = [said EXCEPT ![e] = Append(@, body)]
    /\ UNCHANGED heard

Say(e, body) ==
    /\ partner[e] # None
    /\ said' = [said EXCEPT ![e] = Append(@, body)]
    /\ UNCHANGED <<partner, heard>>

Hear(e) ==
    LET d == partner[e]
        n == Len(heard[e]) + 1
    IN
    /\ d # None /\ partner[d] = e /\ n <= Len(said[d])
    /\ heard' = [heard EXCEPT ![e] = Append(@, said[d][n])]
    /\ UNCHANGED <<partner, said>>

Next ==
    \E e \in Ends :
        \/ \E d \in Ends : Engage(e, d)
        \/ \E body \in Bodies : Say(e, body)
        \/ Hear(e)

Spec == Init /\ [][Next]_<<partner, said, heard>>
=============================================================================
