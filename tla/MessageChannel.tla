--------------------------- MODULE MessageChannel ---------------------------
(***************************************************************************)
(* What a transport promises to the diagnostic layer above it: a station   *)
(* submits numbered payloads to its peer, and the peer is handed some of   *)
(* them, each at most once, in the order of submission, and nothing else.  *)
(* A payload may be lost: IsoTpHandler.receive returns None or raises.     *)
(***************************************************************************)
EXTENDS Naturals, Sequences

CONSTANT Link      \* the directions of the channel

VARIABLES submitted,   \* submitted[l]: how many payloads were submitted on l
          received     \* received[l]: the numbers of the payloads handed out

channelVars == <<submitted, received>>

Newest(l) == IF received[l] = <<>> THEN 0 ELSE received[l][Len(received[l])]

Init == /\ submitted = [l \in Link |-> 0]
        /\ received = [l \in Link |-> <<>>]

Submit(l) == /\ submitted' = [submitted EXCEPT ![l] = @ + 1]
             /\ UNCHANGED received

\* Payloads between the newest one handed out and n are lost for good.
HandOut(l, n) == /\ n \in (Newest(l) + 1) .. submitted[l]
                 /\ received' = [received EXCEPT ![l] = Append(@, n)]
                 /\ UNCHANGED submitted

Next == \E l \in Link : Submit(l) \/ \E n \in 1 .. submitted[l] : HandOut(l, n)

Spec == Init /\ [][Next]_channelVars
=============================================================================
