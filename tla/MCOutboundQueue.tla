-------------------------- MODULE MCOutboundQueue --------------------------
(***************************************************************************)
(* Instances of OutboundQueue for TLC.                                     *)
(***************************************************************************)
EXTENDS OutboundQueue, TLC

CONSTANTS m1, m2, r1, r2, r3, d1, d2, a1, a2, u1, u2

\* One message to two domains.
OneIds    == {m1}
OneRcpts  == {r1, r2}
OneEntry  == r1 :> m1 @@ r2 :> m1
TwoDests  == {d1, d2}
OneDest   == r1 :> d1 @@ r2 :> d2
TwoAddrs  == {a1, a2}
OneAddr   == r1 :> a1 @@ r2 :> a2
OneSender == m1 :> u1

\* One message to three recipients of one domain, two of them one address.
ThreeRcpts == {r1, r2, r3}
ThreeEntry == [r \in ThreeRcpts |-> m1]
ThreeDest  == [r \in ThreeRcpts |-> d1]
ThreeAddr  == r1 :> a1 @@ r2 :> a1 @@ r3 :> a2

\* Two messages of two senders that share a domain.
TwoIds     == {m1, m2}
TwoEntry   == r1 :> m1 @@ r2 :> m2 @@ r3 :> m2
CrossDest  == r1 :> d1 @@ r2 :> d1 @@ r3 :> d2
TwoSenders == m1 :> u1 @@ m2 :> u2

Waits1   == {1}
Waits12  == {1, 2}
Steps1   == <<1>>
Steps12  == <<1, 2>>
Wait1    == <<1>>

============================================================================
