------------------------------ MODULE MCUpdate ------------------------------
EXTENDS Update, TLC

MCImage == (2 :> {"b"} @@ 3 :> {} @@ 4 :> {"b"} @@ 5 :> {})
Other == (2 :> {"b"} @@ 3 :> {"b"} @@ 4 :> {} @@ 5 :> {})
MCSignedImages == {MCImage, Other}
Delivered(app) == [p \in 0 .. 7 |-> IF p \in 2 .. 5 THEN app[p] ELSE {"b"}]
MCFactoryFlash == {Delivered([p \in 2 .. 5 |-> {}]), Delivered(Other)}
=============================================================================
