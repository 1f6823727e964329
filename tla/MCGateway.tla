------------------------------ MODULE MCGateway ------------------------------
(* Instances of Gateway: one account in force and tokens that are not. *)
EXTENDS Gateway

CONSTANTS anna, bert, p1, p2, good, other, forged, late, nobody

MCSignedWith == [t \in Tokens |-> IF t = forged THEN "HS256" ELSE "EdDSA"]
MCSubject == [t \in Tokens |-> IF t = nobody THEN "not-a-uuid"
                               ELSE IF t = other THEN bert ELSE anna]

Ask(method, path, header, body) ==
    [method |-> method, path |-> path, header |-> header, body |-> body]
By(t) == <<"bearer", t>>

\* A writer and somebody it may meet, while a third wants a connection; or two
\* that go no further.
Answers == Ask("POST", <<"attempts">>, By(good), p1)
Pack == Ask("POST", <<"packs">>, By(good), Malformed)
Link == Ask("POST", <<"players", "link">>, By(good), p1)
Erasure == Ask("DELETE", <<"me">>, By(good), Malformed)
Fetch == Ask("GET", <<"packs", "some">>, By(good), Malformed)
LinkOfAnother == Ask("POST", <<"players", "link">>, By(other), p1)
Probe == Ask("GET", <<"me">>, By(good), Malformed)
Refusals ==
    { <<Ask("POST", <<"attempts">>, By(good), Malformed),
        Ask("DELETE", <<"me">>, By(forged), Malformed)>>,
      <<Ask("POST", <<"packs">>, By(late), Malformed),
        Ask("GET", <<"me", "standing">>, By(nobody), Malformed)>>,
      <<Ask("GET", <<"items", "next">>, By(good), Malformed),
        Ask("GET", <<"packs", "">>, <<"bearer", good, good>>, Malformed)>>,
      <<Ask("POST", <<"health">>, <<>>, Malformed),
        Ask("GET", <<"health">>, <<"bearer">>, Malformed)>> }
MCOffered ==
    {<<Answers, b, Probe>> : b \in {Erasure, Fetch, LinkOfAnother}}
        \cup {<<Link, b, Probe>> : b \in {Erasure, LinkOfAnother}}
        \cup {<<Pack, Erasure, Probe>>}
        \cup {<<Answers, two[1], two[2]>> : two \in Refusals}
=============================================================================
