------------------------------- MODULE MCIngest -------------------------------
(* Ingest on two players with a pack of three items each, and the classes    *)
(* that a player who is gone may have left measured.  Items 0 are one        *)
(* difficulty class; items 1, and item 2 of the first pack, are another;     *)
(* item 2 of the second pack is at no step of any ladder.                    *)
EXTENDS Ingest

MCItems == ({"k1", "k2"} \X {0, 1, 2}) \cup ({"gone"} \X {0, 1})
MCPackOf == [i \in MCItems |-> i[1]]
MCSkillOf == [i \in MCItems |-> 1]
MCStepOf == [i \in MCItems |-> CASE i[2] = 0 -> 1
                                 [] i = <<"k2", 2>> -> NoStep
                                 [] OTHER -> 2]

Say(pack, index, session, at, ok) ==
    [item |-> <<pack, index>>, session |-> session, at |-> at, ok |-> ok]

\* A sitting of the first pack, the first item of it answered again in a later
\* one, and a sitting of the second pack.
First == Say("k1", 0, 1, 1, TRUE)
Second == Say("k1", 1, 1, 2, FALSE)
Third == Say("k1", 2, 1, 3, TRUE)
Again == Say("k1", 0, 2, 3, FALSE)
Theirs == {Say("k2", 0, 3, 1, TRUE), Say("k2", 1, 3, 2, TRUE),
           Say("k2", 2, 3, 3, FALSE)}

MCAnswers == {First, Second, Third, Again} \cup Theirs

\* The sitting in parts that share an answer, the item answered again with one
\* of them, the other player's sitting; the same item twice in one body, and
\* more than a batch may have.
MCBatches == {{First}, {Second, Third}, {Again, Second}, Theirs,
              {First, Again}, {First} \cup Theirs}

=============================================================================
