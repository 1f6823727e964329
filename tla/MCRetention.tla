----------------------------- MODULE MCRetention -----------------------------
EXTENDS Retention, TLC
CONSTANTS k1, i1, i2, i3, s1

\* One session over one pack, in two skills.
MCPackOf == i1 :> k1 @@ i2 :> k1 @@ i3 :> k1
MCSessionOf == i1 :> s1 @@ i2 :> s1 @@ i3 :> s1
MCSkillOf == i1 :> 1 @@ i2 :> 1 @@ i3 :> 2
=============================================================================
