------------------------------ MODULE MCMigrate ------------------------------
EXTENDS Migrate, TLC

\* The images of five deploys: two files, a third, the third without the
\* second (a branch that has not been merged), one of them edited, and a file
\* the database raises on.
MCDirectories ==
    {1 :> "a" @@ 2 :> "a",
     1 :> "a" @@ 2 :> "a" @@ 3 :> "a",
     1 :> "a" @@ 3 :> "a",
     1 :> "b" @@ 2 :> "a",
     1 :> "a" @@ 2 :> "b"}
MCRaising == {[name |-> 2, checksum |-> "b"]}
=============================================================================
