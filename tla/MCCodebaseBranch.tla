-------------------------- MODULE MCCodebaseBranch --------------------------
(* Small instances of CodebaseBranch for TLC. *)
EXTENDS CodebaseBranch

Start(versioning, fromRef, pipelines, version, image, foreign) ==
    [versioning |-> versioning, fromRef |-> fromRef, pipelines |-> pipelines,
     version |-> version, stream |-> image, foreign |-> foreign]

\* Every value of every field.
MCStarts ==
    {Start("semver", "commit", FALSE, 1, "none", FALSE),
     Start("semver", "default", TRUE, NoVersion, "unlabelled", FALSE),
     Start("default", "missing", TRUE, NoVersion, "none", FALSE),
     Start("default", "unknown", TRUE, NoVersion, "none", FALSE),
     Start("default", "default", TRUE, NoVersion, "none", TRUE)}
=============================================================================
