----------------------------- MODULE MCDeletion -----------------------------
(* One external volume and two roots: the first is a plain directory on    *)
(* the startup disk with the volume mounted inside it, the second is a     *)
(* symlink to a directory on the volume.                                   *)
EXTENDS Deletion

CONSTANTS r1, r2, v1

MCOn     == [p \in Path |-> IF p = 1 THEN None ELSE v1]
MCRootOf == [p \in Path |-> IF p = 3 THEN r2 ELSE r1]
MCRootOn == [r \in Root |-> IF r = r1 THEN None ELSE v1]
MCConfig == {[include |-> {r1, r2}, deny |-> {}], [include |-> {r1}, deny |-> {1}]}
=============================================================================
