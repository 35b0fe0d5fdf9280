-------------------------- MODULE MCRepoLifecycle --------------------------
(* Instances of RepoLifecycle for TLC. *)
EXTENDS RepoLifecycle
CONSTANTS h1, h2, h3, owner, bob
MCAll == {{a, b} : a, b \in Kinds}

(* The overlaps that break what Lifecycle.cfg checks; README.md tells how. *)
MCOverlap == MCAll \ {{"create", "delete"}, {"create", "push"}, {"delete", "space"}}
=============================================================================
