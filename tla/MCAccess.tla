----------------------------- MODULE MCAccess -----------------------------
(* Instances of Access for TLC. *)
EXTENDS Access, TLC
CONSTANTS h1, h2, h3, owner, admin, bob, nobody

MCDids == {owner, admin, bob}

Of(kinds, forms, actors, subjects, changes) ==
    [kind : kinds, form : forms, actor : actors, subject : subjects, change : changes]

(* Every gate, tried by everyone, about bob. *)
Questions ==
    Of({"read"}, {"named", "bare"}, {owner, bob, nobody}, {bob}, {"none"})
        \cup Of({"read", "push"}, {"ssh"}, {bob}, {bob}, {"none"})
        \cup Of({"query"}, {"named"}, {admin, bob}, {bob}, {"none"})
        \cup Of({"query"}, {"bare"}, {owner, bob}, {bob}, {"none"})
        \cup Of({"push"}, {"named"}, {owner, admin, bob}, {bob}, {"none"})
        \cup Of({"roster"}, {"named"}, {bob}, {bob}, {"none"})
        \cup Of({"check"}, {"named"}, {admin, bob, nobody}, {bob}, {"none"})
        \cup Of({"space", "collab"}, {"named"}, {bob}, {bob}, {"addWriter"})
        \cup Of({"delete"}, {"http"}, {bob}, {bob}, {"none"})

(* What the owner does meanwhile. *)
Disturbances ==
    Of({"space"}, {"named"}, {owner}, {bob}, {"publish", "hide", "dismiss"})
        \cup Of({"collab"}, {"named"}, {owner}, {bob}, {"addWriter"})
        \cup Of({"delete"}, {"xrpc"}, {owner}, {bob}, {"none"})

MCWishes == [h \in {h1, h2, h3} |->
               CASE h = h1 -> Questions
                 [] h = h2 -> Disturbances
                 [] OTHER -> Of({"create"}, {"named"}, {owner}, {bob}, {"hide"})]

(* bob reads, or writes while the admin reads; one of them is banned already. *)
Reading == [d \in MCDids |-> IF d = bob THEN "reader" ELSE "none"]
Writing == (owner :> "none") @@ (bob :> "writer") @@ (admin :> "reader")
MCStarts ==
    [visibility : {"private"}, members : {Reading, Writing}, banned : {{bob}, {owner, admin}}]
        \cup [visibility : {"none"}, members : {Reading}, banned : {{bob}}]
=============================================================================
