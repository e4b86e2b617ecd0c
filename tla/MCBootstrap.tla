--------------------------- MODULE MCBootstrap ---------------------------
(* Small instances of Bootstrap. *)
EXTENDS Bootstrap

MCSamples == {[form |-> "public", sizes |-> <<2, 1, 1>>],
              [form |-> "movie", sizes |-> <<5>>],
              [form |-> "movie", sizes |-> <<1>>]}
=============================================================================
