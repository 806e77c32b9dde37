--------------------------- MODULE MCPublications ---------------------------
(* Small instances of Publications for TLC. *)
EXTENDS Publications

Link(owner, source, port, target) ==
  [owner |-> owner, source |-> source, port |-> port, target |-> target]

\* Actor 1 publishes to both actors over routes that actor 2 owns.
FanOut == {Link(2, 1, p, b) : b \in Actor, p \in Port}

\* Every actor starts, drains and stops alone.
Apart == {{a} : a \in Actor}
=============================================================================
