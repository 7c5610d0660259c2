-------------------------- MODULE MCOtaStagedWriter --------------------------
(***************************************************************************)
(* Packages of up to one byte more than the staging area holds, with two   *)
(* kinds of contents, so that the rest of an earlier upload can be told    *)
(* from this one's.                                                        *)
(***************************************************************************)
EXTENDS OtaStagedWriter

Body(kind, n) == [i \in 0 .. n - 1 |-> <<kind, i>>]

Package(h, d, i, b) == [header |-> h, declared |-> d, image |-> i, body |-> b]

MCPackages ==
    {Package("good", n, Body(k, n), Body(k, n)) : n \in 1 .. Capacity, k \in {"old", "new"}}
    \cup {Package("good", n, Body("new", n), Body("new", m)) :
             n \in {0, 2, 3}, m \in {2, 3, 4}}
    \cup {Package("good", Capacity + 1, Body("new", Capacity + 1), Body("new", Capacity + 1)),
          Package("good", 3, Body("new", 3), Body("old", 3)),
          Package("bad fixed part", 2, Body("new", 2), Body("new", 2)),
          Package("bad variable part", 2, Body("new", 2), Body("new", 2))}
=============================================================================
