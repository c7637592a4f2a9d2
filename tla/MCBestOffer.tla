----------------------------- MODULE MCBestOffer -----------------------------
(* An instance of BestOffer for TLC: two categories, one with four products. *)
EXTENDS BestOffer

MCCatalogue ==
    LET home == [p \in {"a1", "a2", "a3", "a4", "b1", "b2"} |->
                    IF p \in {"b1", "b2"} THEN "B" ELSE "A"]
    IN  [order |-> <<"A", "B">>, top |-> [A |-> <<"a1", "a2", "a3", "a4">>, B |-> <<"b1", "b2">>],
         shelf |-> <<"a1", "a2", "a3", "a4", "b1", "b2">>, in |-> home,
         stock |-> DOMAIN home, photo |-> DOMAIN home, live |-> DOMAIN home]

\* One customer last bought in the second category, the others are unknown.
MCLastCategory == LET buyer == CHOOSE u \in Users : TRUE
                  IN  [u \in Users |-> IF u = buyer THEN "B" ELSE None]

=============================================================================
