------------------------------ MODULE MCServices ------------------------------
(***************************************************************************)
(* One TLC run over small instances of Services: "part" says which of them *)
(* a behaviour is about; the others stay where they start, so that the     *)
(* states of the parts add up and do not multiply.                         *)
(***************************************************************************)
EXTENDS Services

CONSTANTS u1, u2, r1, r2, A, B

VARIABLE part

-----------------------------------------------------------------------------
\* Two categories; one customer last bought in the second one, the other is new.
MCCatalogue ==
    LET home == [p \in {"a1", "a2", "b1", "b2"} |-> IF p \in {"b1", "b2"} THEN B ELSE A]
    IN  [order |-> <<A, B>>, top |-> [c \in {A, B} |-> IF c = A THEN <<"a1", "a2">> ELSE <<"b1", "b2">>],
         shelf |-> <<"a1", "a2", "b1", "b2">>, in |-> home,
         stock |-> DOMAIN home, photo |-> DOMAIN home, live |-> DOMAIN home]

MCLastCategory == [u \in Users |-> IF u = u1 THEN B ELSE None]

\* Three products in two categories, two states of 1C's catalogue, the second
\* of which lists a product twice, and files:
\* good, with a place for an unknown product, with a bad price, a feed that
\* gives one product two places.
Item(id, cat, stock, photo) == [id |-> id, cat |-> cat, stock |-> stock, photo |-> photo, tags |-> {}]
MCListings == {<<Item(1, A, TRUE, TRUE), Item(2, A, TRUE, FALSE), Item(3, B, TRUE, TRUE)>>,
               <<Item(2, B, TRUE, TRUE), Item(1, A, FALSE, FALSE), Item(2, A, FALSE, FALSE)>>}
Line(id, cat, numeric, kinds) ==
    [id |-> id, cat |-> cat, stock |-> TRUE, photo |-> TRUE, numeric |-> numeric, kinds |-> kinds]
MCFiles == {[format |-> "xml", rows |-> <<Line(1, A, TRUE, {})>>, declared |-> <<[cat |-> B]>>,
             top5 |-> {[cat |-> A, pos |-> 2, id |-> 2], [cat |-> A, pos |-> 3, id |-> 1]}],
            [format |-> "json", rows |-> <<Line(3, B, TRUE, {"Top", "Related"})>>, declared |-> <<>>, top5 |-> {}],
            [format |-> "yml", rows |-> <<Line(2, A, FALSE, {})>>, declared |-> <<[cat |-> A]>>, top5 |-> {}],
            [format |-> "feed", rows |-> <<Line(2, A, TRUE, {})>>, declared |-> <<>>,
             top5 |-> {[cat |-> A, pos |-> 1, id |-> 2], [cat |-> A, pos |-> 3, id |-> 2]}]}

\* Three batches of letters, with and without an address; the extensions of
\* pictures; bodies of PUT /settings, the second and the last partly refused.
MCBatches == {<<TRUE>>, <<FALSE>>, <<TRUE, FALSE, TRUE>>}
MCExts == <<"png", "jpg">>
MCPatches == {<< <<"url", A>>, <<"number", "5">> >>, << <<"url", A>>, <<"number", Bad>> >>,
              << <<"url", Empty>> >>, << <<"url", Bad>> >>}

-----------------------------------------------------------------------------
\* Categories with and without a top list; one list names a product twice, one a
\* product of the other category.
Shop(topA, topB, stock, photo, live) ==
    [order |-> <<A, B>>, top |-> [c \in {A, B} |-> IF c = A THEN topA ELSE topB],
     shelf |-> <<"a1", "a2", "b1">>, in |-> [p \in {"a1", "a2", "b1"} |-> IF p = "b1" THEN B ELSE A],
     price |-> [p \in {"a1", "a2", "b1"} |-> IF p = "b1" THEN 2 ELSE 1],
     stock |-> stock, photo |-> photo, live |-> live]
Goods == {"a1", "a2", "b1"}
MCShops == {Shop(topA, topB, stock, photo, live) : topA \in {<<>>, <<"a2", "a1">>, <<"a1", "a1">>}, topB \in {<<>>, <<"b1", "a2">>},
                                                   stock \in {Goods, Goods \ {"a1"}, {"b1"}},
                                                   photo \in {Goods, Goods \ {"a2"}}, live \in {Goods, {"a2"}}}

\* The pointer is the rotation's, the order the cross-sell's: each varies alone.
Bought(product, category, price) == [product |-> product, category |-> category, price |-> price]
Items == {<<Bought("a1", None, None)>>, <<Bought("x", None, 3), Bought("b1", None, 1)>>,
          <<Bought("a2", A, 2), Bought("b1", None, None)>>, <<Bought("b1", Gone, 5), Bought("x", A, None)>>,
          <<Bought("x", A, 1), Bought("y", B, 5)>>}
MCCustomers ==
    [start : {A, B, Gone}, recent : SUBSET Goods, limit : {1, 3}, offset : {0, 1}, items : {<<>>}]
    \union [start : {A}, recent : SUBSET Goods, limit : {1, 3}, offset : {0, 1}, items : Items]

-----------------------------------------------------------------------------
Parts == {"race", "pair", "subscribers", "wheel", "attribution", "templates", "catalog", "images",
          "mail", "settings", "panel", "choice"}

\* Best Offer has two parts: two batches and the one customer u1, and the one
\* runner r1 with two customers and no tracking.  The settings have two: with
\* the worker and one request less, and the web process alone.
MCInit ==
    /\ Init
    /\ part \in Parts
    /\ \A u \in Users : subs[u].mailable <=> (u = u1 \/ part = "pair")
    /\ part # "catalog" => listing = CHOOSE l \in MCListings : TRUE
    /\ part # "images" => cdn = {}
    /\ part # "mail" => job.msgs = <<TRUE>> /\ provider = "dev" /\ mta
                        /\ env = [service |-> FALSE, transport |-> "", smtp |-> FALSE, binary |-> FALSE]

MCNext ==
    /\ UNCHANGED part
    /\ \/ part = "race" /\ OfferStep /\ subs'[u2] = subs[u2]
       \/ part = "pair" /\ OfferStep /\ run'[r2] = run[r2] /\ \A n \in DOMAIN log' : log'[n].status \notin Tracked
       \/ part = "subscribers" /\ MailboxStep
       \/ part = "wheel" /\ WheelStep
       \/ part = "attribution" /\ AttributionStep
       \/ part = "templates" /\ TemplateStep
       \/ part = "catalog" /\ CatalogueStep
       \/ part = "images" /\ PictureStep
       \/ part = "mail" /\ MailStep
       \/ part = "settings" /\ SettingsStep /\ saves' < MaxSaves
       \/ part = "panel" /\ SettingsStep /\ UNCHANGED starts
       \/ part = "choice" /\ ChoiceStep

MCSpec == MCInit /\ [][MCNext]_<<part, vars>>

=============================================================================
