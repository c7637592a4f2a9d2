----------------------------- MODULE ProductPick -----------------------------
(***************************************************************************)
(* How a letter gets its products (app/product_pick.py, the pure parts of  *)
(* app/best_offer.py and app/postsale.py, app/images.py): the pool of each *)
(* category, the rotation over categories with de-duplication against the  *)
(* customer's last letters, the fallback to the whole catalogue, and the   *)
(* cross-sell to an order.                                                 *)
(*                                                                         *)
(* A catalogue is a record: order, the categories by sort_order; top, the  *)
(* top-5 list of each category; shelf, all products by updated_at; in,     *)
(* the category of each; price; and the sets stock (in_stock), photo       *)
(* (image_url not empty) and live (the picture answers when it is warmed). *)
(* The fallback reads the whole shelf: its LIMIT 60 is never met here.     *)
(***************************************************************************)
EXTENDS Integers, Sequences, FiniteSets, SequencesExt, FiniteSetsExt

CONSTANT None  \* null: no category

IsList(s) == s \in Seq(ToSet(s))

\* The keys of the tables; that of a top list is the position, so the list may
\* name a product twice.
IsCatalogue(cat) ==
    /\ IsList(cat.order) /\ IsInjective(cat.order) /\ None \notin ToSet(cat.order)
    /\ IsList(cat.shelf) /\ IsInjective(cat.shelf)
    /\ cat.top \in [ToSet(cat.order) -> Seq(ToSet(cat.shelf))]
    /\ cat.in \in [ToSet(cat.shelf) -> ToSet(cat.order)]
    /\ cat.stock \union cat.photo \union cat.live \subseteq ToSet(cat.shelf)

Smaller(a, b) == IF a < b THEN a ELSE b
Take(s, n) == SubSeq(s, 1, Smaller(n, Len(s)))

\* The elements of S one after the other; before is a total order of them.
\* (The library's sorting, filtering and folding recurse.)
InOrder(S, before) ==
    [n \in 1 .. Cardinality(S) |-> CHOOSE x \in S : Cardinality({y \in S : <<y, x>> \in before}) = n - 1]

\* The elements of s at the places K; of all of ss, one list after the other.
Keep(s, K) == LET at == InOrder(K, {p \in K \X K : p[1] < p[2]})
              IN  [n \in 1 .. Cardinality(K) |-> s[at[n]]]
Joined(ss) ==
    LET places == UNION {{j} \X (DOMAIN ss[j]) : j \in DOMAIN ss}
        at == InOrder(places, {p \in places \X places : \/ p[1][1] < p[2][1]
                                                        \/ p[1][1] = p[2][1] /\ p[1][2] < p[2][2]})
    IN  [n \in 1 .. Cardinality(places) |-> ss[at[n][1]][at[n][2]]]

Without(s, S) == Keep(s, {i \in DOMAIN s : s[i] \notin S})
Only(s, S) == Keep(s, {i \in DOMAIN s : s[i] \in S})
Distinct(s) == Keep(s, {i \in DOMAIN s : \A j \in DOMAIN s : j < i => s[j] # s[i]})

\* Mutant: the list does not wrap around.
rotate_ids_clamped(ids, offset) == [i \in 1 .. Len(ids) |-> ids[Smaller(i + offset, Len(ids))]]

\* A list read from another starting point.
rotate_ids(ids, offset) ==
    LET o == offset % Len(ids)
    IN  [i \in 1 .. Len(ids) |-> ids[IF i + o <= Len(ids) THEN i + o ELSE i + o - Len(ids)]]

\* Products of the last n best-offer and post-sale letters of a customer whose
\* status is still "sent"; letters is newest first.
recent_sent_products(letters, n) ==
    LET sent == Keep(letters, {i \in DOMAIN letters : letters[i].status = "sent"})
    IN  UNION {l.products : l \in ToSet(Take(sent, n))}

send_offset(letters) == Cardinality({i \in DOMAIN letters : letters[i].status = "sent"})

\* The pool of a category: its top-5 in stock, topped up from the catalogue
\* (in stock, with a photo) until it holds perCat.
top5_map(cat, perCat) ==
    [c \in ToSet(cat.order) |->
        LET top == Only(cat.top[c], cat.stock)
            extra == Only(cat.shelf, {p \in (cat.stock \intersect cat.photo) \ ToSet(top) : cat.in[p] = c})
        IN  IF Len(top) >= perCat THEN top ELSE top \o Take(extra, perCat - Len(top))]

\* From start on, cyclically, the first category with minItems products that
\* are not recent is the primary one, and the letter is filled up from it and
\* the following ones.  If there is none, the first category with any product
\* is, and recent products are allowed.  The pointer moves past the primary.
rotate_and_pick(start, order, pools, recent, minItems, limit, offset) ==
    LET n == Len(order)
        first == IF Contains(order, start) THEN CHOOSE i \in 1 .. n : order[i] = start ELSE 1
        turn == rotate_ids(order, first - 1)
        good == {k \in 1 .. n : Len(Without(pools[turn[k]], recent)) >= minItems}
        some == {k \in 1 .. n : pools[turn[k]] # <<>>}
        k == Min(IF good # {} THEN good ELSE some)
        row == Joined([j \in 1 .. n |-> rotate_ids(pools[rotate_ids(turn, k - 1)[j]], offset)])
    IN  IF good \union some = {} THEN [primary |-> None, ids |-> <<>>, pointer |-> start]
        ELSE [primary |-> turn[k],
              ids |-> Take(Distinct(IF good # {} THEN Without(row, recent) ELSE row), limit),
              pointer |-> turn[(k % n) + 1]]

\* _load_products and warm_products(require_live): what is sold out by now,
\* has no photo or a dead one drops out; the order stays.
load_products(cat, ids) == Only(Distinct(ids), cat.stock \intersect cat.photo)
photo_first(cat, ids, limit) == Take(Only(ids, cat.photo), limit)
warm_products(cat, ids) == Only(ids, cat.live)

\* Anything in stock with a photo: the products that are not recent first and,
\* where they are too few, the others.
fallback_catalog_products(cat, recent, limit, offset) ==
    LET all == Only(cat.shelf, cat.stock \intersect cat.photo)
        new == Take(rotate_ids(Without(all, recent), offset), limit)
        rest == rotate_ids(Without(all, ToSet(new)), offset)
    IN  warm_products(cat, Take(new \o rest, limit))

\* The choice of _send_one: category of the letter, its products, the pointer
\* to store.
send_one_pick(cat, start, pools, recent, limit, offset) ==
    LET pick == rotate_and_pick(start, cat.order, pools, recent, 2, limit, offset)
        chosen == warm_products(cat, photo_first(cat, load_products(cat, pick.ids), limit))
    IN  IF chosen # <<>> THEN [pick EXCEPT !.ids = chosen]
        ELSE [pick EXCEPT !.ids = fallback_catalog_products(cat, recent, limit, offset)]

-----------------------------------------------------------------------------
\* The order of a customer: items name a product and, perhaps, its category
\* and price; the catalogue supplies what is missing, and an item without a
\* category is left out.
normalize_order_items(items, cat) ==
    LET known(i) == i.product \in DOMAIN cat.in
        CatOf(i) == IF i.category = None /\ known(i) THEN cat.in[i.product] ELSE i.category
        PriceOf(i) == IF i.price # None THEN i.price
                      ELSE IF known(i) THEN cat.price[i.product] ELSE 0
        full == [j \in DOMAIN items |-> [product |-> items[j].product, category |-> CatOf(items[j]),
                                         price |-> PriceOf(items[j])]]
    IN  Keep(full, {j \in DOMAIN full : full[j].category # None})

\* Mutant: in the order's order.
ByPosition(items) == [i \in DOMAIN items |-> items[i].category]

\* Categories of the order by falling price, equal prices in the order's order.
ByPrice(items) ==
    LET dearer == {p \in (DOMAIN items) \X (DOMAIN items) :
                      LET a == items[p[1]].price
                          b == items[p[2]].price
                      IN  a > b \/ (a = b /\ p[1] < p[2])}
        rank == InOrder(DOMAIN items, dearer)
    IN  [i \in DOMAIN items |-> items[rank[i]].category]

\* Products of these categories that were not bought and are not recent; if
\* that leaves nothing, recent ones too.
pick_cross_sell(items, pools, recent, limit, offset) ==
    LET bought == {items[i].product : i \in DOMAIN items}
        cats == ByPrice(items)
        Pool(c) == IF c \in DOMAIN pools THEN rotate_ids(pools[c], offset) ELSE <<>>
        row == Joined([i \in DOMAIN cats |-> Pool(cats[i])])
        strict == Without(row, bought \union recent)
        offered == IF strict # <<>> THEN strict ELSE Without(row, bought)
    IN  IF offered = <<>> THEN [primary |-> None, ids |-> <<>>]
        ELSE [primary |-> cats[Min({i \in DOMAIN cats : Contains(Pool(cats[i]), Head(offered))})],
              ids |-> Take(Distinct(offered), limit)]

\* postsale._top5_map: the pools of the order's categories.
order_pools(cat, items, perCat) ==
    LET pools == top5_map(cat, perCat)
    IN  [c \in {items[i].category : i \in DOMAIN items} \intersect DOMAIN pools |-> pools[c]]

\* The choice of _process_one: the cross-sell and what of it can be shown.
cross_sell_products(cat, items, recent, limit, offset) ==
    LET known == normalize_order_items(items, cat)
        sell == pick_cross_sell(known, order_pools(cat, known, limit), recent, limit, offset)
    IN  [sell EXCEPT !.ids = warm_products(cat, photo_first(cat, load_products(cat, sell.ids), limit))]

-----------------------------------------------------------------------------
\* What the two choices promise, stated over sets.

Full(ids, S, limit) == /\ Len(ids) = Smaller(limit, Cardinality(S))
                       /\ Cardinality(ToSet(ids)) = Len(ids)

\* The places of a pool that are not recent; a product a top list names twice
\* stands at two.
Places(pool, recent) == {i \in DOMAIN pool : pool[i] \notin recent}

\* The letter repeats nothing from the last letters as long as some category
\* has two places left, it is as full as the pools allow, products of the
\* primary category come first, at least two of them if its pool names each
\* once, and the pointer moves on by one (ТЗ 2.4).
FairRotation(order, pools, recent, limit, pick) ==
    LET all == UNION {ToSet(pools[c]) : c \in ToSet(order)}
        enough == \E c \in ToSet(order) : Cardinality(Places(pools[c], recent)) >= 2
        usable == IF enough THEN all \ recent ELSE all
        own == ToSet(pools[pick.primary]) \intersect usable
    IN  /\ Full(pick.ids, usable, limit)
        /\ all # {} => /\ ToSet(Take(pick.ids, Cardinality(own))) \subseteq own
                       /\ enough => /\ Cardinality(Places(pools[pick.primary], recent)) >= 2
                                    /\ IsInjective(pools[pick.primary]) => Cardinality(own) >= 2
                       /\ \E i \in DOMAIN order : /\ order[i] = pick.primary
                                                  /\ order[(i % Len(order)) + 1] = pick.pointer
        /\ ToSet(pick.ids) \subseteq usable

\* A letter without products is given up only when nothing in the catalogue
\* could be shown, provided the letter has room for all of it.
NothingToShow(cat, ids, limit) ==
    ids = <<>> /\ Len(cat.shelf) <= limit => cat.stock \intersect cat.photo \intersect cat.live = {}

\* Cross-sell never offers what was just bought, offers a recent product only
\* if there is nothing else, is as full as the pools allow, and starts with
\* the dearest category that has something to offer (ТЗ 4.4).
FairCrossSell(items, cat, pools, recent, limit, sell) ==
    LET known == normalize_order_items(items, cat)
        cats == {known[i].category : i \in DOMAIN known} \intersect DOMAIN pools
        bought == {items[i].product : i \in DOMAIN items}
        rest == (UNION {ToSet(pools[c]) : c \in cats}) \ bought
        usable == IF rest \subseteq recent THEN rest ELSE rest \ recent
        Price(c) == Max({known[i].price : i \in {j \in DOMAIN known : known[j].category = c}})
    IN  /\ Full(sell.ids, usable, limit) /\ ToSet(sell.ids) \subseteq usable
        /\ usable # {} => /\ Head(sell.ids) \in ToSet(pools[sell.primary])
                          /\ \A c \in cats : ToSet(pools[c]) \intersect usable # {} =>
                                              Price(c) <= Price(sell.primary)

=============================================================================
