----------------------------- MODULE LetterChoice -----------------------------
(***************************************************************************)
(* A letter chooses its products once: any catalogue and any customer, the *)
(* choice of Best Offer (best_offer._send_one) and that of the post-sale   *)
(* letter (postsale._process_one) as ProductPick computes them.            *)
(***************************************************************************)
EXTENDS ProductPick

CONSTANTS
    Shops,      \* states of the catalogue, with prices
    Customers   \* [start, recent, limit, offset, items]: pointer, last letters, order

VARIABLE choice

NoChoice == [shop |-> None]

IsCustomer(c) == /\ c.limit \in Nat \ {0} /\ c.offset \in Nat
                 /\ IsList(c.items) /\ \A i \in ToSet(c.items) : i.price = None \/ i.price \in Int

-----------------------------------------------------------------------------
Init == choice = NoChoice

ChooseLetter(shop, c) ==
    LET pools == top5_map(shop, c.limit)
        known == normalize_order_items(c.items, shop)
    IN  choice' = [shop |-> shop, customer |-> c,
                   rotation |-> rotate_and_pick(c.start, shop.order, pools, c.recent, 2, c.limit, c.offset),
                   letter |-> send_one_pick(shop, c.start, pools, c.recent, c.limit, c.offset),
                   sell |-> pick_cross_sell(known, order_pools(shop, known, c.limit), c.recent, c.limit, c.offset),
                   cross |-> cross_sell_products(shop, c.items, c.recent, c.limit, c.offset)]

Next == choice = NoChoice /\ \E shop \in Shops, c \in Customers : ChooseLetter(shop, c)

-----------------------------------------------------------------------------
\* The rotation over the categories is fair and repeats nothing it need not, and
\* a customer is passed over only if there is nothing to show.
RotationIsFair ==
    choice = NoChoice \/
    LET c == choice.customer IN
        /\ FairRotation(choice.shop.order, top5_map(choice.shop, c.limit), c.recent, c.limit, choice.rotation)
        /\ NothingToShow(choice.shop, choice.letter.ids, c.limit)

\* The cross-sell is fair, and shows nothing bought, sold out or dead.
CrossSellIsFair ==
    choice = NoChoice \/
    LET c == choice.customer
        shop == choice.shop
        known == normalize_order_items(c.items, shop)
    IN  /\ FairCrossSell(c.items, shop, order_pools(shop, known, c.limit), c.recent, c.limit, choice.sell)
        /\ \A i \in DOMAIN choice.cross.ids :
              /\ choice.cross.ids[i] \in shop.stock \intersect shop.photo \intersect shop.live
              /\ \A j \in DOMAIN c.items : c.items[j].product # choice.cross.ids[i]

=============================================================================
