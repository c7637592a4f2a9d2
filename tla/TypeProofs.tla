------------------------------- MODULE TypeProofs --------------------------------
(***************************************************************************)
(* All parts of Services keep their types.  The last of them is Best       *)
(* Offer: that its letters name products and its pointers categories rests *)
(* on what the choice of products returns.                                 *)
(***************************************************************************)
EXTENDS PickProofs, SupplyProofs, PanelProofs, CustomerProofs

-----------------------------------------------------------------------------
(* The products of a Best Offer letter are products, and its pointer is a category. *)

LEMMA DrawTyped ==
    ASSUME NEW P, NEW C, NEW ord \in Seq(C), Pick!ToSet(ord) = C, NEW pools, ArePools(pools, C, P),
           NEW recent, NEW start, NEW limit \in Nat, NEW offset \in Nat,
           NEW drawn, drawn = Pick!rotate_and_pick(start, ord, pools, recent, 2, limit, offset)
    PROVE  drawn.ids \in Seq(P) /\ drawn.pointer \in C \union {start}
<1> DEFINE n == Len(ord)
           first == IF Pick!Contains(ord, start) THEN CHOOSE i \in 1 .. n : ord[i] = start ELSE 1
           turn == Pick!rotate_ids(ord, first - 1)
           good == {k \in 1 .. n : Len(Pick!Without(pools[turn[k]], recent)) >= 2}
           some == {k \in 1 .. n : pools[turn[k]] # <<>>}
           k0 == Pick!Min(IF good # {} THEN good ELSE some)
           strip == Pick!Joined([j \in 1 .. n |-> Pick!rotate_ids(pools[Pick!rotate_ids(turn, k0 - 1)[j]], offset)])
           base == IF good # {} THEN Pick!Without(strip, recent) ELSE strip
<1>1. n \in Nat /\ DOMAIN ord = 1 .. n /\ ord \in [1 .. n -> C]
  BY LenProperties
<1>2. n # 0 => first \in 1 .. n
  <2>1. CASE Pick!Contains(ord, start)
    <3>1. \E i \in 1 .. n : ord[i] = start
      BY <2>1 DEF Pick!Contains
    <3>2. (CHOOSE i \in 1 .. n : ord[i] = start) \in 1 .. n
      BY <3>1, Zenon
    <3>3. QED
      BY <2>1, <3>2
  <2>2. CASE ~Pick!Contains(ord, start)
    BY <1>1, <2>2
  <2>3. QED
    BY <2>1, <2>2
<1>3. first - 1 \in Nat
  <2>1. CASE n = 0
    <3>1. ~Pick!Contains(ord, start)
      BY <2>1 DEF Pick!Contains
    <3>2. QED
      BY <3>1
  <2>2. CASE n # 0
    BY <1>1, <1>2, <2>2
  <2>3. QED
    BY <2>1, <2>2
<1>4. drawn = IF good \union some = {} THEN [primary |-> None, ids |-> <<>>, pointer |-> start]
              ELSE [primary |-> turn[k0], ids |-> Pick!Take(Pick!Distinct(base), limit), pointer |-> turn[(k0 % n) + 1]]
  BY Zenon DEF Pick!rotate_and_pick
<1> HIDE DEF n, first
<1>5. /\ turn \in Seq(C) /\ Len(turn) = n /\ Pick!ToSet(turn) = C
      /\ first - 1 < n => \A i \in 1 .. n : turn[i] = ord[Turned(i, first - 1, n)]
  <2> HIDE DEF turn
  <2>1. turn = Pick!rotate_ids(ord, first - 1)
    BY DEF turn
  <2>2. QED
    BY <1>3, <2>1, RotateFacts DEF n
<1> HIDE DEF turn
<1>6. DOMAIN turn = 1 .. n /\ (\A k \in 1 .. n : turn[k] \in C) /\ \A c \in C : \E k \in 1 .. n : turn[k] = c
  <2>1. DOMAIN turn = 1 .. n /\ \A k \in 1 .. n : turn[k] \in C
    BY <1>5, LenProperties
  <2>2. \A c \in C : \E k \in 1 .. n : turn[k] = c
    BY <1>5, <2>1 DEF Pick!ToSet
  <2>3. QED
    BY <2>1, <2>2
<1>7. good \in SUBSET (1 .. n) /\ some \in SUBSET (1 .. n)
  OBVIOUS
<1> HIDE DEF good, some
<1>8. CASE good \union some = {}
  <2>1. drawn.ids = <<>> /\ drawn.pointer = start
    BY <1>4, <1>8
  <2>2. QED
    BY <2>1, EmptySeq
<1>9. CASE good \union some # {}
  <2>1. k0 \in (IF good # {} THEN good ELSE some)
    <3>1. (IF good # {} THEN good ELSE some) \in SUBSET Nat /\ (IF good # {} THEN good ELSE some) # {}
      BY <1>1, <1>7, <1>9
    <3>2. QED
      BY <3>1, LeastPicked
  <2> HIDE DEF k0
  <2>2. k0 \in 1 .. n
    BY <1>7, <2>1
  <2>3. drawn.ids = Pick!Take(Pick!Distinct(base), limit) /\ drawn.pointer = turn[(k0 % n) + 1]
    <3> HIDE DEF base
    <3>1. QED
      BY <1>4, <1>9
  <2>4. strip \in Seq(P)
    <3> HIDE DEF strip
    <3>1. strip = RowOf(turn, k0, n, pools, offset)
      BY DEF strip, RowOf
    <3>2. k0 \in 1 .. Len(turn)
      BY <1>5, <2>2
    <3>3. n = Len(turn) /\ turn \in Seq(C) /\ Pick!ToSet(turn) = C
      BY <1>5
    <3>4. QED
      BY <3>1, <3>2, <3>3, RowFacts
  <2> HIDE DEF strip
  <2>5. base \in Seq(P)
    BY <2>4, WithoutElements
  <2> HIDE DEF base
  <2>6. Pick!Distinct(base) \in Seq(P)
    BY <2>5, DistinctFacts
  <2>7. drawn.ids \in Seq(P)
    BY <2>3, <2>6, TakeFacts
  <2>8. (k0 % n) + 1 \in 1 .. n
    <3>1. n \in Nat \ {0} /\ k0 \in Nat
      BY <1>1, <2>2
    <3>2. k0 % n \in 0 .. n - 1
      BY <3>1, RemainderFacts
    <3>3. QED
      BY <3>1, <3>2
  <2>9. QED
    BY <1>6, <2>3, <2>7, <2>8
<1>10. QED
  BY <1>8, <1>9

LEMMA FallbackTyped ==
    ASSUME NEW cat, Pick!IsCatalogue(cat), NEW recent, NEW limit \in Nat, NEW offset \in Nat,
           NEW ids, ids = Pick!fallback_catalog_products(cat, recent, limit, offset)
    PROVE  Pick!ToSet(ids) \subseteq Pick!ToSet(cat.shelf)
<1> DEFINE P == Pick!ToSet(cat.shelf)
           all == Pick!Only(cat.shelf, cat.stock \intersect cat.photo)
           fresh == Pick!Without(all, recent)
           turned == Pick!rotate_ids(fresh, offset)
           new == Pick!Take(turned, limit)
           left == Pick!Without(all, Pick!ToSet(new))
           rest == Pick!rotate_ids(left, offset)
           both == new \o rest
           cut == Pick!Take(both, limit)
<1>1. ids = Pick!Only(cut, cat.live)
  BY DEF Pick!fallback_catalog_products, Pick!warm_products
<1>2. all = Pick!Only(cat.shelf, cat.stock \intersect cat.photo)
  OBVIOUS
<1>3. cat.shelf \in Seq(P) /\ cat.live \subseteq P
  BY CatalogueFacts
<1> HIDE DEF all, fresh, turned, new, left, rest, both, cut, P
<1>4. all \in Seq(P)
  BY <1>2, <1>3, OnlyFacts
<1>5. fresh \in Seq(P) /\ left \in Seq(P)
  BY <1>4, WithoutElements DEF fresh, left
<1>6. turned \in Seq(P) /\ rest \in Seq(P)
  BY <1>5, RotateFacts DEF turned, rest
<1>7. new \in Seq(P)
  BY <1>6, TakeFacts DEF new
<1>8. both \in Seq(P)
  BY <1>6, <1>7 DEF both
<1>9. cut \in Seq(P)
  BY <1>8, TakeFacts DEF cut
<1>10. Pick!ToSet(ids) = Pick!ToSet(cut) \intersect cat.live
  BY <1>1, <1>9, OnlyFacts
<1>11. QED
  BY <1>3, <1>10 DEF P

LetterTyped(cat, start, chosen) ==
    /\ Pick!ToSet(chosen.ids) \subseteq Pick!ToSet(cat.shelf)
    /\ chosen.pointer \in Pick!ToSet(cat.order) \union {start}

LEMMA SendTyped ==
    ASSUME NEW cat, Pick!IsCatalogue(cat), NEW start, NEW limit \in Nat, NEW offset \in Nat, NEW recent,
           NEW pools, pools = Pick!top5_map(cat, limit),
           NEW chosen, chosen = Pick!send_one_pick(cat, start, pools, recent, limit, offset)
    PROVE  LetterTyped(cat, start, chosen)
<1> DEFINE drawn == Pick!rotate_and_pick(start, cat.order, pools, recent, 2, limit, offset)
           shown == Pick!warm_products(cat, Pick!photo_first(cat, Pick!load_products(cat, drawn.ids), limit))
           fall == Pick!fallback_catalog_products(cat, recent, limit, offset)
           O == Pick!ToSet(cat.order)
           P == Pick!ToSet(cat.shelf)
<1>1. chosen = IF shown # <<>> THEN [drawn EXCEPT !.ids = shown] ELSE [drawn EXCEPT !.ids = fall]
  BY DEF Pick!send_one_pick
<1>2. /\ drawn = Pick!rotate_and_pick(start, cat.order, pools, recent, 2, limit, offset)
      /\ shown = Pick!warm_products(cat, Pick!photo_first(cat, Pick!load_products(cat, drawn.ids), limit))
      /\ fall = Pick!fallback_catalog_products(cat, recent, limit, offset)
  OBVIOUS
<1> HIDE DEF drawn, shown, fall
<1>3. cat.order \in Seq(O) /\ cat.stock \subseteq P /\ O = Pick!ToSet(cat.order)
  BY DEF Pick!IsCatalogue, Pick!IsList
<1>4. ArePools(pools, O, P)
  BY PoolsAreLists
<1> HIDE DEF O, P
<1>5. drawn.ids \in Seq(P) /\ drawn.pointer \in O \union {start}
  BY <1>2, <1>3, <1>4, DrawTyped
<1>6. Pick!ToSet(shown) \subseteq P
  BY <1>2, <1>3, <1>5, ShownProducts
<1>7. Pick!ToSet(fall) \subseteq P
  BY <1>2, FallbackTyped DEF P
<1>8. IsDrawn(drawn)
  BY <1>2, DrawnIsRecord
<1>9. \A x : [drawn EXCEPT !.ids = x].ids = x /\ [drawn EXCEPT !.ids = x].pointer = drawn.pointer
  BY <1>8 DEF IsDrawn
<1>10. chosen.ids \in {shown, fall} /\ chosen.pointer = drawn.pointer
  BY <1>1, <1>9
<1>11. QED
  BY <1>5, <1>6, <1>7, <1>10 DEF O, P, LetterTyped

-----------------------------------------------------------------------------
(* Best Offer chooses with the same operators as LetterChoice.             *)

LEMMA SameKeep == \A s, K : Offer!Keep(s, K) = Pick!Keep(s, K)
  BY Zenon DEF Offer!Keep, Pick!Keep, Offer!InOrder, Pick!InOrder, Offer!Cardinality, Pick!Cardinality
LEMMA SameJoined == \A s : Offer!Joined(s) = Pick!Joined(s)
  BY Zenon DEF Offer!Joined, Pick!Joined, Offer!InOrder, Pick!InOrder, Offer!Cardinality, Pick!Cardinality
LEMMA SameFilters ==
    /\ \A s, S : Offer!Without(s, S) = Pick!Without(s, S) /\ Offer!Only(s, S) = Pick!Only(s, S)
    /\ \A s : Offer!Distinct(s) = Pick!Distinct(s)
  BY SameKeep, Zenon DEF Offer!Without, Pick!Without, Offer!Only, Pick!Only, Offer!Distinct, Pick!Distinct
LEMMA SameSimple ==
    /\ \A s : Offer!ToSet(s) = Pick!ToSet(s)
    /\ \A S : Offer!Min(S) = Pick!Min(S)
    /\ \A s, x : Offer!Contains(s, x) = Pick!Contains(s, x)
    /\ \A s, n : Offer!Take(s, n) = Pick!Take(s, n)
    /\ \A s, o : Offer!rotate_ids(s, o) = Pick!rotate_ids(s, o)
  BY Zenon DEF Offer!ToSet, Pick!ToSet, Offer!Min, Pick!Min, Offer!Contains, Pick!Contains, Offer!Take, Pick!Take,
     Offer!Smaller, Pick!Smaller, Offer!rotate_ids, Pick!rotate_ids
LEMMA SameFallback ==
    \A cat, recent, limit, offset :
       Offer!fallback_catalog_products(cat, recent, limit, offset) = Pick!fallback_catalog_products(cat, recent, limit, offset)
  BY SameFilters, SameSimple DEF Offer!fallback_catalog_products, Pick!fallback_catalog_products,
     Offer!warm_products, Pick!warm_products
LEMMA SameShown ==
    \A cat, ids, limit : Offer!warm_products(cat, Offer!photo_first(cat, Offer!load_products(cat, ids), limit))
                         = Pick!warm_products(cat, Pick!photo_first(cat, Pick!load_products(cat, ids), limit))
  BY SameFilters, SameSimple DEF
     Offer!warm_products, Pick!warm_products, Offer!photo_first, Pick!photo_first, Offer!load_products, Pick!load_products

LEMMA SameRotate ==
    ASSUME NEW start, NEW ord, NEW pools, NEW recent, NEW limit, NEW offset
    PROVE  Offer!rotate_and_pick(start, ord, pools, recent, 2, limit, offset)
           = Pick!rotate_and_pick(start, ord, pools, recent, 2, limit, offset)
<1> DEFINE n == Len(ord)
           first == IF Pick!Contains(ord, start) THEN CHOOSE i \in 1 .. n : ord[i] = start ELSE 1
           turn == Pick!rotate_ids(ord, first - 1)
           good == {k \in 1 .. n : Len(Pick!Without(pools[turn[k]], recent)) >= 2}
           some == {k \in 1 .. n : pools[turn[k]] # <<>>}
           k == Pick!Min(IF good # {} THEN good ELSE some)
           line == Pick!Joined([j \in 1 .. n |-> Pick!rotate_ids(pools[Pick!rotate_ids(turn, k - 1)[j]], offset)])
           first2 == IF Offer!Contains(ord, start) THEN CHOOSE i \in 1 .. n : ord[i] = start ELSE 1
           turn2 == Offer!rotate_ids(ord, first2 - 1)
           good2 == {m \in 1 .. n : Len(Offer!Without(pools[turn2[m]], recent)) >= 2}
           some2 == {m \in 1 .. n : pools[turn2[m]] # <<>>}
           k2 == Offer!Min(IF good2 # {} THEN good2 ELSE some2)
           line2 == Offer!Joined([j \in 1 .. n |-> Offer!rotate_ids(pools[Offer!rotate_ids(turn2, k2 - 1)[j]], offset)])
<1>1. Pick!rotate_and_pick(start, ord, pools, recent, 2, limit, offset) =
        IF good \union some = {} THEN [primary |-> None, ids |-> <<>>, pointer |-> start]
        ELSE [primary |-> turn[k],
              ids |-> Pick!Take(Pick!Distinct(IF good # {} THEN Pick!Without(line, recent) ELSE line), limit),
              pointer |-> turn[(k % n) + 1]]
  BY Zenon DEF Pick!rotate_and_pick
<1>2. Offer!rotate_and_pick(start, ord, pools, recent, 2, limit, offset) =
        IF good2 \union some2 = {} THEN [primary |-> None, ids |-> <<>>, pointer |-> start]
        ELSE [primary |-> turn2[k2],
              ids |-> Offer!Take(Offer!Distinct(IF good2 # {} THEN Offer!Without(line2, recent) ELSE line2), limit),
              pointer |-> turn2[(k2 % n) + 1]]
  BY Zenon DEF Offer!rotate_and_pick
<1>3. first2 = first
  BY Zenon DEF Offer!Contains, Pick!Contains
<1>4. turn2 = turn
  <2> HIDE DEF first, first2
  <2>1. QED
    BY <1>3, SameSimple
<1>5. good2 = good /\ some2 = some
  <2> HIDE DEF turn, turn2
  <2>1. QED
    BY <1>4, SameFilters
<1>6. k2 = k
  <2> HIDE DEF good, good2, some, some2
  <2>1. QED
    BY <1>5, SameSimple
<1>7. line2 = line
  <2> HIDE DEF turn, turn2, k, k2
  <2> DEFINE parts == [j \in 1 .. n |-> Pick!rotate_ids(pools[Pick!rotate_ids(turn, k - 1)[j]], offset)]
             parts2 == [j \in 1 .. n |-> Offer!rotate_ids(pools[Offer!rotate_ids(turn2, k2 - 1)[j]], offset)]
  <2>1. Offer!rotate_ids(turn2, k2 - 1) = Pick!rotate_ids(turn, k - 1)
    BY <1>4, <1>6, SameSimple
  <2>2. parts2 = parts
    BY <2>1, SameSimple
  <2> HIDE DEF parts, parts2
  <2>3. Offer!Joined(parts2) = Pick!Joined(parts)
    BY <2>2, SameJoined
  <2>4. QED
    BY <2>3 DEF parts, parts2
<1> HIDE DEF turn, turn2, k, k2, good, good2, some, some2, line, line2, n
<1>8. Offer!Take(Offer!Distinct(IF good2 # {} THEN Offer!Without(line2, recent) ELSE line2), limit)
      = Pick!Take(Pick!Distinct(IF good # {} THEN Pick!Without(line, recent) ELSE line), limit)
  BY <1>5, <1>7, SameFilters, SameSimple
<1>9. QED
  BY <1>1, <1>2, <1>4, <1>5, <1>6, <1>8

LEMMA SameSend ==
    ASSUME NEW cat, NEW start, NEW pools, NEW recent, NEW limit, NEW offset
    PROVE  Offer!send_one_pick(cat, start, pools, recent, limit, offset) = Pick!send_one_pick(cat, start, pools, recent, limit, offset)
<1> DEFINE drawn == Pick!rotate_and_pick(start, cat.order, pools, recent, 2, limit, offset)
           drawn2 == Offer!rotate_and_pick(start, cat.order, pools, recent, 2, limit, offset)
           Warm(d) == Pick!warm_products(cat, Pick!photo_first(cat, Pick!load_products(cat, d.ids), limit))
           Warm2(d) == Offer!warm_products(cat, Offer!photo_first(cat, Offer!load_products(cat, d.ids), limit))
           fall == Pick!fallback_catalog_products(cat, recent, limit, offset)
           fall2 == Offer!fallback_catalog_products(cat, recent, limit, offset)
<1>1. Pick!send_one_pick(cat, start, pools, recent, limit, offset)
      = IF Warm(drawn) # <<>> THEN [drawn EXCEPT !.ids = Warm(drawn)] ELSE [drawn EXCEPT !.ids = fall]
  BY DEF Pick!send_one_pick
<1>2. Offer!send_one_pick(cat, start, pools, recent, limit, offset)
      = IF Warm2(drawn2) # <<>> THEN [drawn2 EXCEPT !.ids = Warm2(drawn2)] ELSE [drawn2 EXCEPT !.ids = fall2]
  BY DEF Offer!send_one_pick
<1>3. drawn2 = drawn /\ fall2 = fall /\ \A d : Warm2(d) = Warm(d)
  BY SameRotate, SameShown, SameFallback
<1> HIDE DEF drawn, drawn2, Warm, Warm2, fall, fall2
<1>4. QED
  BY <1>1, <1>2, <1>3

LEMMA SamePools ==
    ASSUME NEW cat, NEW perCat
    PROVE  Offer!top5_map(cat, perCat) = Pick!top5_map(cat, perCat)
<1> DEFINE top(c) == Pick!Only(cat.top[c], cat.stock)
           extra(c) == Pick!Only(cat.shelf, {p \in (cat.stock \intersect cat.photo) \ Pick!ToSet(top(c)) : cat.in[p] = c})
           pool(c) == IF Len(top(c)) >= perCat THEN top(c) ELSE top(c) \o Pick!Take(extra(c), perCat - Len(top(c)))
           top2(c) == Offer!Only(cat.top[c], cat.stock)
           extra2(c) == Offer!Only(cat.shelf, {p \in (cat.stock \intersect cat.photo) \ Offer!ToSet(top2(c)) : cat.in[p] = c})
           pool2(c) == IF Len(top2(c)) >= perCat THEN top2(c) ELSE top2(c) \o Offer!Take(extra2(c), perCat - Len(top2(c)))
<1>1. Pick!top5_map(cat, perCat) = [c \in Pick!ToSet(cat.order) |-> pool(c)]
  BY DEF Pick!top5_map
<1>2. Offer!top5_map(cat, perCat) = [c \in Offer!ToSet(cat.order) |-> pool2(c)]
  BY DEF Offer!top5_map
<1>3. \A c : top2(c) = top(c)
  BY SameFilters
<1>4. \A c : extra2(c) = extra(c)
  <2> HIDE DEF top, top2
  <2>1. QED
    BY <1>3, SameFilters, SameSimple
<1>5. \A c : pool2(c) = pool(c)
  <2> HIDE DEF top, top2, extra, extra2
  <2>1. QED
    BY <1>3, <1>4, SameSimple
<1> HIDE DEF pool, pool2
<1>6. Offer!ToSet(cat.order) = Pick!ToSet(cat.order)
  BY SameSimple
<1>7. QED
  BY <1>1, <1>2, <1>5, <1>6

Spots == Pick!ToSet(Catalogue.order) \union {None}
Shelf == Pick!ToSet(Catalogue.shelf)
LogRows == [n : Nat, user : Users, products : SUBSET Shelf, status : Offer!Statuses,
            closed : BOOLEAN, repeat : BOOLEAN]
TimerRows == [mailable : BOOLEAN, pointer : Spots, timer : 0 .. MaxLetters, ripe : BOOLEAN,
              cooling : 0 .. MaxLetters + 1, bought : {"none", "fresh", "ripe"}]

\* A batch knows categories for pointers, and products.
PickTyped(pick) == pick.pointer \in Spots /\ Pick!ToSet(pick.ids) \subseteq Shelf
RowTyped(x) == (\A u \in x.todo : x.pointer[u] \in Spots) /\ PickTyped(x.pick)
BatchesTyped == \A r \in Runners : RowTyped(run[r])
TimersTyped == subs \in [Users -> TimerRows]
LogTyped == log \in Seq(LogRows) /\ Len(log) \in 0 .. MaxLetters
HeldTyped == held \subseteq 1 .. Len(log) /\ faults \in 0 .. BatchFaults
RowsTyped == BatchesTyped /\ TimersTyped /\ LogTyped /\ HeldTyped

LEMMA OffsetIsNat ==
    ASSUME NEW S, log \in Seq(S), NEW u
    PROVE  Offer!send_offset(Offer!Newest(u)) \in Nat
<1> DEFINE K == {n \in DOMAIN log : log[n].user = u}
           kept == Offer!Keep(log, K)
           new == Offer!Newest(u)
           sent == {i \in DOMAIN new : new[i].status = "sent"}
<1>1. K \in SUBSET (1 .. Len(log))
  OBVIOUS
<1>2. new = Offer!Reverse(kept)
  BY DEF Offer!Newest
<1> HIDE DEF K
<1>3. kept \in Seq(S)
  BY <1>1, KeepFacts, SameKeep
<1> HIDE DEF kept
<1>4. DOMAIN new = 1 .. Len(kept) /\ Len(kept) \in Nat
  BY <1>2, <1>3 DEF Offer!Reverse
<1>5. Offer!send_offset(new) = Offer!Cardinality(sent)
  BY DEF Offer!send_offset
<1> HIDE DEF new
<1>6. sent \in SUBSET (1 .. Len(kept))
  BY <1>4
<1> HIDE DEF sent
<1>7. IsFiniteSet(sent)
  BY <1>4, <1>6, CountedUp, FS_Subset
<1>8. Cardinality(sent) \in Nat
  BY <1>7, FS_CardinalityType
<1>9. QED
  BY <1>5, <1>8, SameCount DEF new

\* What a batch chooses for a customer it has selected.
LEMMA StartTyped ==
    ASSUME NEW a \in Spots, NEW u \in Users, NEW known, known = Offer!Without(<<a, LastCategory[u]>>, {None})
    PROVE  Head(Catalogue.order) \in Spots /\ (known # <<>> => Head(known) \in Spots)
<1>1. LastCategory[u] \in Spots
  BY ChoiceAssumption DEF Spots
<1>2. Head(Catalogue.order) \in Spots
  <2>1. Catalogue.order \in Seq(Pick!ToSet(Catalogue.order)) /\ Catalogue.order # <<>>
    BY ChoiceAssumption DEF Pick!IsCatalogue, Pick!IsList
  <2>2. QED
    BY <2>1 DEF Spots
<1>3. known \in Seq(Spots)
  <2>1. <<a, LastCategory[u]>> \in Seq(Spots)
    BY <1>1
  <2>2. Pick!Without(<<a, LastCategory[u]>>, {None}) \in Seq(Spots)
    BY <2>1, WithoutElements
  <2>3. QED
    BY <2>2, SameFilters
<1>4. QED
  BY <1>2, <1>3

LEMMA PickedTyped ==
    ASSUME NEW start \in Spots, NEW recent, NEW offset \in Nat,
           NEW pools, pools = Offer!top5_map(Catalogue, ItemsLimit),
           NEW pick, pick = Offer!send_one_pick(Catalogue, start, pools, recent, ItemsLimit, offset)
    PROVE  PickTyped(pick)
<1>1. Pick!IsCatalogue(Catalogue) /\ ItemsLimit \in Nat
  BY ChoiceAssumption
<1>2. pools = Pick!top5_map(Catalogue, ItemsLimit)
  BY SamePools
<1>3. pick = Pick!send_one_pick(Catalogue, start, pools, recent, ItemsLimit, offset)
  BY SameSend
<1>4. LetterTyped(Catalogue, start, pick)
  BY <1>1, <1>2, <1>3, SendTyped
<1>5. QED
  BY <1>4 DEF LetterTyped, PickTyped, Spots, Shelf

LEMMA RowReplaced ==
    ASSUME RunTypes, BatchesTyped, NEW r \in Runners, NEW x, RowTyped(x), run' = [run EXCEPT ![r] = x]
    PROVE  BatchesTyped'
<1>1. PICK P, K : run \in [Runners -> RunRows(P, K)]
  BY DEF RunTypes
<1>2. run'[r] = x /\ \A q \in Runners : q # r => run'[q] = run[q]
  BY <1>1
<1>3. \A q \in Runners : RowTyped(run'[q])
  BY <1>2 DEF BatchesTyped
<1>4. QED
  BY <1>3 DEF BatchesTyped, RowTyped

LEMMA BatchRowsKept ==
    ASSUME RunTypes, BatchesTyped, TimersTyped, LogTyped, NEW r \in Runners, Offer!Batch(r)
    PROVE  BatchesTyped'
<1>0. PICK P, K : run \in [Runners -> RunRows(P, K)]
  BY DEF RunTypes
<1>1. RowTyped(Offer!NoBatch)
  BY DEF RowTyped, PickTyped, Offer!NoBatch, Spots, Shelf, Pick!ToSet
<1>2. CASE Offer!BeginBatch(r)
  <2> DEFINE S == {u \in Users : Offer!Candidate(u)}
             p == [u \in S |-> subs[u].pointer]
             x == [Offer!NoBatch EXCEPT !.pc = "loop", !.todo = S, !.pointer = p]
  <2>1. run' = [run EXCEPT ![r] = x]
    BY <1>2 DEF Offer!BeginBatch
  <2>2. \A u \in S : p[u] \in Spots
    BY DEF TimersTyped, TimerRows
  <2> HIDE DEF S, p
  <2>3. x.todo = S /\ x.pointer = p /\ x.pick = Offer!NoBatch.pick
    BY DEF Offer!NoBatch
  <2>4. RowTyped(x)
    <3> HIDE DEF x
    <3>1. QED
      BY <1>1, <2>2, <2>3 DEF RowTyped
  <2> HIDE DEF x
  <2>5. QED
    BY <2>1, <2>4, RowReplaced
<1>3. CASE Offer!EndBatch(r) \/ Offer!BatchDies(r)
  <2>1. run' = [run EXCEPT ![r] = Offer!NoBatch]
    BY <1>3 DEF Offer!EndBatch, Offer!BatchDies
  <2>2. QED
    BY <1>1, <2>1, RowReplaced
<1>4. ASSUME NEW x, run' = [run EXCEPT ![r] = x],
             x.todo = run[r].todo, x.pointer = run[r].pointer, x.pick = run[r].pick
      PROVE  BatchesTyped'
  <2>1. RowTyped(x)
    BY <1>4 DEF BatchesTyped, RowTyped
  <2>2. QED
    BY <1>4, <2>1, RowReplaced
<1>5. CASE Offer!InsertLog(r)
  <2> DEFINE x == [run[r] EXCEPT !.pc = "send", !.letter = Len(log) + 1]
  <2>1. run' = [run EXCEPT ![r] = x]
    BY <1>0, <1>5 DEF Offer!InsertLog
  <2>2. x.todo = run[r].todo /\ x.pointer = run[r].pointer /\ x.pick = run[r].pick
    BY <1>0 DEF RunRows
  <2> HIDE DEF x
  <2>3. QED
    BY <1>4, <2>1, <2>2
<1>6. CASE Offer!MailAccepted(r) \/ Offer!MailFailed(r) \/ Offer!Raises(r)
  <2>1. PICK stage : run' = [run EXCEPT ![r].pc = stage]
    BY <1>6, Zenon DEF Offer!MailAccepted, Offer!MailFailed, Offer!Raises
  <2> DEFINE x == [run[r] EXCEPT !.pc = stage]
  <2>2. run' = [run EXCEPT ![r] = x]
    BY <1>0, <2>1
  <2>3. x.todo = run[r].todo /\ x.pointer = run[r].pointer /\ x.pick = run[r].pick
    BY <1>0 DEF RunRows
  <2> HIDE DEF x
  <2>4. QED
    BY <1>4, <2>2, <2>3
<1>7. CASE Offer!Close(r)
  <2> DEFINE x == [run[r] EXCEPT !.pc = "loop", !.sent = run[r].sent + 1]
  <2>1. run' = [run EXCEPT ![r] = x]
    BY <1>0, <1>7 DEF Offer!Close
  <2>2. x.todo = run[r].todo /\ x.pointer = run[r].pointer /\ x.pick = run[r].pick
    BY <1>0 DEF RunRows
  <2> HIDE DEF x
  <2>3. QED
    BY <1>4, <2>1, <2>2
<1>8. CASE Offer!Choose(r)
  <2> DEFINE Row(u, pick, pointer, pc) ==
                [run[r] EXCEPT !.todo = run[r].todo \ {u}, !.user = u, !.pick = pick, !.pointer = pointer,
                               !.pc = pc]
             Pools == Offer!top5_map(Catalogue, ItemsLimit)
             Known(u) == Offer!Without(<<run[r].pointer[u], LastCategory[u]>>, {None})
             Start(u) == IF Known(u) # <<>> THEN Head(Known(u)) ELSE Head(Catalogue.order)
             Recent(u) == Offer!recent_sent_products(Offer!Newest(u), LastN)
             Picked(u) == Offer!send_one_pick(Catalogue, Start(u), Pools, Recent(u), ItemsLimit,
                                              Offer!send_offset(Offer!Newest(u)))
             Left(u) == [x \in run[r].todo \ {u} |-> run[r].pointer[x]]
             Then(u) == IF Picked(u).ids = <<>> THEN "loop" ELSE "insert"
  <2>1. PICK u \in run[r].todo : run' = [run EXCEPT ![r] = Row(u, Picked(u), Left(u), Then(u))]
    BY <1>8, Zenon DEF Offer!Choose
  <2>2. u \in Users /\ run[r].pointer[u] \in Spots
    BY <1>0 DEF RunRows, BatchesTyped, RowTyped
  <2>3. Offer!send_offset(Offer!Newest(u)) \in Nat
    BY OffsetIsNat DEF LogTyped
  <2> DEFINE pick == Picked(u)
             known == Known(u)
             start == Start(u)
             recent == Recent(u)
             offset == Offer!send_offset(Offer!Newest(u))
             pointer == Left(u)
             pc == Then(u)
             pools == Pools
             x == Row(u, pick, pointer, pc)
  <2>4. /\ known = Offer!Without(<<run[r].pointer[u], LastCategory[u]>>, {None})
        /\ start = (IF known # <<>> THEN Head(known) ELSE Head(Catalogue.order))
        /\ pick = Offer!send_one_pick(Catalogue, start, pools, recent, ItemsLimit, offset)
        /\ offset \in Nat /\ pools = Offer!top5_map(Catalogue, ItemsLimit)
    BY <2>3
  <2>5. run' = [run EXCEPT ![r] = x]
    BY <2>1
  <2>6. \A v \in run[r].todo \ {u} : pointer[v] = run[r].pointer[v]
    OBVIOUS
  <2> HIDE DEF pick, known, start, recent, offset, pointer, pc, pools
  <2>7. PickTyped(pick)
    <3>1. start \in Spots
      BY <2>2, <2>4, StartTyped
    <3>2. QED
      BY <2>4, <3>1, PickedTyped
  <2>8. x.todo = run[r].todo \ {u} /\ x.pointer = pointer /\ x.pick = pick
    BY <1>0 DEF RunRows
  <2> HIDE DEF x
  <2>9. RowTyped(x)
    BY <2>6, <2>7, <2>8 DEF BatchesTyped, RowTyped
  <2>10. QED
    BY <2>5, <2>9, RowReplaced
<1>9. QED
  BY <1>2, <1>3, <1>5, <1>6, <1>7, <1>8 DEF Offer!Batch

-----------------------------------------------------------------------------
LEMMA TimerRow ==
    ASSUME TimersTyped, NEW u, NEW y, u \in Users => y \in TimerRows, subs' = [subs EXCEPT ![u] = y]
    PROVE  TimersTyped'
<1>1. subs \in [Users -> TimerRows]
  BY DEF TimersTyped, TimerRows
<1>2. subs' \in [Users -> TimerRows]
  BY <1>1
<1>3. QED
  BY <1>2 DEF TimersTyped, TimerRows, Spots

LEMMA TimerChanged ==
    ASSUME NEW s \in TimerRows, NEW n \in 0 .. MaxLetters, NEW c \in 0 .. MaxLetters + 1
    PROVE  /\ [s EXCEPT !.ripe = TRUE, !.cooling = c] \in TimerRows
           /\ [s EXCEPT !.bought = "ripe", !.cooling = c] \in TimerRows
           /\ [s EXCEPT !.timer = n, !.cooling = c] \in TimerRows
           /\ \A p \in Spots :
                 [s EXCEPT !.timer = n, !.cooling = c, !.ripe = FALSE, !.bought = "none", !.pointer = p] \in TimerRows
<1> DEFINE T == 0 .. MaxLetters
           K == 0 .. MaxLetters + 1
<1>1. n \in T /\ c \in K
  OBVIOUS
<1>2. TimerRows = [mailable : BOOLEAN, pointer : Spots, timer : T, ripe : BOOLEAN, cooling : K,
                   bought : {"none", "fresh", "ripe"}]
  BY DEF TimerRows
<1> HIDE DEF T, K
<1>3. QED
  BY <1>1, <1>2

LEMMA OthersTimed ==
    ASSUME TimersTyped, NEW u \in Users, Others(u)
    PROVE  TimersTyped'
<1> DEFINE s == subs[u]
<1>1. subs \in [Users -> TimerRows] /\ s \in TimerRows /\ MaxLetters \in Nat
  BY BoundsAssumption DEF TimersTyped, TimerRows
<1>9. 0 \in 0 .. MaxLetters /\ 0 \in 0 .. MaxLetters + 1
  BY <1>1
<1>2. CASE Offer!Unsubscribe(u)
  <2> DEFINE y == [s EXCEPT !.mailable = FALSE]
  <2>1. subs' = [subs EXCEPT ![u] = y] /\ y \in TimerRows
    BY <1>1, <1>2 DEF Offer!Unsubscribe, TimerRows
  <2> HIDE DEF y
  <2>2. QED
    BY <2>1, TimerRow
<1>3. CASE Offer!IntervalEnds(u)
  <2> DEFINE y == [s EXCEPT !.ripe = TRUE, !.cooling = 0]
  <2>1. subs' = [subs EXCEPT ![u] = y]
    BY <1>1, <1>3 DEF Offer!IntervalEnds
  <2>3. y \in TimerRows
    BY <1>1, <1>9, TimerChanged
  <2> HIDE DEF y
  <2>2. QED
    BY <2>1, <2>3, TimerRow
<1>4. CASE Offer!Purchase(u)
  <2> DEFINE y == [s EXCEPT !.bought = "fresh"]
  <2>1. subs' = [subs EXCEPT ![u] = y] /\ y \in TimerRows
    BY <1>1, <1>4 DEF Offer!Purchase, TimerRows
  <2> HIDE DEF y
  <2>2. QED
    BY <2>1, TimerRow
<1>5. CASE Offer!PurchaseRipens(u)
  <2> DEFINE y == [s EXCEPT !.bought = "ripe", !.cooling = 0]
  <2>1. subs' = [subs EXCEPT ![u] = y]
    BY <1>1, <1>5 DEF Offer!PurchaseRipens
  <2>3. y \in TimerRows
    BY <1>1, <1>9, TimerChanged
  <2> HIDE DEF y
  <2>2. QED
    BY <2>1, <2>3, TimerRow
<1>6. CASE Offer!OtherLetter(u)
  <2> DEFINE y == [s EXCEPT !.cooling = MaxLetters + 1]
  <2>1. subs' = [subs EXCEPT ![u] = y] /\ y \in TimerRows
    BY <1>1, <1>6 DEF Offer!OtherLetter, Offer!Other, TimerRows
  <2> HIDE DEF y
  <2>2. QED
    BY <2>1, TimerRow
<1>7. CASE Offer!DayPasses(u)
  <2> DEFINE y == [s EXCEPT !.cooling = 0]
  <2>1. subs' = [subs EXCEPT ![u] = y] /\ y \in TimerRows
    BY <1>1, <1>7 DEF Offer!DayPasses, TimerRows
  <2> HIDE DEF y
  <2>2. QED
    BY <2>1, TimerRow
<1>8. QED
  BY <1>2, <1>3, <1>4, <1>5, <1>6, <1>7 DEF Others

LEMMA CloseTimed ==
    ASSUME RunTypes, LetterIsFresh, BatchesTyped, TimersTyped, LogTyped, NEW r \in Runners, Offer!Close(r)
    PROVE  TimersTyped'
<1> DEFINE u == run[r].user
           n == run[r].letter
           p == run[r].pick.pointer
           y == [subs[u] EXCEPT !.timer = n, !.cooling = n, !.ripe = FALSE, !.bought = "none", !.pointer = p]
<1>1. run[r].pc = "close"
  BY Zenon DEF Offer!Close
<1>2. u \in Users
  BY <1>1 DEF RunTypes
<1>3. subs \in [Users -> TimerRows]
  BY DEF TimersTyped, TimerRows
<1>4. subs' = [subs EXCEPT ![u] = y]
  BY <1>2, <1>3, Zenon DEF Offer!Close
<1>5. p \in Spots
  BY DEF BatchesTyped, RowTyped, PickTyped
<1>6. n \in 0 .. MaxLetters /\ n \in 0 .. MaxLetters + 1
  <2>1. n \in 1 .. Len(log)
    BY <1>1 DEF LetterIsFresh
  <2>2. Len(log) \in 0 .. MaxLetters /\ MaxLetters \in Nat
    BY BoundsAssumption DEF LogTyped
  <2>3. QED
    BY <2>1, <2>2
<1>7. y \in TimerRows
  <2>1. subs[u] \in TimerRows /\ MaxLetters \in Nat
    BY <1>2, <1>3, BoundsAssumption
  <2> HIDE DEF n, p
  <2>2. QED
    BY <1>5, <1>6, <2>1, TimerChanged
<1> HIDE DEF y
<1>8. QED
  BY <1>4, <1>7, TimerRow

LEMMA FailedTimed ==
    ASSUME TimersTyped, NEW n, Offer!FailedCallback(n)
    PROVE  TimersTyped'
<1> DEFINE w == log[n].user
           c == IF subs[w].cooling = n THEN 0 ELSE subs[w].cooling
           y == [subs[w] EXCEPT !.timer = 0, !.cooling = c]
<1>1. subs \in [Users -> TimerRows]
  BY DEF TimersTyped, TimerRows
<1>2. \/ subs' = subs
      \/ subs' = [subs EXCEPT ![w] = y]
  BY Zenon DEF Offer!FailedCallback
<1>3. w \in Users => y \in TimerRows
  <2> SUFFICES ASSUME w \in Users PROVE y \in TimerRows
    OBVIOUS
  <2>1. subs[w] \in TimerRows /\ MaxLetters \in Nat
    BY <1>1, BoundsAssumption
  <2>2. 0 \in 0 .. MaxLetters /\ c \in 0 .. MaxLetters + 1
    BY <2>1 DEF TimerRows
  <2> HIDE DEF c, w
  <2>3. QED
    BY <2>1, <2>2, TimerChanged
<1> HIDE DEF y, w
<1>4. CASE subs' = subs
  BY <1>4 DEF TimersTyped, Spots
<1>5. CASE subs' = [subs EXCEPT ![w] = y]
  BY <1>3, <1>5, TimerRow
<1>6. QED
  BY <1>2, <1>4, <1>5

LEMMA TimersKept ==
    ASSUME RunTypes, LetterIsFresh, BatchesTyped, TimersTyped, LogTyped, [Offer!Next]_bo
    PROVE  TimersTyped'
<1>1. ASSUME subs' = subs
      PROVE  TimersTyped'
  BY <1>1 DEF TimersTyped, Spots
<1>2. ASSUME NEW r \in Runners, Offer!Batch(r)
      PROVE  TimersTyped'
  <2>1. CASE Offer!Close(r)
    BY <2>1, CloseTimed
  <2>2. CASE ~Offer!Close(r)
    <3>1. subs' = subs
      BY <1>2, <2>2, Zenon DEF Offer!Batch, Offer!BeginBatch, Offer!EndBatch, Offer!Choose, Offer!InsertLog,
         Offer!MailAccepted, Offer!MailFailed, Offer!Raises, Offer!BatchDies
    <3>2. QED
      BY <1>1, <3>1
  <2>3. QED
    BY <2>1, <2>2
<1>3. CASE UNCHANGED bo
  BY <1>1, <1>3 DEF bo
<1>4. CASE Offer!Next
  <2>1. \/ \E r \in Runners : Offer!Batch(r)
        \/ \E n \in DOMAIN log : Offer!FailedCallback(n) \/ \E e : Offer!EventCallback(n, e)
        \/ \E u \in Users : Others(u)
    BY <1>4 DEF Offer!Next, Others
  <2>2. ASSUME NEW n, NEW e, Offer!EventCallback(n, e)
        PROVE  TimersTyped'
    BY <1>1, <2>2 DEF Offer!EventCallback
  <2>3. QED
    BY <1>2, <2>1, <2>2, FailedTimed, OthersTimed
<1>5. QED
  BY <1>3, <1>4

-----------------------------------------------------------------------------
\* A letter more, or one of another status.
LEMMA LogRow ==
    ASSUME LogTyped, NEW k, NEW x, k \in 1 .. Len(log) => x \in LogRows, log' = [log EXCEPT ![k] = x]
    PROVE  LogTyped' /\ Len(log') = Len(log)
<1>1. Len(log) \in Nat /\ log \in [1 .. Len(log) -> LogRows] /\ DOMAIN log = 1 .. Len(log)
  BY DEF LogTyped
<1>2. log' \in [1 .. Len(log) -> LogRows]
  BY <1>1
<1>3. log' \in Seq(LogRows) /\ Len(log') = Len(log)
  BY <1>1, <1>2, SeqDef, LenProperties
<1>4. QED
  BY <1>3 DEF LogTyped, LogRows, Shelf, Offer!Statuses

LEMMA StatusChanged ==
    ASSUME NEW l \in LogRows, NEW state \in Offer!Statuses
    PROVE  /\ [l EXCEPT !.status = state] \in LogRows
           /\ \A done \in BOOLEAN : [l EXCEPT !.status = state, !.closed = done] \in LogRows
<1> DEFINE P == SUBSET Shelf
           T == Offer!Statuses
<1>1. LogRows = [n : Nat, user : Users, products : P, status : T, closed : BOOLEAN, repeat : BOOLEAN]
  BY DEF LogRows
<1> HIDE DEF P
<1>2. state \in T
  OBVIOUS
<1> HIDE DEF T
<1>3. [l EXCEPT !.status = state] \in LogRows
  BY <1>1, <1>2
<1>4. ASSUME NEW done \in BOOLEAN
      PROVE  [l EXCEPT !.status = state, !.closed = done] \in LogRows
  BY <1>1, <1>2
<1>5. QED
  BY <1>3, <1>4

LEMMA Restated ==
    ASSUME LogTyped, NEW k \in 1 .. Len(log), NEW state \in Offer!Statuses, NEW done \in BOOLEAN
    PROVE  [log[k] EXCEPT !.status = state, !.closed = done] \in LogRows
<1>1. log[k] \in LogRows
  BY DEF LogTyped
<1>2. QED
  BY <1>1, StatusChanged

LEMMA StatusOnly ==
    ASSUME LogTyped, NEW k, log' = [log EXCEPT ![k].status = "failed"]
    PROVE  LogTyped' /\ Len(log') = Len(log)
<1> DEFINE x == [log[k] EXCEPT !.status = "failed"]
<1>1. log' = [log EXCEPT ![k] = x]
  OBVIOUS
<1>2. k \in 1 .. Len(log) => x \in LogRows
  <2>1. ASSUME k \in 1 .. Len(log) PROVE log[k] \in LogRows
    BY <2>1 DEF LogTyped
  <2>2. "failed" \in Offer!Statuses
    BY DEF Offer!Statuses
  <2>3. QED
    BY <2>1, <2>2, StatusChanged
<1> HIDE DEF x
<1>3. QED
  BY <1>1, <1>2, LogRow

LEMMA InsertLogged ==
    ASSUME RunTypes, BatchesTyped, LogTyped, NEW r \in Runners, Offer!InsertLog(r)
    PROVE  LogTyped' /\ Len(log') = Len(log) + 1
<1> DEFINE u == run[r].user
           ids == Offer!ToSet(run[r].pick.ids)
           pools == Offer!top5_map(Catalogue, ItemsLimit)
           Again == /\ ids \intersect Offer!Received(u) # {}
                    /\ \E c \in DOMAIN pools : Offer!Cardinality(Offer!ToSet(pools[c]) \ Offer!Received(u)) >= 2
           x == [n |-> Len(log) + 1, user |-> u, products |-> ids, status |-> "queued", closed |-> FALSE,
                 repeat |-> Again]
<1>1. log' = Append(log, x)
  BY Zenon DEF Offer!InsertLog
<1>2. run[r].pc = "insert" /\ Len(log) < MaxLetters
  BY Zenon DEF Offer!InsertLog
<1>3. u \in Users
  BY <1>2 DEF RunTypes
<1>4. ids \in SUBSET Shelf
  BY SameSimple DEF BatchesTyped, RowTyped, PickTyped
<1>5. Len(log) \in Nat /\ Len(log) + 1 \in Nat /\ log \in Seq(LogRows) /\ MaxLetters \in Nat
  BY BoundsAssumption DEF LogTyped
<1>6. Again \in BOOLEAN
  BY Zenon
<1>7. "queued" \in Offer!Statuses
  BY DEF Offer!Statuses
<1> HIDE DEF Again, ids, u
<1>8. x \in LogRows
  BY <1>3, <1>4, <1>5, <1>6, <1>7 DEF LogRows
<1> HIDE DEF x
<1>9. log' \in Seq(LogRows) /\ Len(log') = Len(log) + 1
  BY <1>1, <1>5, <1>8, AppendProperties
<1>10. Len(log') \in 0 .. MaxLetters
  BY <1>2, <1>5, <1>9
<1>11. QED
  BY <1>9, <1>10 DEF LogTyped, LogRows, Shelf, Offer!Statuses

LEMMA CloseLogged ==
    ASSUME LetterIsFresh, LogTyped, NEW r \in Runners, Offer!Close(r)
    PROVE  LogTyped' /\ Len(log') = Len(log)
<1> DEFINE n == run[r].letter
           x == [log[n] EXCEPT !.status = "sent", !.closed = TRUE]
<1>1. n \in 1 .. Len(log)
  BY Zenon DEF LetterIsFresh, Offer!Close
<1>2. log \in [1 .. Len(log) -> LogRows]
  BY DEF LogTyped
<1>3. log' = [log EXCEPT ![n] = x]
  BY <1>1, <1>2 DEF Offer!Close
<1> HIDE DEF n
<1>4. "sent" \in Offer!Statuses
  BY DEF Offer!Statuses
<1>5. x \in LogRows
  BY <1>1, <1>4, Restated
<1> HIDE DEF x
<1>6. QED
  BY <1>3, <1>5, LogRow

LEMMA EventLogged ==
    ASSUME LogTyped, NEW n \in DOMAIN log, NEW e \in Tracked \union {"sent"}, Offer!EventCallback(n, e)
    PROVE  LogTyped' /\ Len(log') = Len(log)
<1> DEFINE done == log[n].closed \/ e = "sent"
           x == [log[n] EXCEPT !.status = e, !.closed = done]
<1>1. log \in [1 .. Len(log) -> LogRows] /\ n \in 1 .. Len(log)
  BY DEF LogTyped
<1>2. log' = [log EXCEPT ![n] = x]
  BY <1>1 DEF Offer!EventCallback
<1>3. done \in BOOLEAN
  BY Zenon
<1> HIDE DEF done
<1>4. e \in Offer!Statuses
  BY DEF Offer!Statuses
<1>5. x \in LogRows
  BY <1>1, <1>3, <1>4, Restated
<1> HIDE DEF x
<1>6. QED
  BY <1>2, <1>5, LogRow

\* The letters held, and the faults.
LEMMA HeldOnly ==
    ASSUME HeldTyped, LogTyped, Len(log') \in Nat, Len(log) <= Len(log'), held' \subseteq held,
           faults' = faults \/ Offer!Fault
    PROVE  HeldTyped'
<1>1. held' \subseteq 1 .. Len(log')
  BY DEF HeldTyped, LogTyped
<1>2. faults' \in 0 .. BatchFaults
  BY BoundsAssumption DEF HeldTyped, Offer!Fault
<1>3. QED
  BY <1>1, <1>2 DEF HeldTyped

LEMMA HeldMore ==
    ASSUME HeldTyped, LogTyped, LetterIsFresh, NEW r \in Runners, Len(log') = Len(log),
           run[r].pc = "send", Offer!Queued(r), faults' = faults \/ Offer!Fault
    PROVE  HeldTyped'
<1>1. run[r].letter \in 1 .. Len(log)
  BY DEF LetterIsFresh
<1>2. held' \subseteq 1 .. Len(log')
  BY <1>1 DEF HeldTyped, Offer!Queued
<1>3. faults' \in 0 .. BatchFaults
  BY BoundsAssumption DEF HeldTyped, Offer!Fault
<1>4. QED
  BY <1>2, <1>3 DEF HeldTyped

LEMMA BatchLogKept ==
    ASSUME RunTypes, LetterIsFresh, RowsTyped, NEW r \in Runners, Offer!Batch(r)
    PROVE  LogTyped' /\ HeldTyped'
<1>0. BatchesTyped /\ LogTyped /\ HeldTyped /\ Len(log) \in Nat
  BY DEF RowsTyped, LogTyped
<1>1. ASSUME log' = log, held' \subseteq held, faults' = faults \/ Offer!Fault
      PROVE  LogTyped' /\ HeldTyped'
  BY <1>0, <1>1, HeldOnly DEF LogTyped, LogRows, Shelf, Offer!Statuses
<1>2. CASE Offer!BeginBatch(r) \/ Offer!EndBatch(r) \/ Offer!Choose(r) \/ Offer!Raises(r) \/ Offer!BatchDies(r)
  <2>1. log' = log /\ held' = held /\ (faults' = faults \/ Offer!Fault)
    BY <1>2, Zenon DEF Offer!BeginBatch, Offer!EndBatch, Offer!Choose, Offer!Raises, Offer!BatchDies
  <2>2. QED
    BY <1>1, <2>1
<1>3. CASE Offer!InsertLog(r)
  <2>1. LogTyped' /\ Len(log') = Len(log) + 1
    BY <1>0, <1>3, InsertLogged
  <2>2. held' = held /\ faults' = faults
    BY <1>3, Zenon DEF Offer!InsertLog
  <2>3. HeldTyped'
    BY <1>0, <2>1, <2>2, HeldOnly
  <2>4. QED
    BY <2>1, <2>3
<1>4. CASE Offer!MailAccepted(r)
  <2>1. run[r].pc = "send" /\ Offer!Queued(r) /\ log' = log /\ faults' = faults
    BY <1>4, Zenon DEF Offer!MailAccepted
  <2>2. HeldTyped'
    BY <1>0, <2>1, HeldMore
  <2>3. QED
    BY <1>0, <2>1, <2>2 DEF LogTyped, LogRows, Shelf, Offer!Statuses
<1>5. CASE Offer!MailFailed(r)
  <2>1. /\ run[r].pc = "send" /\ log' = [log EXCEPT ![run[r].letter].status = "failed"]
        /\ (held' = held /\ faults' = faults) \/ (Offer!Queued(r) /\ Offer!Fault)
    BY <1>5, Zenon DEF Offer!MailFailed
  <2>2. LogTyped' /\ Len(log') = Len(log)
    BY <1>0, <2>1, StatusOnly
  <2>3. HeldTyped'
    BY <1>0, <2>1, <2>2, HeldOnly, HeldMore
  <2>4. QED
    BY <2>2, <2>3
<1>6. CASE Offer!Close(r)
  <2>1. LogTyped' /\ Len(log') = Len(log)
    BY <1>0, <1>6, CloseLogged
  <2>2. held' = held /\ faults' = faults
    BY <1>6, Zenon DEF Offer!Close
  <2>3. HeldTyped'
    BY <1>0, <2>1, <2>2, HeldOnly
  <2>4. QED
    BY <2>1, <2>3
<1>7. QED
  BY <1>2, <1>3, <1>4, <1>5, <1>6 DEF Offer!Batch

LEMMA CallbackLogKept ==
    ASSUME RowsTyped, NEW n \in DOMAIN log,
           Offer!FailedCallback(n) \/ \E e \in Tracked \union {"sent"} : Offer!EventCallback(n, e)
    PROVE  LogTyped' /\ HeldTyped'
<1>0. LogTyped /\ HeldTyped /\ Len(log) \in Nat
  BY DEF RowsTyped, LogTyped
<1>1. CASE Offer!FailedCallback(n)
  <2>1. log' = [log EXCEPT ![n].status = "failed"] /\ held' = held \ {n} /\ faults' = faults
    BY <1>1, Zenon DEF Offer!FailedCallback
  <2>2. LogTyped' /\ Len(log') = Len(log)
    BY <1>0, <2>1, StatusOnly
  <2>3. QED
    BY <1>0, <2>1, <2>2, HeldOnly
<1>2. ASSUME NEW e \in Tracked \union {"sent"}, Offer!EventCallback(n, e)
      PROVE  LogTyped' /\ HeldTyped'
  <2>1. held' = held /\ faults' = faults
    BY <1>2, Zenon DEF Offer!EventCallback
  <2>2. LogTyped' /\ Len(log') = Len(log)
    BY <1>0, <1>2, EventLogged
  <2>3. QED
    BY <1>0, <2>1, <2>2, HeldOnly
<1>3. QED
  BY <1>1, <1>2

\* Everything that is written has its type after a step.
LEMMA RowsKept ==
    ASSUME RunTypes, LetterIsFresh, RowsTyped, [Offer!Next]_bo
    PROVE  RowsTyped'
<1>0. BatchesTyped /\ TimersTyped /\ LogTyped /\ HeldTyped /\ Len(log) \in Nat
  BY DEF RowsTyped, LogTyped
<1>1. TimersTyped'
  BY <1>0, TimersKept
<1>2. ASSUME run' = run
      PROVE  BatchesTyped'
  BY <1>0, <1>2 DEF BatchesTyped, RowTyped, PickTyped, Spots, Shelf
<1>3. ASSUME log' = log, held' = held, faults' = faults
      PROVE  LogTyped' /\ HeldTyped'
  BY <1>0, <1>3 DEF LogTyped, LogRows, Shelf, Offer!Statuses, HeldTyped
<1>4. BatchesTyped' /\ LogTyped' /\ HeldTyped'
  <2>1. CASE UNCHANGED bo
    BY <1>2, <1>3, <2>1 DEF bo
  <2>2. CASE Offer!Next
    <3>1. ASSUME NEW r \in Runners, Offer!Batch(r)
          PROVE  BatchesTyped' /\ LogTyped' /\ HeldTyped'
      BY <1>0, <3>1, BatchRowsKept, BatchLogKept
    <3>2. ASSUME NEW n \in DOMAIN log,
                 Offer!FailedCallback(n) \/ \E e \in Tracked \union {"sent"} : Offer!EventCallback(n, e)
          PROVE  BatchesTyped' /\ LogTyped' /\ HeldTyped'
      <4>1. run' = run
        BY <3>2, Zenon DEF Offer!FailedCallback, Offer!EventCallback
      <4>2. QED
        BY <1>2, <3>2, <4>1, CallbackLogKept
    <3>3. ASSUME NEW u \in Users, Others(u)
          PROVE  BatchesTyped' /\ LogTyped' /\ HeldTyped'
      <4>1. run' = run /\ log' = log /\ held' = held /\ faults' = faults
        BY <3>3, Zenon DEF Others, Offer!Unsubscribe, Offer!IntervalEnds, Offer!Purchase, Offer!PurchaseRipens,
           Offer!OtherLetter, Offer!DayPasses
      <4>2. QED
        BY <1>2, <1>3, <4>1
    <3>4. QED
      BY <2>2, <3>1, <3>2, <3>3 DEF Offer!Next, Others
  <2>3. QED
    BY <2>1, <2>2
<1>5. QED
  BY <1>1, <1>4 DEF RowsTyped

LEMMA RowsBegin == Offer!Init => RowsTyped
<1> SUFFICES ASSUME Offer!Init PROVE RowsTyped
  OBVIOUS
<1>0. None \in Spots /\ MaxLetters \in Nat /\ BatchFaults \in Nat
  BY BoundsAssumption DEF Spots
<1>1. BatchesTyped
  <2>1. RowTyped(Offer!NoBatch)
    BY DEF RowTyped, PickTyped, Offer!NoBatch, Spots, Shelf, Pick!ToSet
  <2>2. \A r \in Runners : run[r] = Offer!NoBatch
    BY DEF Offer!Init
  <2>3. QED
    BY <2>1, <2>2 DEF BatchesTyped
<1>2. TimersTyped
  <2>1. PICK mailable \in [Users -> BOOLEAN] :
          subs = [u \in Users |-> [mailable |-> mailable[u], pointer |-> None, timer |-> 0, ripe |-> FALSE,
                                   cooling |-> 0, bought |-> "none"]]
    BY DEF Offer!Init
  <2>2. \A u \in Users : [mailable |-> mailable[u], pointer |-> None, timer |-> 0, ripe |-> FALSE,
                          cooling |-> 0, bought |-> "none"] \in TimerRows
    BY <1>0 DEF TimerRows
  <2>3. subs \in [Users -> TimerRows]
    BY <2>1, <2>2
  <2>4. QED
    BY <2>3 DEF TimersTyped, TimerRows
<1>3. LogTyped /\ HeldTyped
  <2>1. log = <<>> /\ held = {} /\ faults = 0
    BY DEF Offer!Init
  <2>2. QED
    BY <1>0, <2>1 DEF LogTyped, HeldTyped
<1>4. QED
  BY <1>1, <1>2, <1>3 DEF RowsTyped

LEMMA RowsAlways == Spec => []RowsTyped
<1>1. Init => RowsTyped
  BY RowsBegin DEF Init
<1>2. OfferInv /\ RowsTyped /\ [Next]_vars => RowsTyped'
  BY OfferAlone, RowsKept DEF OfferInv, OfferTypes
<1>3. QED
  BY <1>1, <1>2, OfferInvAlways, PTL DEF Spec

LEMMA OfferTypesKept == Spec => []Offer!TypeOK
<1>1. OfferInv /\ RowsTyped => Offer!TypeOK
  <2> SUFFICES ASSUME OfferInv, RowsTyped PROVE Offer!TypeOK
    OBVIOUS
  <2>0. RunTypes /\ BatchesTyped /\ TimersTyped /\ LogTyped /\ HeldTyped
    BY DEF OfferInv, OfferTypes, RowsTyped
  <2>1. subs \in [Users -> [mailable : BOOLEAN, pointer : Offer!ToSet(Catalogue.order) \union {None},
                           timer : 0 .. MaxLetters, ripe : BOOLEAN, cooling : 0 .. Offer!Other,
                           bought : {"none", "fresh", "ripe"}]]
    BY <2>0, SameSimple DEF TimersTyped, TimerRows, Spots, Offer!Other
  <2>2. ASSUME NEW n \in DOMAIN log
        PROVE  /\ log[n].user \in Users /\ log[n].status \in Offer!Statuses
               /\ log[n].closed \in BOOLEAN /\ log[n].repeat \in BOOLEAN
               /\ log[n].products \subseteq Offer!ToSet(Catalogue.shelf)
    <3>1. log[n] \in LogRows
      BY <2>0 DEF LogTyped
    <3>2. Shelf = Offer!ToSet(Catalogue.shelf)
      BY SameSimple DEF Shelf
    <3>3. QED
      BY <3>1, <3>2 DEF LogRows
  <2>3. held \subseteq DOMAIN log /\ faults \in 0 .. BatchFaults
    BY <2>0 DEF HeldTyped, LogTyped
  <2>4. ASSUME NEW r \in Runners
        PROVE  /\ run[r].pc \in {"idle", "loop", "insert", "send", "close"}
               /\ run[r].todo \subseteq Users
               /\ run[r].pc \in {"insert", "send", "close"} => run[r].user \in Users
    <3>1. PICK P, K : run \in [Runners -> RunRows(P, K)]
      BY <2>0 DEF RunTypes
    <3>2. QED
      BY <2>0, <3>1 DEF RunRows, RunTypes
  <2>5. QED
    BY <2>1, <2>2, <2>3, <2>4 DEF Offer!TypeOK
<1>2. QED
  BY <1>1, OfferInvAlways, RowsAlways, PTL

-----------------------------------------------------------------------------
\* Every table and process of the services keeps its type, whatever steps the
\* parts take and in whatever order.
THEOREM AllTypesCorrect == Spec => []TypesOK
<1>1. CustomerTypes /\ PanelsTyped /\ Cat!TypeOK /\ Img!TypeOK /\ Offer!TypeOK => TypesOK
  BY DEF CustomerTypes, PanelsTyped, TypesOK
<1>2. QED
  BY <1>1, CustomerTypesKept, PanelTypesKept, CatalogueTypeCorrect, PictureTypesKept, OfferTypesKept, PTL

=============================================================================
