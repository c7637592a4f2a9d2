-------------------------------- MODULE Catalog --------------------------------
(***************************************************************************)
(* The mirror of the shop's catalogue and the top-5 lists the letters are  *)
(* filled from.  Writers: the pull from 1C page by page (app/onec.py, by   *)
(* the worker and by hand), the import of a file in one transaction        *)
(* (app/import_xml.py, import_json.py, import_yml.py), the feeds           *)
(* (app/feeds.py) and the admin panel, which computes the top-5 and tidies *)
(* it whenever its section is opened (app/admin.py).                       *)
(*                                                                         *)
(* Abstractions.  A product is its category, whether it is in stock,       *)
(* whether a picture is known, and its feed tags; names and links are left *)
(* out, and of ranking by sales, orders, price and id there is the number  *)
(* sold and then the id.  A call of executemany or a transaction is a step.*)
(***************************************************************************)
EXTENDS Integers, Sequences, FiniteSetsExt

CONSTANTS
    Products,    \* product ids, naturals: the last key of the ranking
    Cats,        \* category ids
    Listings,    \* what 1C may list: sequences of items [id, cat, stock, photo, tags]
    Files,       \* files and feeds: [format, rows, declared, top5]
    PageSize,    \* page_size 1C answers with
    TopN,        \* positions of a top list (5)
    SortOrders,  \* what a feed of categories may give: positive
    Runners,     \* requests and processes that write the catalogue
    None,
    MaxChanges   \* bound: changes of 1C, sales, files, failures

VARIABLES
    listing,     \* external: the catalogue of 1C
    products,    \* products: a row, or None
    cats,        \* categories: sort_order, 0 for no row
    top5,        \* top5_by_category: [cat, pos, id]
    sold,        \* sales in the orders that count
    run,         \* writers between their statements
    answer,      \* the answer to the last file
    changes      \* counter of the bound

vars == <<listing, products, cats, top5, sold, run, answer, changes>>

\* clean: history, nobody else has written since the pull or the import began.
Idle == [pc |-> "idle", page |-> 0, items |-> <<>>, total |-> 0, new |-> <<>>, start |-> 0,
         rows |-> {}, file |-> None, clean |-> FALSE]
Tags == {"Top", "New", "Related"}
Rows == [cat : Cats, stock : BOOLEAN, photo : BOOLEAN, tags : SUBSET Tags]

\* An item of 1C; a line of a file, before it is checked; a top-5 of a file.
Items == [id : Products, cat : Cats, stock : BOOLEAN, photo : BOOLEAN, tags : {{}}]
Lines == [id : Products \union {None}, cat : Cats \union {None}, stock : BOOLEAN, photo : BOOLEAN,
          numeric : BOOLEAN, kinds : SUBSET Tags]
Places == [cat : Cats, pos : Int, id : Products]

Pulling == {"fetch", "ensure", "insert", "upsert"}

TypeOK ==
    /\ listing \in Listings
    /\ \A p \in Products : products[p] # None => products[p] \in Rows /\ cats[products[p].cat] > 0
    /\ \A c, d \in Cats : c # d /\ cats[c] > 0 => cats[c] # cats[d]
    /\ \A t \in top5 : products[t.id] # None /\ cats[t.cat] > 0 /\ t.pos \in 1 .. TopN
    /\ \A t, s \in top5 : t.cat = s.cat /\ t.pos = s.pos => t = s
    /\ \A r \in Runners : run[r].pc \in Pulling \union {"idle", "done", "import", "top", "renumber"}
    /\ answer \in {"none", "rejected", "db_error", "ok"} /\ changes \in 0 .. MaxChanges

Init ==
    /\ listing \in Listings
    /\ products = [p \in Products |-> None] /\ cats = [c \in Cats |-> 0] /\ top5 = {}
    /\ sold = [p \in Products |-> 0]
    /\ run = [r \in Runners |-> Idle]
    /\ answer = "none" /\ changes = 0

Change == changes < MaxChanges /\ changes' = changes + 1

\* A write of somebody else: no pull is alone any more.
Disturb(f) == [r \in Runners |-> [f[r] EXCEPT !.clean = FALSE]]
Step(r, f) == run' = [Disturb(run) EXCEPT ![r] = f]

-----------------------------------------------------------------------------
\* Rows of the products statement, in order: of a product's lines the last one
\* stays, known pictures stay, tags accumulate (an item of 1C brings none).
Upserted(table, items) ==
    [p \in Products |->
        LET lines == {n \in DOMAIN items : items[n].id = p}
            last == items[Max(lines)]
            old == IF table[p] = None THEN [photo |-> FALSE, tags |-> {}] ELSE table[p]
        IN  IF lines = {} THEN table[p]
            ELSE [cat |-> last.cat, stock |-> last.stock,
                  photo |-> old.photo \/ \E n \in lines : items[n].photo,
                  tags |-> old.tags \union UNION {items[n].tags : n \in lines}]]

\* _ensure_categories: the new ones, each with its place in the order of
\* appearance; they come after the last.
NewCategories(items) ==
    LET new == {c \in Cats : cats[c] = 0 /\ \E n \in DOMAIN items : items[n].cat = c}
        first(c) == Min({n \in DOMAIN items : items[n].cat = c})
    IN  [c \in new |-> Cardinality({d \in new : first(d) <= first(c)})]
LastOrder == Max({0} \union {cats[c] : c \in Cats})
WithCategories(new, start) == [c \in Cats |-> IF c \in DOMAIN new THEN start + new[c] ELSE cats[c]]

\* Mutant: sort_order is not unique.
InsertableAnywhere(new, start) == \A c \in DOMAIN new : cats[c] = 0

\* Both unique constraints of categories.
Insertable(new, start) == \A c \in DOMAIN new : cats[c] = 0 /\ \A d \in Cats : cats[d] # start + new[c]

-----------------------------------------------------------------------------
\* sync_catalog, page after page.
BeginPull(r) ==
    /\ run[r].pc \in {"idle", "done"} /\ Change
    /\ run' = [run EXCEPT ![r] = [Idle EXCEPT !.pc = "fetch", !.page = 1, !.clean = TRUE]]
    /\ UNCHANGED <<listing, products, cats, top5, sold, answer>>

Fetch(r) ==
    LET page == run[r].page
        items == SubSeq(listing, (page - 1) * PageSize + 1,
                        IF page * PageSize < Len(listing) THEN page * PageSize ELSE Len(listing))
    IN
    /\ run[r].pc = "fetch"
    /\ run' = [run EXCEPT ![r].pc = IF items = <<>> THEN "done" ELSE "ensure",
                          ![r].items = items, ![r].total = Len(listing)]
    /\ UNCHANGED <<listing, products, cats, top5, sold, answer, changes>>

FetchFails(r) ==
    /\ run[r].pc = "fetch" /\ Change
    /\ run' = [run EXCEPT ![r] = Idle]
    /\ UNCHANGED <<listing, products, cats, top5, sold, answer>>

EnsureCategories(r) ==
    LET new == NewCategories(run[r].items) IN
    /\ run[r].pc = "ensure"
    /\ run' = [run EXCEPT ![r].pc = IF DOMAIN new = {} THEN "upsert" ELSE "insert",
                          ![r].new = new, ![r].start = LastOrder]
    /\ UNCHANGED <<listing, products, cats, top5, sold, answer, changes>>

InsertCategories(r) ==
    /\ run[r].pc = "insert"
    /\ IF Insertable(run[r].new, run[r].start)
       THEN /\ cats' = WithCategories(run[r].new, run[r].start)
            /\ Step(r, [run[r] EXCEPT !.pc = "upsert"])
       ELSE run' = [run EXCEPT ![r] = Idle] /\ UNCHANGED cats
    /\ UNCHANGED <<listing, products, top5, sold, answer, changes>>

\* Mutant: the last page is not fetched.
MorePagesButOne(job) == (job.page + 1) * PageSize < job.total

\* The pull ends when the pages read make up the total 1C gave with this one.
MorePages(job) == job.page * PageSize < job.total

UpsertPage(r) ==
    LET job == run[r] IN
    /\ job.pc = "upsert"
    /\ products' = Upserted(products, job.items)
    /\ Step(r, IF MorePages(job) THEN [job EXCEPT !.pc = "fetch", !.page = @ + 1]
               ELSE [job EXCEPT !.pc = "done"])
    /\ UNCHANGED <<listing, cats, top5, sold, answer, changes>>

-----------------------------------------------------------------------------
\* _feed_tag: the kind of a JSON row, "related" before "top".
FeedTag(row) == IF "Related" \in row.kinds THEN {"Related"}
                ELSE IF "New" \in row.kinds THEN {"New"}
                ELSE IF "Top" \in row.kinds THEN {"Top"} ELSE {}

\* parse of the three formats: every row has an id, a category and a numeric
\* price, a place is 1 .. 5, an YML file has products; else the file is refused.
Accepted(f) ==
    /\ \A i \in DOMAIN f.rows : f.rows[i].id # None /\ f.rows[i].cat # None /\ f.rows[i].numeric
    /\ \A t \in f.top5 : t.pos \in 1 .. TopN
    /\ f.format = "yml" => f.rows # <<>>
Parsed(f) ==
    [n \in DOMAIN f.rows |->
        LET i == f.rows[n] IN [id |-> i.id, cat |-> i.cat, stock |-> i.stock, photo |-> i.photo,
                               tags |-> IF f.format = "json" THEN FeedTag(i) ELSE {}]]
\* Mutant: only the declared ones.
DeclaredCategories(f) == IF f.format = "json" THEN <<>> ELSE f.declared

\* Categories: the declared ones, then those the products name.
ParsedCategories(f) ==
    LET declared == IF f.format = "json" THEN <<>> ELSE f.declared
    IN declared \o [n \in DOMAIN f.rows |-> [cat |-> f.rows[n].cat]]

\* POST /import-xml, /import-json and PUT /feeds/products, /feeds/top5, which
\* bring no categories: parse, and in the transaction read the categories ...
TakeFile(r, f) ==
    /\ run[r].pc = "idle" /\ Change
    /\ IF f.format # "feed" /\ ~Accepted(f)
       THEN answer' = "rejected" /\ UNCHANGED run
       ELSE /\ run' = [run EXCEPT ![r] = [Idle EXCEPT
                  !.pc = "import", !.file = f, !.items = Parsed(f), !.start = LastOrder, !.clean = TRUE,
                  !.new = IF f.format = "feed" THEN <<>> ELSE NewCategories(ParsedCategories(f))]]
            /\ UNCHANGED answer
    /\ UNCHANGED <<listing, products, cats, top5, sold>>

\* The constraints of the tables: every reference is in the file or in them.
RefersToRows(items, new, places) ==
    /\ \A n \in DOMAIN items : cats[items[n].cat] > 0 \/ items[n].cat \in DOMAIN new
    /\ \A t \in places : /\ t.pos \in 1 .. TopN
                         /\ (products[t.id] # None \/ \E n \in DOMAIN items : items[n].id = t.id)
                         /\ (cats[t.cat] > 0 \/ t.cat \in DOMAIN new)
                         /\ \A s \in places : s.cat = t.cat /\ s.pos = t.pos => s = t

\* ... then write and commit all of it, or none.
CommitFile(r) ==
    LET job == run[r] IN
    /\ job.pc = "import"
    /\ IF Insertable(job.new, job.start) /\ RefersToRows(job.items, job.new, job.file.top5)
       THEN /\ answer' = "ok"
            /\ cats' = WithCategories(job.new, job.start)
            /\ products' = Upserted(products, job.items)
            /\ top5' = IF job.file.top5 = {} THEN top5 ELSE job.file.top5
            /\ Step(r, Idle)
       ELSE /\ answer' = "db_error"
            /\ run' = [run EXCEPT ![r] = Idle]
            /\ UNCHANGED <<products, cats, top5>>
    /\ UNCHANGED <<listing, sold, changes>>

\* PUT /feeds/categories: a row, unless another category has its sort_order.
FeedCategory(c, n) ==
    /\ Change
    /\ \A d \in Cats \ {c} : cats[d] # n
    /\ cats' = [cats EXCEPT ![c] = n]
    /\ run' = Disturb(run)
    /\ UNCHANGED <<listing, products, top5, sold, answer>>

OnecChanges ==
    /\ Change
    /\ listing' \in Listings \ {listing}
    /\ run' = Disturb(run)
    /\ UNCHANGED <<products, cats, top5, sold, answer>>

\* An order that counts: neither cancelled nor returned.
Sale(p) ==
    /\ Change
    /\ sold' = [sold EXCEPT ![p] = @ + 1]
    /\ UNCHANGED <<listing, products, cats, top5, run, answer>>

-----------------------------------------------------------------------------
\* _TOP5_SQL.
Shown(p) == products[p] # None /\ products[p].stock /\ products[p].photo
Outranks(p, q) == sold[p] > sold[q] \/ (sold[p] = sold[q] /\ p < q)
Place(p) ==
    1 + Cardinality({q \in Products : Shown(q) /\ products[q].cat = products[p].cat /\ Outranks(q, p)})
Ranked == {[cat |-> products[p].cat, pos |-> Place(p), id |-> p] : p \in {x \in Products : Shown(x)}}

\* compute_top5: the query, and then the list as a whole.
ComputeTop(r) ==
    /\ run[r].pc = "idle"
    /\ run' = [run EXCEPT ![r] = [Idle EXCEPT !.pc = "top", !.rows = {t \in Ranked : t.pos <= TopN}]]
    /\ UNCHANGED <<listing, products, cats, top5, sold, answer, changes>>

ReplaceTop(r) ==
    /\ run[r].pc = "top"
    /\ top5' = run[r].rows
    /\ run' = [run EXCEPT ![r] = Idle]
    /\ UNCHANGED <<listing, products, cats, sold, answer, changes>>

\* _purge_top5_no_photo: rows without a picture go ...
Purge(r) ==
    /\ run[r].pc = "idle" /\ Change
    /\ top5' = {t \in top5 : products[t.id].photo}
    /\ run' = [run EXCEPT ![r] = [Idle EXCEPT !.pc = "renumber"]]
    /\ UNCHANGED <<listing, products, cats, sold, answer>>

\* Mutant: numbered by product id.
RenumberedById(t) == {1 + Cardinality({x \in top5 : x.cat = t.cat /\ x.id < t.id})}

\* ... the others move up; a product listed twice takes either of its places.
\* The key is checked row by row, so the statement may fail when two rows move.
Renumbered(t) == {1 + Cardinality({x \in top5 : x.cat = s.cat /\ x.pos < s.pos}) :
                    s \in {x \in top5 : x.cat = t.cat /\ x.id = t.id}}
Renumber(r) ==
    /\ run[r].pc = "renumber"
    /\ \E place \in [top5 -> 1 .. TopN] :
        /\ \A t \in top5 : place[t] \in Renumbered(t)
        /\ \/ /\ top5' = {[t EXCEPT !.pos = place[t]] : t \in top5}
              /\ \A t, s \in top5 : t # s /\ t.cat = s.cat => place[t] # place[s]
           \/ /\ UNCHANGED top5
              /\ \E t, s \in top5 : t # s /\ t.cat = s.cat /\ place[t] \in {s.pos, place[s]}
    /\ run' = [run EXCEPT ![r] = Idle]
    /\ UNCHANGED <<listing, products, cats, sold, answer, changes>>

Next ==
    \/ \E r \in Runners : \/ BeginPull(r) \/ Fetch(r) \/ FetchFails(r) \/ EnsureCategories(r)
                          \/ InsertCategories(r) \/ UpsertPage(r)
                          \/ CommitFile(r) \/ \E f \in Files : TakeFile(r, f)
                          \/ ComputeTop(r) \/ ReplaceTop(r) \/ Purge(r) \/ Renumber(r)
    \/ \E p \in Products : Sale(p)
    \/ \E c \in Cats, n \in SortOrders : FeedCategory(c, n)
    \/ OnecChanges

Spec == Init /\ [][Next]_vars

-----------------------------------------------------------------------------
\* A pull that ends while 1C and the other writers stand still has brought
\* over every item 1C lists, whatever the pages it was cut into: of a product
\* listed twice the last item, with a picture if one of them had it.
SyncIsComplete ==
    \A r \in Runners : run[r].pc = "done" /\ run[r].clean =>
        \A n \in DOMAIN listing :
            LET i == listing[n] IN
            /\ products[i.id] # None
            /\ i.photo => products[i.id].photo
            /\ (\A m \in DOMAIN listing : m > n => listing[m].id # i.id) =>
                  products[i.id].cat = i.cat /\ products[i.id].stock = i.stock

\* Opening the recommendations never loses a product with a picture from a
\* top list and never changes the order of the list, even when the renumbering
\* fails or other writers come between its two statements.
TidyingKeepsLists ==
    [][(\E r \in Runners : "renumber" \in {run[r].pc, run'[r].pc} /\ run[r].pc # run'[r].pc) =>
        /\ \A t \in top5 : products[t.id].photo => \E n \in top5' : n.cat = t.cat /\ n.id = t.id
        /\ \A n, m \in top5' : n.cat = m.cat /\ n.id # m.id /\ n.pos < m.pos =>
              \E t, s \in top5 : /\ t.cat = n.cat /\ s.cat = n.cat
                                 /\ t.id = n.id /\ s.id = m.id /\ t.pos < s.pos]_vars

\* A file without a top-5 that passed the parser never fails in the database
\* for a missing category, only when another writer took the categories it was
\* about to add.
ParsedFileFits ==
    [][\A r \in Runners : run[r].pc = "import" /\ run'[r].pc = "idle" /\ run[r].clean
                         /\ run[r].file.format # "feed" /\ run[r].file.top5 = {} => answer' = "ok"]_vars
=============================================================================
