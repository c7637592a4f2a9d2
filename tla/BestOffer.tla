------------------------------ MODULE BestOffer ------------------------------
(***************************************************************************)
(* The Best Offer mailing (app/best_offer.py): a batch selects the         *)
(* subscribers whose interval is over, once, and then writes to one after  *)
(* the other: choose products, insert the log row, hand the letter over,   *)
(* and move the timers and the rotation pointer in a transaction.  Batches *)
(* run in the worker and on the admin's request (admin.run_now), callbacks *)
(* of the mail service arrive at any time (app/analytics.py).              *)
(*                                                                         *)
(* Abstractions.  Of time there is what has run out: ripe is the interval  *)
(* since the last letter, bought the purchase after it and whether its 20  *)
(* days are over; cooling names the letter of the last 24 hours.  The      *)
(* statements of one callback are one step here (PostsaleQueue splits      *)
(* them).  The catalogue does not change; ProductPick varies it.           *)
(***************************************************************************)
EXTENDS ProductPick

CONSTANTS
    Users,
    Runners,     \* processes that may run a batch
    Catalogue,   \* see ProductPick
    LastCategory, \* last_purchase_category_id of each user, or None
    ItemsLimit,  \* items_limit
    LastN,       \* DEDUP_LAST_N
    MaxPerDay,   \* max_per_day, 0 for no limit
    Tracked,     \* events an ESP reports of a letter that was sent
    MaxLetters,  \* bound: letters written
    MaxFaults    \* bound: deaths, exceptions, lost replies, overlapping batches

VARIABLES
    subs,     \* subscribers: mailable, rotation pointer, timers
    log,      \* email_log of this service
    held,     \* letters the mail service has and has not failed to deliver
    run,      \* batches
    period,   \* history: letters held in the current interval of a user
    opened,   \* history: batches that had selected a user when he unsubscribed, or -1
    late,     \* history: letters handed over after that
    handed,   \* history: letters handed over by a batch
    faults    \* counter of the bound

vars == <<subs, log, held, run, period, opened, late, handed, faults>>

Other == MaxLetters + 1  \* a letter of another scenario
NoBatch == [pc |-> "idle", todo |-> {}, pointer |-> [u \in {} |-> None], user |-> None, sent |-> 0, letter |-> 0,
            pick |-> [primary |-> None, ids |-> <<>>, pointer |-> None]]
Statuses == {"queued", "sent", "failed"} \union Tracked

TypeOK ==
    /\ subs \in [Users -> [mailable : BOOLEAN, pointer : ToSet(Catalogue.order) \union {None},
                           timer : 0 .. MaxLetters, ripe : BOOLEAN, cooling : 0 .. Other,
                           bought : {"none", "fresh", "ripe"}]]
    /\ \A n \in DOMAIN log : /\ log[n].user \in Users /\ log[n].status \in Statuses
                             /\ log[n].closed \in BOOLEAN /\ log[n].repeat \in BOOLEAN
                             /\ log[n].products \subseteq ToSet(Catalogue.shelf)
    /\ held \subseteq DOMAIN log
    /\ \A r \in Runners : /\ run[r].pc \in {"idle", "loop", "insert", "send", "close"}
                          /\ run[r].todo \subseteq Users
                          /\ run[r].pc \in {"insert", "send", "close"} => run[r].user \in Users
    /\ faults \in 0 .. MaxFaults

Init ==
    /\ \E mailable \in [Users -> BOOLEAN] :
           subs = [u \in Users |-> [mailable |-> mailable[u], pointer |-> None, timer |-> 0, ripe |-> FALSE,
                                    cooling |-> 0, bought |-> "none"]]
    /\ log = <<>> /\ held = {}
    /\ run = [r \in Runners |-> NoBatch]
    /\ period = [u \in Users |-> {}]
    /\ opened = [u \in Users |-> -1]
    /\ late = [u \in Users |-> 0]
    /\ handed = [r \in Runners |-> 0]
    /\ faults = 0

Fault == faults < MaxFaults /\ faults' = faults + 1

-----------------------------------------------------------------------------
\* Mutant: the interval since the last letter is forgotten.
CandidateEveryDay(u) == subs[u].mailable /\ subs[u].cooling = 0

\* Mutant: is_unsubscribed is not looked at.
CandidateUnasked(u) ==
    subs[u].cooling = 0 /\ (subs[u].timer = 0 \/ subs[u].bought = "ripe" \/ (subs[u].bought = "none" /\ subs[u].ripe))

\* _candidates: a purchase since the last letter replaces its interval.
Candidate(u) ==
    LET s == subs[u] IN
    /\ s.mailable /\ s.cooling = 0
    /\ \/ s.timer = 0
       \/ s.bought = "ripe"
       \/ s.bought = "none" /\ s.ripe

\* The batch starts, scheduled or by hand, and selects.
BeginBatch(r) ==
    /\ run[r].pc = "idle"
    /\ run' = [run EXCEPT ![r] = [NoBatch EXCEPT
                 !.pc = "loop", !.todo = {u \in Users : Candidate(u)},
                 !.pointer = [u \in {x \in Users : Candidate(x)} |-> subs[u].pointer]]]
    /\ IF \E q \in Runners : run[q].pc # "idle" THEN Fault ELSE UNCHANGED faults
    /\ handed' = [handed EXCEPT ![r] = 0]
    /\ UNCHANGED <<subs, log, held, period, opened, late>>

\* Mutant: one letter too many.
DayIsOverLate(r) == MaxPerDay # 0 /\ run[r].sent > MaxPerDay

DayIsOver(r) == MaxPerDay # 0 /\ run[r].sent >= MaxPerDay

EndBatch(r) ==
    /\ run[r].pc = "loop"
    /\ run[r].todo = {} \/ DayIsOver(r)
    /\ run' = [run EXCEPT ![r] = NoBatch]
    /\ UNCHANGED <<subs, log, held, period, opened, late, handed, faults>>

Newest(u) == Reverse(Keep(log, {n \in DOMAIN log : log[n].user = u}))

\* What the customer really received last, whatever became of the letters.
Received(u) ==
    LET letters == Newest(u)
    IN  UNION {l.products : l \in ToSet(Take(Keep(letters, {i \in DOMAIN letters : letters[i].n \in held}), LastN))}

\* The next candidate: recent products and offset of the moment, the pointer as
\* it was when the batch selected.
Choose(r) ==
    /\ run[r].pc = "loop" /\ ~DayIsOver(r)
    /\ \E u \in run[r].todo :
        LET known == Without(<<run[r].pointer[u], LastCategory[u]>>, {None})
            start == IF known # <<>> THEN Head(known) ELSE Head(Catalogue.order)
            pools == top5_map(Catalogue, ItemsLimit)
            recent == recent_sent_products(Newest(u), LastN)
            pick == send_one_pick(Catalogue, start, pools, recent, ItemsLimit, send_offset(Newest(u)))
        IN  run' = [run EXCEPT ![r] = [run[r] EXCEPT
                      !.todo = @ \ {u}, !.user = u, !.pick = pick,
                      !.pointer = [x \in run[r].todo \ {u} |-> @[x]],
                      !.pc = IF pick.ids = <<>> THEN "loop" ELSE "insert"]]
    /\ UNCHANGED <<subs, log, held, period, opened, late, handed, faults>>

\* INSERT INTO email_log ... 'queued'.
InsertLog(r) ==
    /\ run[r].pc = "insert" /\ Len(log) < MaxLetters
    /\ LET u == run[r].user
           ids == ToSet(run[r].pick.ids)
           pools == top5_map(Catalogue, ItemsLimit)
       IN  log' = Append(log, [n |-> Len(log) + 1, user |-> u, products |-> ids, status |-> "queued",
                               closed |-> FALSE,
                               repeat |-> /\ ids \intersect Received(u) # {}
                                          /\ \E c \in DOMAIN pools :
                                                Cardinality(ToSet(pools[c]) \ Received(u)) >= 2])
    /\ run' = [run EXCEPT ![r].pc = "send", ![r].letter = Len(log) + 1]
    /\ UNCHANGED <<subs, held, period, opened, late, handed, faults>>

Queued(r) ==
    LET u == run[r].user IN
    /\ held' = held \union {run[r].letter}
    /\ period' = [period EXCEPT ![u] = @ \union {run[r].letter}]
    /\ handed' = [handed EXCEPT ![r] = @ + 1]
    /\ late' = [late EXCEPT ![u] = IF subs[u].mailable THEN @ ELSE @ + 1]

MailAccepted(r) ==
    /\ run[r].pc = "send"
    /\ Queued(r)
    /\ run' = [run EXCEPT ![r].pc = "close"]
    /\ UNCHANGED <<subs, log, opened, faults>>

\* mailer.send returned False: the service refused, or has the letter and its
\* answer was lost.
MailFailed(r) ==
    /\ run[r].pc = "send"
    /\ log' = [log EXCEPT ![run[r].letter].status = "failed"]
    /\ run' = [run EXCEPT ![r].pc = "loop"]
    /\ \/ UNCHANGED <<held, period, handed, late, faults>>
       \/ Queued(r) /\ Fault
    /\ UNCHANGED <<subs, opened>>

\* The closing transaction.
Close(r) ==
    /\ run[r].pc = "close"
    /\ LET n == run[r].letter
           u == run[r].user
       IN  /\ log' = [log EXCEPT ![n].status = "sent", ![n].closed = TRUE]
           /\ subs' = [subs EXCEPT ![u].timer = n, ![u].cooling = n, ![u].ripe = FALSE,
                                   ![u].bought = "none", ![u].pointer = run[r].pick.pointer]
    /\ run' = [run EXCEPT ![r].pc = "loop", ![r].sent = @ + 1]
    /\ UNCHANGED <<held, period, opened, late, handed, faults>>

\* An exception is logged and the batch goes on with the next candidate; a
\* death ends the batch.  Either leaves the row of the letter as it was.
Raises(r) ==
    /\ run[r].pc \in {"insert", "send", "close"} /\ Fault
    /\ run' = [run EXCEPT ![r].pc = "loop"]
    /\ UNCHANGED <<subs, log, held, period, opened, late, handed>>

BatchDies(r) ==
    /\ run[r].pc # "idle" /\ Fault
    /\ run' = [run EXCEPT ![r] = NoBatch]
    /\ UNCHANGED <<subs, log, held, period, opened, late, handed>>

-----------------------------------------------------------------------------
\* The callback "failed" takes the timers back if they are this letter's.  (After
\* a callback "sent", which moves sent_at, the code may miss them; the mail
\* service reports one of the two only.)
FailedCallback(n) ==
    /\ n \in held /\ log[n].status \notin Tracked
    /\ held' = held \ {n}
    /\ log' = [log EXCEPT ![n].status = "failed"]
    /\ period' = [u \in Users |-> period[u] \ {n}]
    /\ LET u == log[n].user
           newer == \E m \in DOMAIN log : /\ m # n /\ log[m].user = u /\ log[m].closed
                                          /\ log[m].status # "failed" /\ m > n
       IN  subs' = IF log[n].closed /\ subs[u].timer = n /\ ~newer
                   THEN [subs EXCEPT ![u].timer = 0, ![u].cooling = IF @ = n THEN 0 ELSE @]
                   ELSE subs
    /\ UNCHANGED <<run, opened, late, handed, faults>>

\* Any other callback overwrites the status; "sent" sets sent_at as well.
EventCallback(n, event) ==
    /\ n \in held
    /\ log' = [log EXCEPT ![n].status = event, ![n].closed = @ \/ event = "sent"]
    /\ UNCHANGED <<subs, held, run, period, opened, late, handed, faults>>

\* The confirmed link of the letter's footer.
Unsubscribe(u) ==
    /\ subs[u].mailable
    /\ subs' = [subs EXCEPT ![u].mailable = FALSE]
    /\ opened' = [opened EXCEPT ![u] =
                    Cardinality({r \in Runners : \/ u \in run[r].todo
                                                 \/ run[r].user = u /\ run[r].pc \in {"insert", "send"}})]
    /\ UNCHANGED <<log, held, run, period, late, handed, faults>>

\* Time, orders and the other mailings, as long as another letter can follow.
Followed == Len(log) < MaxLetters

IntervalEnds(u) ==
    /\ Followed
    /\ subs[u].timer # 0 /\ ~subs[u].ripe
    /\ subs' = [subs EXCEPT ![u].ripe = TRUE, ![u].cooling = 0]
    /\ period' = [period EXCEPT ![u] = {}]
    /\ UNCHANGED <<log, held, run, opened, late, handed, faults>>

Purchase(u) ==
    /\ Followed
    /\ subs[u].timer # 0
    /\ subs' = [subs EXCEPT ![u].bought = "fresh"]
    /\ UNCHANGED <<log, held, run, period, opened, late, handed, faults>>

PurchaseRipens(u) ==
    /\ Followed
    /\ subs[u].bought = "fresh"
    /\ subs' = [subs EXCEPT ![u].bought = "ripe", ![u].cooling = 0]
    /\ period' = [period EXCEPT ![u] = {}]
    /\ UNCHANGED <<log, held, run, opened, late, handed, faults>>

OtherLetter(u) ==
    /\ Followed
    /\ subs' = [subs EXCEPT ![u].cooling = Other]
    /\ UNCHANGED <<log, held, run, period, opened, late, handed, faults>>

DayPasses(u) ==
    /\ Followed
    /\ subs[u].cooling # 0
    /\ subs' = [subs EXCEPT ![u].cooling = 0]
    /\ UNCHANGED <<log, held, run, period, opened, late, handed, faults>>

Batch(r) == \/ BeginBatch(r) \/ EndBatch(r) \/ Choose(r) \/ InsertLog(r) \/ MailAccepted(r)
            \/ MailFailed(r) \/ Close(r) \/ Raises(r) \/ BatchDies(r)

Next ==
    \/ \E r \in Runners : Batch(r)
    \/ \E n \in DOMAIN log : FailedCallback(n) \/ \E e \in Tracked \union {"sent"} : EventCallback(n, e)
    \/ \E u \in Users : \/ Unsubscribe(u) \/ IntervalEnds(u) \/ Purchase(u) \/ PurchaseRipens(u)
                        \/ OtherLetter(u) \/ DayPasses(u)

Spec == Init /\ [][Next]_vars

-----------------------------------------------------------------------------
\* Within one interval (30 days, or 20 after a purchase) a customer gets one
\* letter, and one more for each death, exception, lost answer or batch that
\* overlaps another.  Only the timers written by Close stand between batches.
OncePerInterval == \A u \in Users : Cardinality(period[u]) <= 1 + faults

\* A batch hands over no more than max_per_day letters, and one more for each
\* letter it does not know it sent.
DayLimit == MaxPerDay # 0 => \A r \in Runners : handed[r] <= MaxPerDay + faults

\* After an unsubscription only a batch that had selected the customer before
\* can still write to him, each of them once.
LateLettersBounded == \A u \in Users : opened[u] >= 0 => late[u] <= opened[u]

\* product_pick.py: a customer must not get the same products in his next
\* letters, unless the pools are exhausted.
NoRepeat == \A n \in DOMAIN log : ~log[n].repeat

=============================================================================
