----------------------------- MODULE Attribution -----------------------------
(***************************************************************************)
(* Reported clicks and the attribution of orders to letters                *)
(* (app/analytics.py), for the letters and orders of one customer.  A run  *)
(* reads the orders that have no letter, once; then, for each, it looks up *)
(* the last click in the window before the order and stores the order at   *)
(* that letter, two statements.  The worker runs it, and so does the       *)
(* admin's button.  Times are small numbers.                               *)
(***************************************************************************)
EXTENDS Naturals, FiniteSets, FiniteSetsExt

CONSTANTS
    Letters, Orders,
    Runners,
    None,      \* null
    Window,    \* attribution_window_hours
    Grace,     \* SCAN_GRACE_HOURS: room for late events
    Horizon,   \* bound: last point in time
    MaxOverlaps \* bound: runs begun while another is working

VARIABLES
    now,
    order,    \* orders: date (0: not there) and whether it counts
    letter,   \* email_log: clicked_at (0: null), attributed_order_id
    run,      \* runs: stage, orders still to do, letter found
    clicks,   \* history: dates of all clicks on a letter
    overlaps  \* counter of the bound

vars == <<now, order, letter, run, clicks, overlaps>>

Idle == [pc |-> "idle", todo |-> {}, order |-> None, letter |-> None]

TypeOK ==
    /\ now \in 1 .. Horizon
    /\ order \in [Orders -> [date : 0 .. Horizon, live : BOOLEAN]]
    /\ letter \in [Letters -> [clicked : 0 .. Horizon, order : Orders \union {None}]]
    /\ run \in [Runners -> [pc : {"idle", "find", "store"}, todo : SUBSET Orders,
                            order : Orders \union {None}, letter : Letters \union {None}]]
    /\ clicks \in [Letters -> SUBSET (1 .. Horizon)]
    /\ overlaps \in 0 .. MaxOverlaps

Init ==
    /\ now = 1
    /\ order = [o \in Orders |-> [date |-> 0, live |-> FALSE]]
    /\ letter = [n \in Letters |-> [clicked |-> 0, order |-> None]]
    /\ run = [r \in Runners |-> Idle]
    /\ clicks = [n \in Letters |-> {}]
    /\ overlaps = 0

-----------------------------------------------------------------------------
\* The webhook: each click overwrites the date of the one before.
Click(n) ==
    /\ letter' = [letter EXCEPT ![n].clicked = now]
    /\ clicks' = [clicks EXCEPT ![n] = @ \union {now}]
    /\ UNCHANGED <<now, order, run, overlaps>>

Buy(o) ==
    /\ order[o].date = 0
    /\ order' = [order EXCEPT ![o] = [date |-> now, live |-> TRUE]]
    /\ UNCHANGED <<now, letter, run, clicks, overlaps>>

Cancel(o) ==
    /\ order[o].live
    /\ order' = [order EXCEPT ![o].live = FALSE]
    /\ UNCHANGED <<now, letter, run, clicks, overlaps>>

Tick ==
    /\ now < Horizon
    /\ now' = now + 1
    /\ UNCHANGED <<order, letter, run, clicks, overlaps>>

-----------------------------------------------------------------------------
\* Mutant: NOT EXISTS is left out.
AttributedUnchecked(o) == FALSE

Attributed(o) == \E n \in Letters : letter[n].order = o

BeginRun(r) ==
    /\ run[r].pc = "idle"
    /\ IF \E q \in Runners : run[q].pc # "idle"
       THEN overlaps < MaxOverlaps /\ overlaps' = overlaps + 1 ELSE UNCHANGED overlaps
    /\ LET open == {o \in Orders : /\ order[o].date > 0 /\ order[o].live
                                   /\ order[o].date + Window + Grace >= now
                                   /\ ~Attributed(o)}
       IN  /\ open # {}
           /\ run' = [run EXCEPT ![r] = [Idle EXCEPT !.pc = "find", !.todo = open]]
    /\ UNCHANGED <<now, order, letter, clicks>>

\* Mutant: only the length of the window is checked, not its direction.
ClickedEitherWay(o) == {n \in Letters : /\ letter[n].clicked > 0 /\ letter[n].order = None
                                        /\ order[o].date <= letter[n].clicked + Window}

Clicked(o) == {n \in Letters : /\ letter[n].clicked > 0 /\ letter[n].order = None
                               /\ letter[n].clicked <= order[o].date
                               /\ order[o].date <= letter[n].clicked + Window}

\* The letter of the last click before the order, or the order is passed over.
FindLetter(r, o) ==
    /\ run[r].pc = "find" /\ o \in run[r].todo
    /\ \/ /\ Clicked(o) = {}
          /\ run' = [run EXCEPT ![r].todo = @ \ {o},
                                ![r].pc = IF run[r].todo = {o} THEN "idle" ELSE "find"]
       \/ \E n \in Clicked(o) :
            /\ letter[n].clicked = Max({letter[m].clicked : m \in Clicked(o)})
            /\ run' = [run EXCEPT ![r] = [pc |-> "store", todo |-> @.todo \ {o},
                                          order |-> o, letter |-> n]]
    /\ UNCHANGED <<now, order, letter, clicks, overlaps>>

\* UPDATE email_log ... WHERE id: whatever the row holds by now.
StoreOrder(r) ==
    /\ run[r].pc = "store"
    /\ letter' = [letter EXCEPT ![run[r].letter].order = run[r].order]
    /\ run' = [run EXCEPT ![r] = IF @.todo = {} THEN Idle
                                 ELSE [@ EXCEPT !.pc = "find", !.order = None, !.letter = None]]
    /\ UNCHANGED <<now, order, clicks, overlaps>>

Work(r) == BeginRun(r) \/ StoreOrder(r) \/ \E o \in Orders : FindLetter(r, o)

Next ==
    \/ Tick
    \/ \E n \in Letters : Click(n)
    \/ \E o \in Orders : Buy(o) \/ Cancel(o)
    \/ \E r \in Runners : Work(r)

Spec == Init /\ [][Next]_vars

-----------------------------------------------------------------------------
\* One order, one letter (the docstring of run_attribution): an order is
\* stored at a second letter only by a run that overlapped another one.
OneOrderOneLetter ==
    \A o \in Orders : Cardinality({n \in Letters : letter[n].order = o}) <= 1 + overlaps

\* An order is credited to a letter only if the customer clicked in that
\* letter within the window before it, however late events and runs come.
CreditIsEarned ==
    \A n \in Letters : letter[n].order # None =>
        \E c \in clicks[n] : LET d == order[letter[n].order].date IN c <= d /\ d <= c + Window

=============================================================================
