---------------------------- MODULE CartRecovery ----------------------------
(***************************************************************************)
(* The abandoned-cart mailing (app/cart.py): browser sessions kept alive   *)
(* by pings, the tick that detects departures and writes one letter per    *)
(* customer and cooldown period, orders that stop it, and the webhook that *)
(* puts the customer back when the letter could not be delivered           *)
(* (app/analytics.py).                                                     *)
(*                                                                         *)
(* As in PostsaleQueue, ticks run in several processes, their selection    *)
(* FOR UPDATE SKIP LOCKED is made outside a transaction, and a session is  *)
(* processed from the snapshot taken then.                                 *)
(*                                                                         *)
(* Abstractions.  All sessions of a user are linked to him (by user_id or  *)
(* e-mail).  Time is what has run out: due[s] is depart_timeout_sec for an *)
(* active and grace_sec for a departed session.  Of an order it matters    *)
(* for which sessions it is dated after created_at.  Cart contents are     *)
(* "some" or none.  last_any_trigger_at matters to the post-sale mailing   *)
(* only.  A letter reported sent never fails afterwards: LetterService.    *)
(***************************************************************************)
EXTENDS Naturals, FiniteSets

CONSTANTS
    Sessions,    \* values of the cookie gr_sid, kept for a year
    Users,       \* subscribers
    UserOf,      \* the subscriber behind a session
    Runners,     \* processes that may execute a tick
    Handlers,    \* concurrent executions of the failure webhook
    NoSession,   \* null
    OneC,        \* is the 1C order service configured?
    MaxLetters,  \* bound: letters followed at a time
    MaxReports,  \* bound: failure callbacks handled per letter
    MaxPings,    \* bound: pings that change something
    MaxFailures, \* bound: letters the mail service gives up
    MaxFaults    \* bound: deaths, exceptions, lost replies, overlapping ticks

\* There is a subscriber: the user of a log row not yet written is any one.
ASSUME CartAssumption ==
    /\ Users # {}
    /\ UserOf \in [Sessions -> Users]
    /\ NoSession \notin Sessions
    /\ OneC \in BOOLEAN
    /\ MaxLetters \in Nat /\ MaxReports \in Nat /\ MaxPings \in Nat
    /\ MaxFailures \in Nat /\ MaxFaults \in Nat

VARIABLES
    sess,      \* cart_sessions: state ("none": no row) and whether the cart holds items
    due,       \* the timeout of the session's state has run out
    bought,    \* orders: is there one since the session's created_at?
    known,     \* does 1C know it?
    afresh,    \* history: the cart was filled after the last order
    buying,    \* POST /order between its two statements
    mailable,  \* subscriber with consent, not unsubscribed
    cooling,   \* the letter last_sent_cart_at stands for, while it is younger than the cooldown
    fate,      \* the mail service's copy of each letter
    closed,    \* email_log.sent_at is set
    addressee, \* email_log.user_id
    reports,   \* failure callbacks handled per letter
    recent,    \* history: letters handed over in the current cooldown period
    pc, todo, cur,         \* runners: stage, selected sessions, the one in work
    hpc, hletter,          \* webhook handlers: stage and letter
    pings, failures, faults, overlaps \* counters of the bounds

sessionVars == <<sess, due, bought, known, afresh, buying>>
letterVars == <<fate, closed, addressee, reports, recent>>
runnerVars == <<pc, todo, cur>>
handlerVars == <<hpc, hletter>>
countVars == <<pings, failures, faults, overlaps>>
vars == <<sessionVars, mailable, cooling, letterVars, runnerVars, handlerVars, countVars>>

Letters == 1 .. MaxLetters
Items == [sess : Sessions, items : BOOLEAN, ordered : BOOLEAN, refilled : BOOLEAN]
Nothing == [sess |-> NoSession, letter |-> 0, ordered |-> FALSE, refilled |-> FALSE]
Works == [sess : Sessions, letter : Letters \union {0}, ordered : BOOLEAN, refilled : BOOLEAN]
SessionStates == {"none", "active", "departed", "converted", "sent"}

TypeOK ==
    /\ sess \in [Sessions -> [state : SessionStates, items : BOOLEAN]]
    /\ due \in [Sessions -> BOOLEAN]
    /\ bought \in [Sessions -> {"no", "yes", "cancelled"}]
    /\ known \in [Sessions -> BOOLEAN]
    /\ afresh \in [Sessions -> BOOLEAN]
    /\ buying \in [Users -> {"idle", "insert"}]
    /\ mailable \in [Users -> BOOLEAN]
    /\ cooling \in [Users -> Letters \union {0}]
    /\ fate \in [Letters -> {"none", "queued", "sent", "failed"}]
    /\ closed \in [Letters -> BOOLEAN]
    /\ addressee \in [Letters -> Users]
    /\ reports \in [Letters -> 0 .. MaxReports]
    /\ recent \in [Users -> SUBSET Letters]
    /\ pc \in [Runners -> {"idle", "select", "loop", "recheck", "insert", "send", "close",
                           "converted", "sent"}]
    /\ todo \in [Runners -> SUBSET Items]
    /\ cur \in [Runners -> Works \union {Nothing}]
    /\ hpc \in [Handlers -> {"idle", "timers", "reopen"}]
    /\ hletter \in [Handlers -> Letters \union {0}]
    /\ pings \in 0 .. MaxPings /\ failures \in 0 .. MaxFailures
    /\ faults \in 0 .. MaxFaults /\ overlaps \in 0 .. MaxFaults
    \* a runner past its loop has a session, and a log row once it inserted one
    /\ \A r \in Runners : pc[r] \notin {"idle", "select", "loop"} => cur[r] \in Works
    /\ \A r \in Runners : pc[r] \in {"send", "close"} => cur[r].letter \in Letters
    /\ \A h \in Handlers : hpc[h] # "idle" => hletter[h] \in Letters

Init ==
    /\ sess = [s \in Sessions |-> [state |-> "none", items |-> FALSE]]
    /\ due = [s \in Sessions |-> FALSE]
    /\ bought = [s \in Sessions |-> "no"]
    /\ known = [s \in Sessions |-> FALSE]
    /\ afresh = [s \in Sessions |-> FALSE]
    /\ buying = [u \in Users |-> "idle"]
    /\ mailable = [u \in Users |-> TRUE]
    /\ cooling = [u \in Users |-> 0]
    /\ fate = [n \in Letters |-> "none"]
    /\ closed = [n \in Letters |-> FALSE]
    /\ addressee = [n \in Letters |-> CHOOSE u \in Users : TRUE]
    /\ reports = [n \in Letters |-> 0]
    /\ recent = [u \in Users |-> {}]
    /\ pc = [r \in Runners |-> "idle"]
    /\ todo = [r \in Runners |-> {}]
    /\ cur = [r \in Runners |-> Nothing]
    /\ hpc = [h \in Handlers |-> "idle"]
    /\ hletter = [h \in Handlers |-> 0]
    /\ pings = 0 /\ failures = 0 /\ faults = 0 /\ overlaps = 0

Fault ==
    /\ faults + overlaps < MaxFaults
    /\ faults' = faults + 1
    /\ UNCHANGED <<pings, failures, overlaps>>

SessionsOf(u) == {s \in Sessions : UserOf[s] = u}

-----------------------------------------------------------------------------
(***************************************************************************)
(* The shop's pages and feeds.                                             *)
(***************************************************************************)

\* POST /cart-ping, from a tab with the old cart or after new goods were put
\* in (refill): whatever the session's state was, it is active again, and
\* created_at keeps its first value.
Ping(s, some, refill) ==
    /\ pings < MaxPings
    /\ pings' = pings + 1
    /\ sess' = [sess EXCEPT ![s] = [state |-> "active", items |-> some]]
    /\ due' = [due EXCEPT ![s] = FALSE]
    /\ afresh' = [afresh EXCEPT ![s] = @ \/ (refill /\ some)]
    /\ UNCHANGED <<bought, known, buying, mailable, cooling, letterVars, runnerVars,
                   handlerVars, failures, faults, overlaps>>

\* POST /order, first statement: every live session of the buyer is closed.
ReportOrder(u) ==
    /\ buying[u] = "idle"
    /\ buying' = [buying EXCEPT ![u] = "insert"]
    /\ sess' = [s \in Sessions |->
                  IF s \in SessionsOf(u) /\ sess[s].state \in {"active", "departed"}
                  THEN [sess[s] EXCEPT !.state = "converted"] ELSE sess[s]]
    /\ due' = [s \in Sessions |-> due[s] /\ sess'[s].state \in {"active", "departed"}]
    /\ UNCHANGED <<bought, known, afresh, mailable, cooling, letterVars, runnerVars,
                   handlerVars, countVars>>

\* An order dated now is one since created_at for every session there is.
\* (What a customer does after a cancelled order is not followed.)
OrderRecorded(u) ==
    /\ bought' = [s \in Sessions |->
                    IF s \in SessionsOf(u) /\ sess[s].state # "none" /\ bought[s] = "no"
                    THEN "yes" ELSE bought[s]]
    /\ afresh' = [s \in Sessions |-> s \notin SessionsOf(u) /\ afresh[s]]

\* Second statement: INSERT INTO orders, ON CONFLICT DO NOTHING.
InsertOrder(u) ==
    /\ buying[u] = "insert"
    /\ buying' = [buying EXCEPT ![u] = "idle"]
    /\ OrderRecorded(u)
    /\ UNCHANGED <<sess, due, known, mailable, cooling, letterVars, runnerVars,
                   handlerVars, countVars>>

OrderRequestDies(u) ==
    /\ buying[u] = "insert"
    /\ Fault
    /\ buying' = [buying EXCEPT ![u] = "idle"]
    /\ UNCHANGED <<sess, due, bought, known, afresh, mailable, cooling, letterVars,
                   runnerVars, handlerVars>>

\* PUT /feeds/orders brings an order, or the cancellation of one; it leaves
\* the sessions alone.  The feed is 1C's own file: an order in it 1C knows.
FeedOrder(u) ==
    /\ OrderRecorded(u)
    /\ known' = [s \in Sessions |-> known[s] \/ (OneC /\ s \in SessionsOf(u) /\ bought'[s] = "yes")]
    /\ UNCHANGED <<sess, due, buying, mailable, cooling, letterVars, runnerVars,
                   handlerVars, countVars>>

FeedCancel(u) ==
    /\ bought' = [s \in Sessions |->
                    IF s \in SessionsOf(u) /\ bought[s] = "yes" THEN "cancelled" ELSE bought[s]]
    /\ UNCHANGED <<sess, due, known, afresh, buying, mailable, cooling, letterVars, runnerVars,
                   handlerVars, countVars>>

\* 1C hears of the shop's order, some time after it was placed.
OneCLearns(u) ==
    /\ OneC
    /\ known' = [s \in Sessions |-> IF s \in SessionsOf(u) THEN bought[s] = "yes" ELSE known[s]]
    /\ UNCHANGED <<sess, due, bought, afresh, buying, mailable, cooling, letterVars, runnerVars,
                   handlerVars, countVars>>

\* Unsubscribing, consenting again, or a row of the subscribers feed.
SetMailable(u, m) ==
    /\ mailable' = [mailable EXCEPT ![u] = m]
    /\ UNCHANGED <<sessionVars, cooling, letterVars, runnerVars, handlerVars, countVars>>

-----------------------------------------------------------------------------
(***************************************************************************)
(* The clock.                                                              *)
(***************************************************************************)

TimeoutPasses(s) ==
    /\ sess[s].state \in {"active", "departed"}
    /\ ~due[s]
    /\ due' = [due EXCEPT ![s] = TRUE]
    /\ UNCHANGED <<sess, bought, known, afresh, buying, mailable, cooling, letterVars,
                   runnerVars, handlerVars, countVars>>

\* cooldown_hours (72) pass; not in the middle of a tick or a webhook call.
CooldownPasses(u) ==
    /\ recent[u] # {} \/ cooling[u] # 0
    /\ \A r \in Runners : pc[r] = "idle"
    /\ \A h \in Handlers : hpc[h] = "idle"
    /\ cooling' = [cooling EXCEPT ![u] = 0]
    /\ recent' = [recent EXCEPT ![u] = {}]
    /\ UNCHANGED <<sessionVars, mailable, fate, closed, addressee, reports, runnerVars,
                   handlerVars, countVars>>

-----------------------------------------------------------------------------
(***************************************************************************)
(* The tick.                                                               *)
(***************************************************************************)

Leaving == {s \in Sessions : sess[s].state = "active" /\ due[s] /\ sess[s].items}
Gone == {s \in Sessions : sess[s].state = "departed" /\ due[s]}

\* A tick begun while another one runs: the worker's and one of the admin page.
Overlap ==
    /\ faults + overlaps < MaxFaults
    /\ overlaps' = overlaps + 1
    /\ UNCHANGED <<pings, failures, faults>>

\* Phase 1: carts without a ping for depart_timeout_sec are departed.
BeginTick(r) ==
    /\ pc[r] = "idle"
    /\ Leaving \union Gone # {}
    /\ IF \E q \in Runners : pc[q] # "idle" THEN Overlap ELSE UNCHANGED countVars
    /\ sess' = [s \in Sessions |->
                  IF s \in Leaving THEN [sess[s] EXCEPT !.state = "departed"] ELSE sess[s]]
    /\ due' = [s \in Sessions |-> due[s] /\ s \notin Leaving]
    /\ pc' = [pc EXCEPT ![r] = "select"]
    /\ UNCHANGED <<bought, known, afresh, buying, mailable, cooling, letterVars, todo, cur,
                   handlerVars>>

\* Phase 2: the departed whose grace period is over; a snapshot.
Select(r) ==
    /\ pc[r] = "select"
    /\ todo' = [todo EXCEPT ![r] =
                  {[sess |-> s, items |-> sess[s].items, ordered |-> bought[s] = "yes",
                    refilled |-> afresh[s]] : s \in Gone}]
    /\ pc' = [pc EXCEPT ![r] = IF Gone = {} THEN "idle" ELSE "loop"]
    /\ UNCHANGED <<sessionVars, mailable, cooling, letterVars, cur, handlerVars, countVars>>

EndTick(r) ==
    /\ pc[r] = "loop"
    /\ todo[r] = {}
    /\ pc' = [pc EXCEPT ![r] = "idle"]
    /\ UNCHANGED <<sessionVars, mailable, cooling, letterVars, todo, cur, handlerVars, countVars>>

\* Mutant: the status test of the orders query inverted.
OrderPlacedInverted(s) == {bought[s] = "cancelled"}

\* _order_placed: 1C's answer if it is configured and reachable, else the
\* orders table.
OrderPlaced(s) == {bought[s] = "yes"} \union (IF OneC THEN {known[s]} ELSE {})

\* cart_gate: the state the session is closed with, or "recheck" to go on.
\* Unknown products and a missing consent close it before the order is looked
\* at, an unsubscription after.
Verdicts(j, ordered) ==
    LET u == UserOf[j.sess] IN
    {"sent"} \union
    (IF j.items /\ ordered THEN {"converted"}
     ELSE IF j.items /\ mailable[u] /\ cooling[u] = 0 THEN {"recheck"} ELSE {})

Gate(r) ==
    /\ pc[r] = "loop"
    /\ \E j \in todo[r] :
        /\ todo' = [todo EXCEPT ![r] = @ \ {j}]
        /\ cur' = [cur EXCEPT ![r] = [sess |-> j.sess, letter |-> 0, ordered |-> j.ordered,
                                      refilled |-> j.refilled]]
        /\ \E ordered \in OrderPlaced(j.sess) :
            \E v \in Verdicts(j, ordered) : pc' = [pc EXCEPT ![r] = v]
    /\ UNCHANGED <<sessionVars, mailable, cooling, letterVars, handlerVars, countVars>>

BackToLoop(r) ==
    /\ pc' = [pc EXCEPT ![r] = "loop"]
    /\ cur' = [cur EXCEPT ![r] = Nothing]
    /\ UNCHANGED todo

\* The session is closed whatever has become of it since the snapshot.
CloseSession(s, state) ==
    /\ sess' = [sess EXCEPT ![s].state = state]
    /\ due' = [due EXCEPT ![s] = FALSE]
    /\ UNCHANGED <<bought, known, afresh, buying>>

\* Mutant: a skipped session is not closed.
SkipLeftOpen(r) ==
    /\ pc[r] \in {"converted", "sent"}
    /\ BackToLoop(r)
    /\ UNCHANGED <<sessionVars, mailable, cooling, letterVars, handlerVars, countVars>>

Skip(r) ==
    /\ pc[r] \in {"converted", "sent"}
    /\ CloseSession(cur[r].sess, pc[r])
    /\ BackToLoop(r)
    /\ UNCHANGED <<mailable, cooling, letterVars, handlerVars, countVars>>

\* The order is looked up again right before the letter is written.
Recheck(r) ==
    /\ pc[r] = "recheck"
    /\ \E ordered \in OrderPlaced(cur[r].sess) :
          pc' = [pc EXCEPT ![r] = IF ordered THEN "converted" ELSE "insert"]
    /\ UNCHANGED <<sessionVars, mailable, cooling, letterVars, todo, cur, handlerVars, countVars>>

\* Log rows that can play no part any more: the letter never left, or its
\* fate and cooldown are behind it.  Their numbers serve again.
Free ==
    {n \in Letters :
        /\ \A r \in Runners : cur[r].letter # n
        /\ \A u \in Users : cooling[u] # n /\ n \notin recent[u]
        /\ \A h \in Handlers : hletter[h] # n
        /\ fate[n] \in {"none", "sent"} \/ (fate[n] = "failed" /\ reports[n] = MaxReports)}

\* Mutant: the statement without RETURNING id.
InsertLogUnnumbered(r) ==
    /\ pc[r] = "insert"
    /\ \E n \in Free : fate' = [fate EXCEPT ![n] = "none"] /\ closed' = [closed EXCEPT ![n] = FALSE]
    /\ pc' = [pc EXCEPT ![r] = "send"]
    /\ UNCHANGED <<sessionVars, mailable, cooling, addressee, reports, recent, todo, cur,
                   handlerVars, countVars>>

InsertLog(r) ==
    /\ pc[r] = "insert"
    /\ \E n \in Free :
        /\ \A m \in Free : n <= m
        /\ cur' = [cur EXCEPT ![r].letter = n]
        /\ fate' = [fate EXCEPT ![n] = "none"]
        /\ closed' = [closed EXCEPT ![n] = FALSE]
        /\ addressee' = [addressee EXCEPT ![n] = UserOf[cur[r].sess]]
        /\ reports' = [reports EXCEPT ![n] = 0]
    /\ pc' = [pc EXCEPT ![r] = "send"]
    /\ UNCHANGED <<sessionVars, mailable, cooling, recent, todo, handlerVars, countVars>>

HandedOver(n, u) ==
    /\ fate' = [fate EXCEPT ![n] = "queued"]
    /\ recent' = [recent EXCEPT ![u] = @ \union {n}]
    /\ UNCHANGED <<closed, addressee, reports>>

MailAccepted(r) ==
    /\ pc[r] = "send"
    /\ HandedOver(cur[r].letter, UserOf[cur[r].sess])
    /\ pc' = [pc EXCEPT ![r] = "close"]
    /\ UNCHANGED <<sessionVars, mailable, cooling, todo, cur, handlerVars, countVars>>

\* The row becomes "failed", the session stays departed: the next tick tries
\* again, without a limit.
MailRefused(r) ==
    /\ pc[r] = "send"
    /\ BackToLoop(r)
    /\ UNCHANGED <<sessionVars, mailable, cooling, letterVars, handlerVars, countVars>>

\* Accepted, but the answer did not arrive in time: taken for a refusal.
ReplyLost(r) ==
    /\ pc[r] = "send"
    /\ Fault
    /\ HandedOver(cur[r].letter, UserOf[cur[r].sess])
    /\ BackToLoop(r)
    /\ UNCHANGED <<sessionVars, mailable, cooling, handlerVars>>

\* Mutant: only the log row is closed.
CloseLogOnly(r) ==
    /\ pc[r] = "close"
    /\ closed' = [closed EXCEPT ![cur[r].letter] = TRUE]
    /\ BackToLoop(r)
    /\ UNCHANGED <<sessionVars, mailable, cooling, fate, addressee, reports, recent,
                   handlerVars, countVars>>

\* The closing transaction: log row, cooldown and session together.
Close(r) ==
    LET n == cur[r].letter
        s == cur[r].sess IN
    /\ pc[r] = "close"
    /\ closed' = [closed EXCEPT ![n] = TRUE]
    /\ cooling' = [cooling EXCEPT ![UserOf[s]] = n]
    /\ CloseSession(s, "sent")
    /\ BackToLoop(r)
    /\ UNCHANGED <<mailable, fate, addressee, reports, recent, handlerVars, countVars>>

\* A statement raises: the exception ends the session's turn, not the tick.
Raises(r) ==
    /\ pc[r] \in {"converted", "sent", "recheck", "insert", "close"}
    /\ Fault
    /\ BackToLoop(r)
    /\ UNCHANGED <<sessionVars, mailable, cooling, letterVars, handlerVars>>

RunnerDies(r) ==
    /\ pc[r] # "idle"
    /\ Fault
    /\ pc' = [pc EXCEPT ![r] = "idle"]
    /\ todo' = [todo EXCEPT ![r] = {}]
    /\ cur' = [cur EXCEPT ![r] = Nothing]
    /\ UNCHANGED <<sessionVars, mailable, cooling, letterVars, handlerVars>>

-----------------------------------------------------------------------------
(***************************************************************************)
(* The mail service, its failure callback and rollback_failed_send.        *)
(***************************************************************************)

ServiceDelivers(n) ==
    /\ fate[n] = "queued"
    /\ fate' = [fate EXCEPT ![n] = "sent"]
    /\ UNCHANGED <<sessionVars, mailable, cooling, closed, addressee, reports, recent, runnerVars,
                   handlerVars, countVars>>

ServiceGivesUp(n) ==
    /\ fate[n] = "queued"
    /\ failures < MaxFailures
    /\ failures' = failures + 1
    /\ fate' = [fate EXCEPT ![n] = "failed"]
    /\ UNCHANGED <<sessionVars, mailable, cooling, closed, addressee, reports, recent, runnerVars,
                   handlerVars, pings, faults, overlaps>>

\* A row that was never closed (sent_at IS NULL) needs no rollback.
FailedCallback(h) ==
    /\ hpc[h] = "idle"
    /\ \E n \in Letters :
        /\ fate[n] = "failed"
        /\ reports[n] < MaxReports
        /\ reports' = [reports EXCEPT ![n] = @ + 1]
        /\ IF closed[n]
           THEN hpc' = [hpc EXCEPT ![h] = "timers"] /\ hletter' = [hletter EXCEPT ![h] = n]
           ELSE UNCHANGED handlerVars
    /\ UNCHANGED <<sessionVars, mailable, cooling, fate, closed, addressee, recent, runnerVars,
                   countVars>>

\* last_sent_cart_at is reset if it is this letter's.
ResetTimers(h) ==
    LET n == hletter[h]
        u == addressee[n] IN
    /\ hpc[h] = "timers"
    /\ cooling' = IF cooling[u] = n THEN [cooling EXCEPT ![u] = 0] ELSE cooling
    /\ hpc' = [hpc EXCEPT ![h] = "reopen"]
    /\ UNCHANGED <<sessionVars, mailable, letterVars, runnerVars, hletter, countVars>>

\* Every session closed as "sent" is due again, not only the letter's.
Reopen(h) ==
    LET again == {s \in SessionsOf(addressee[hletter[h]]) : sess[s].state = "sent"} IN
    /\ hpc[h] = "reopen"
    /\ sess' = [s \in Sessions |->
                  IF s \in again THEN [sess[s] EXCEPT !.state = "departed"] ELSE sess[s]]
    /\ due' = [s \in Sessions |-> due[s] \/ s \in again]
    /\ hpc' = [hpc EXCEPT ![h] = "idle"]
    /\ hletter' = [hletter EXCEPT ![h] = 0]
    /\ UNCHANGED <<bought, known, afresh, buying, mailable, cooling, letterVars, runnerVars,
                   countVars>>

HandlerDies(h) ==
    /\ hpc[h] # "idle"
    /\ Fault
    /\ hpc' = [hpc EXCEPT ![h] = "idle"]
    /\ hletter' = [hletter EXCEPT ![h] = 0]
    /\ UNCHANGED <<sessionVars, mailable, cooling, letterVars, runnerVars>>

-----------------------------------------------------------------------------
Tick(r) ==
    \/ BeginTick(r) \/ Select(r) \/ EndTick(r) \/ Gate(r) \/ Skip(r) \/ Recheck(r)
    \/ InsertLog(r) \/ MailAccepted(r) \/ MailRefused(r) \/ Close(r)

Webhook(h) == FailedCallback(h) \/ ResetTimers(h) \/ Reopen(h)

Next ==
    \/ \E s \in Sessions :
        TimeoutPasses(s) \/ \E some, refill \in BOOLEAN : Ping(s, some, refill)
    \/ \E u \in Users :
        \/ ReportOrder(u) \/ InsertOrder(u) \/ OrderRequestDies(u)
        \/ FeedOrder(u) \/ FeedCancel(u) \/ OneCLearns(u)
        \/ CooldownPasses(u) \/ \E m \in BOOLEAN : SetMailable(u, m)
    \/ \E r \in Runners : Tick(r) \/ ReplyLost(r) \/ Raises(r) \/ RunnerDies(r)
    \/ \E n \in Letters : ServiceDelivers(n) \/ ServiceGivesUp(n)
    \/ \E h \in Handlers : Webhook(h) \/ HandlerDies(h)

Spec == Init /\ [][Next]_vars

\* The worker ticks forever and its statements return, timeouts run out, a mail
\* service that is asked again and again accepts at last, and what it accepted
\* it delivers or gives up (LetterService).
Fairness ==
    /\ \A r \in Runners : WF_vars(Tick(r)) /\ SF_vars(MailAccepted(r))
    /\ \A s \in Sessions : WF_vars(TimeoutPasses(s))
    /\ \A n \in Letters : WF_vars(ServiceDelivers(n) \/ ServiceGivesUp(n))

FairSpec == Spec /\ Fairness

-----------------------------------------------------------------------------
Live(n) == fate[n] \in {"queued", "sent"}

\* "1 letter / 72 hours": in a cooldown period a customer gets one cart letter,
\* and at most one more for each fault (a death or exception between hand-over
\* and closing, a lost reply): neither several sessions nor the rollback of a
\* failed letter, however often it is reported, breaks the cap.  Overlapping
\* ticks do, and by more than one letter each: both pass the gate, and when the
\* letter whose cooldown was written last fails, both pass it again.
CapPerWindow ==
    \A u \in Users : Cardinality({n \in recent[u] : Live(n)}) <= 1 + faults

\* No letter is written for a cart whose order was on record when the tick
\* selected the session, even if a late ping or a rollback has revived it.
BuyerGetsNoLetter ==
    \A r \in Runners : pc[r] = "send" => ~(cur[r].ordered /\ bought[cur[r].sess] = "yes")

\* Every departed cart is looked at: it is mailed, closed, bought or resumed.
DepartedSettles ==
    \A s \in Sessions : (sess[s].state = "departed") ~> (sess[s].state # "departed")

\* A cart filled after the last order is an abandoned cart again: the tick does
\* not close it as bought.
NewCartIsNotBought ==
    \A r \in Runners : pc[r] = "converted" => ~(cur[r].refilled /\ afresh[cur[r].sess])

=============================================================================
