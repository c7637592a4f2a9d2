--------------------------- MODULE PostsaleQueue ---------------------------
(***************************************************************************)
(* The post-sale mailing: the queue of delayed jobs (table send_queue),    *)
(* the ticks that empty it (app/postsale.py), the letter log (email_log)   *)
(* whose unique index is meant to hold "one letter per order", the mail    *)
(* service that accepts letters and later reports their fate, and the      *)
(* webhook that takes a failed letter back (app/analytics.py).             *)
(*                                                                         *)
(* A tick may run in the worker loop, in a cron process and in the API     *)
(* process (a manual run from the admin page), so there is a set of        *)
(* Runners.  run_due selects its jobs FOR UPDATE SKIP LOCKED but outside a *)
(* transaction: the row locks are gone before the first job is processed   *)
(* and every statement of a runner interleaves with everything else.       *)
(*                                                                         *)
(* Abstractions.  A letter is identified by its order and the generation   *)
(* of its log row.  Products, templates and texts are left out: a job for  *)
(* which no product survives the filters is cancelled, chosen freely.      *)
(* Time is three facts: the order's delay has elapsed (ripe), the job was  *)
(* put off by a day (deferred), something was sent to the user today.      *)
(***************************************************************************)
EXTENDS Naturals

CONSTANTS
    Orders,       \* order ids; at most one post-sale job exists per order
    Users,        \* subscribers
    UserOf,       \* the subscriber who placed the order
    Runners,      \* processes that may execute a tick
    Handlers,     \* concurrent executions of the failure webhook
    NoOrder,      \* null
    MaxAttempts,  \* MAX_ATTEMPTS of app/postsale.py
    LostReplies,  \* may a letter be accepted while the HTTP call times out?
    EspRejects,   \* may the provider report a failure after the service's "sent"?
    MaxLetters,   \* bound: log rows ever inserted for one order
    MaxFaults,    \* bound: process deaths and failed transactions
    MaxOthers     \* bound: letters of the other scenarios

ASSUME ConstantsAssumption ==
    /\ UserOf \in [Orders -> Users]
    /\ NoOrder \notin Orders
    /\ MaxAttempts \in Nat \ {0}
    /\ MaxLetters \in Nat \ {0}
    /\ MaxFaults \in Nat
    /\ MaxOthers \in Nat
    /\ LostReplies \in BOOLEAN
    /\ EspRejects \in BOOLEAN

VARIABLES
    order,     \* orders.status: "none" (no row), "open" or "cancelled"
    intake,    \* the API request that inserted the order but has not enqueued yet
    ripe,      \* order_date + delay_days <= now()
    job,       \* the send_queue row of the order
    row,       \* the email_log row of the order
    gens,      \* log rows ever inserted for the order (the BIGSERIAL)
    mailable,  \* subscribers: not unsubscribed, with e-mail and consent
    today,     \* what last_any_trigger_at records, if it is of today
    pc,        \* where each runner is in run_due / _process_one
    todo,      \* jobs the runner selected and has not processed yet
    cur,       \* the job it is processing, with the attempts it read
    fate,      \* the mail service's copy of every letter
    hpc,       \* where each webhook handler is in rollback_failed_send
    hletter,   \* the letter it takes back
    faults,    \* faults so far
    others,    \* letters of other scenarios so far
    sentToday, \* history: letters of this scenario accepted today, per user
    mishaps    \* history: users for whom the daily limit may be broken today

dbVars == <<order, intake, ripe, job, row, gens, mailable, today>>
runnerVars == <<pc, todo, cur>>
handlerVars == <<hpc, hletter>>
countVars == <<faults, others, mishaps>>
vars == <<dbVars, runnerVars, fate, handlerVars, countVars, sentToday>>

Gen == 1 .. MaxLetters
Letters == [order : Orders, gen : Gen]
NoLetter == [order |-> NoOrder, gen |-> 0]
OtherLetter == [order |-> NoOrder, gen |-> 1]   \* sent by another scenario

NoRow == [gen |-> 0, status |-> "none", stamp |-> "null"]
NoJob == [order |-> NoOrder, attempts |-> 0, gen |-> 0]

JobStates == {"none", "scheduled", "sent", "cancelled", "failed"}
RunnerStages == {"idle", "loop", "fail", "cancel", "defer", "insert", "send",
                 "undo", "bump", "close"}
HandlerStages == {"idle", "read", "timers", "queue", "delete"}
Fates == {"none", "queued", "sent", "failed"}

JobRows == [state : JobStates, attempts : Nat, deferred : BOOLEAN]
LogRows == [gen : Gen \union {0}, status : {"none", "queued", "sent", "failed"},
            stamp : {"null", "close", "callback"}]
Works == [order : Orders \union {NoOrder}, attempts : Nat, gen : Gen \union {0}]

TypeOK ==
    /\ order \in [Orders -> {"none", "open", "cancelled"}]
    /\ intake \in [Orders -> {"idle", "enqueue"}]
    /\ ripe \in [Orders -> BOOLEAN]
    /\ job \in [Orders -> JobRows]
    /\ row \in [Orders -> LogRows]
    /\ gens \in [Orders -> 0 .. MaxLetters]
    /\ mailable \in [Users -> BOOLEAN]
    /\ today \in [Users -> Letters \union {NoLetter, OtherLetter}]
    /\ pc \in [Runners -> RunnerStages]
    /\ todo \in [Runners -> SUBSET [order : Orders, attempts : Nat]]
    /\ cur \in [Runners -> Works]
    /\ fate \in [Orders -> [Gen -> Fates]]
    /\ hpc \in [Handlers -> HandlerStages]
    /\ hletter \in [Handlers -> Letters \union {NoLetter}]
    /\ faults \in 0 .. MaxFaults
    /\ others \in 0 .. MaxOthers
    /\ sentToday \in [Users -> SUBSET Letters]
    /\ mishaps \in SUBSET Users
    \* a runner past its loop has a job, and a log row once it inserted one
    /\ \A r \in Runners : pc[r] \notin {"idle", "loop"} => cur[r].order \in Orders
    /\ \A r \in Runners : pc[r] \in {"send", "undo", "close"} => cur[r].gen \in Gen
    /\ \A h \in Handlers : hpc[h] # "idle" => hletter[h] \in Letters

Init ==
    /\ order = [o \in Orders |-> "none"]
    /\ intake = [o \in Orders |-> "idle"]
    /\ ripe = [o \in Orders |-> FALSE]
    /\ job = [o \in Orders |-> [state |-> "none", attempts |-> 0, deferred |-> FALSE]]
    /\ row = [o \in Orders |-> NoRow]
    /\ gens = [o \in Orders |-> 0]
    /\ mailable = [u \in Users |-> TRUE]
    /\ today = [u \in Users |-> NoLetter]
    /\ pc = [r \in Runners |-> "idle"]
    /\ todo = [r \in Runners |-> {}]
    /\ cur = [r \in Runners |-> NoJob]
    /\ fate = [o \in Orders |-> [g \in Gen |-> "none"]]
    /\ hpc = [h \in Handlers |-> "idle"]
    /\ hletter = [h \in Handlers |-> NoLetter]
    /\ faults = 0
    /\ others = 0
    /\ sentToday = [u \in Users |-> {}]
    /\ mishaps = {}

\* The letter is with the service, or delivered.
Live(o, g) == fate[o][g] \in {"queued", "sent"}

\* A runner decided to write to the user and has not recorded it yet.
InFlight(r, u) == pc[r] \in {"insert", "send", "close"} /\ UserOf[cur[r].order] = u

\* The user whose letter is handed over while the timers do not show it.
Unrecorded(r) == {u \in Users : pc[r] = "close" /\ InFlight(r, u)}

-----------------------------------------------------------------------------
(***************************************************************************)
(* Intake of orders: PUT /orders (the shop's feed), POST /order (the site).*)
(* The INSERT of the order and the INSERT of its job are two transactions. *)
(***************************************************************************)

\* The feed inserts the order or updates its status, then enqueues unless
\* the status it carries is a cancelled one.
FeedOrder(o, status) ==
    /\ intake[o] = "idle"
    /\ order' = [order EXCEPT ![o] = status]
    /\ intake' = [intake EXCEPT ![o] = IF status = "open" THEN "enqueue" ELSE "idle"]
    /\ UNCHANGED <<ripe, job, row, gens, mailable, today, runnerVars, fate,
                   handlerVars, countVars, sentToday>>

\* The site reports an order: ON CONFLICT DO NOTHING, and only a request
\* that inserted the row goes on to enqueue.
PostOrder(o) ==
    /\ intake[o] = "idle"
    /\ order[o] = "none"
    /\ order' = [order EXCEPT ![o] = "open"]
    /\ intake' = [intake EXCEPT ![o] = "enqueue"]
    /\ UNCHANGED <<ripe, job, row, gens, mailable, today, runnerVars, fate,
                   handlerVars, countVars, sentToday>>

\* enqueue_for_orders: one job per order, and none for an order whose delay
\* has already elapsed (a backfill of history must not send a volley).
Enqueue(o) ==
    /\ intake[o] = "enqueue"
    /\ intake' = [intake EXCEPT ![o] = "idle"]
    /\ job' = IF job[o].state = "none" /\ ~ripe[o]
              THEN [job EXCEPT ![o].state = "scheduled"]
              ELSE job
    /\ UNCHANGED <<order, ripe, row, gens, mailable, today, runnerVars, fate,
                   handlerVars, countVars, sentToday>>

\* The API process dies between the two INSERTs.
IntakeDies(o) ==
    /\ intake[o] = "enqueue"
    /\ faults < MaxFaults
    /\ faults' = faults + 1
    /\ intake' = [intake EXCEPT ![o] = "idle"]
    /\ UNCHANGED <<order, ripe, job, row, gens, mailable, today, runnerVars, fate,
                   handlerVars, others, mishaps, sentToday>>

-----------------------------------------------------------------------------
(***************************************************************************)
(* The tick.                                                               *)
(***************************************************************************)

\* Mutant: the selection filters on "not sent" instead of "scheduled".
DueNotSent == {o \in Orders : job[o].state \notin {"none", "sent"} /\ ripe[o] /\ ~job[o].deferred}

Due == {o \in Orders : job[o].state = "scheduled" /\ ripe[o] /\ ~job[o].deferred}

\* run_due selects every due job; the selection is a snapshot.
BeginTick(r) ==
    /\ pc[r] = "idle"
    /\ Due # {}
    /\ pc' = [pc EXCEPT ![r] = "loop"]
    /\ todo' = [todo EXCEPT ![r] = {[order |-> o, attempts |-> job[o].attempts] : o \in Due}]
    /\ UNCHANGED <<dbVars, cur, fate, handlerVars, countVars, sentToday>>

EndTick(r) ==
    /\ pc[r] = "loop"
    /\ todo[r] = {}
    /\ pc' = [pc EXCEPT ![r] = "idle"]
    /\ UNCHANGED <<dbVars, todo, cur, fate, handlerVars, countVars, sentToday>>

\* Mutant: one attempt too many before the job is given up.
VerdictsOneMoreTry(j) ==
    LET u == UserOf[j.order] IN
    CASE j.attempts > MaxAttempts -> {"fail"}
      [] j.attempts <= MaxAttempts /\ (order[j.order] # "open" \/ ~mailable[u]) -> {"cancel"}
      [] j.attempts <= MaxAttempts /\ order[j.order] = "open" /\ mailable[u]
            /\ today[u] # NoLetter -> {"defer"}
      [] OTHER -> {"insert", "cancel"}

\* What _process_one decides for a job it selected, in the order of its
\* checks; the last line covers an empty cross-sell and sold-out products.
Verdicts(j) ==
    LET u == UserOf[j.order] IN
    CASE j.attempts >= MaxAttempts -> {"fail"}
      [] j.attempts < MaxAttempts /\ (order[j.order] # "open" \/ ~mailable[u]) -> {"cancel"}
      [] j.attempts < MaxAttempts /\ order[j.order] = "open" /\ mailable[u]
            /\ today[u] # NoLetter -> {"defer"}
      [] OTHER -> {"insert", "cancel"}

\* A tick that decides for a letter while another one is about to send its
\* own to the same user has read timers which are stale by then.
Check(r) ==
    /\ pc[r] = "loop"
    /\ \E j \in todo[r] : \E v \in Verdicts(j) :
        /\ todo' = [todo EXCEPT ![r] = @ \ {j}]
        /\ cur' = [cur EXCEPT ![r] = [order |-> j.order, attempts |-> j.attempts, gen |-> 0]]
        /\ pc' = [pc EXCEPT ![r] = v]
        /\ mishaps' = mishaps \union
              {u \in {UserOf[j.order]} : v = "insert" /\ \E s \in Runners : InFlight(s, u)}
    /\ UNCHANGED <<dbVars, fate, handlerVars, faults, others, sentToday>>

\* _finish writes the state whatever the row holds by now.
Finish(r) ==
    /\ pc[r] \in {"fail", "cancel"}
    /\ job' = [job EXCEPT ![cur[r].order].state =
                  IF pc[r] = "fail" THEN "failed" ELSE "cancelled"]
    /\ pc' = [pc EXCEPT ![r] = "loop"]
    /\ cur' = [cur EXCEPT ![r] = NoJob]
    /\ UNCHANGED <<order, intake, ripe, row, gens, mailable, today, todo, fate,
                   handlerVars, countVars, sentToday>>

\* A letter of today exists: the job is moved to tomorrow.
Defer(r) ==
    /\ pc[r] = "defer"
    /\ job' = [job EXCEPT ![cur[r].order].deferred = TRUE]
    /\ pc' = [pc EXCEPT ![r] = "loop"]
    /\ cur' = [cur EXCEPT ![r] = NoJob]
    /\ UNCHANGED <<order, intake, ripe, row, gens, mailable, today, todo, fate,
                   handlerVars, countVars, sentToday>>

\* Mutant: the log has no unique index.
InsertLogNoIndex(r) ==
    LET o == cur[r].order IN
    /\ pc[r] = "insert"
    /\ gens[o] < MaxLetters
    /\ gens' = [gens EXCEPT ![o] = @ + 1]
    /\ row' = [row EXCEPT ![o] = [gen |-> gens[o] + 1, status |-> "queued", stamp |-> "null"]]
    /\ cur' = [cur EXCEPT ![r].gen = gens[o] + 1]
    /\ pc' = [pc EXCEPT ![r] = "send"]
    /\ UNCHANGED <<order, intake, ripe, job, mailable, today, todo, fate,
                   handlerVars, countVars, sentToday>>

\* The log row is inserted before the letter leaves.
InsertLog(r) ==
    LET o == cur[r].order IN
    /\ pc[r] = "insert"
    /\ row[o].gen = 0
    /\ gens[o] < MaxLetters
    /\ gens' = [gens EXCEPT ![o] = @ + 1]
    /\ row' = [row EXCEPT ![o] = [gen |-> gens[o] + 1, status |-> "queued", stamp |-> "null"]]
    /\ cur' = [cur EXCEPT ![r].gen = gens[o] + 1]
    /\ pc' = [pc EXCEPT ![r] = "send"]
    /\ UNCHANGED <<order, intake, ripe, job, mailable, today, todo, fate,
                   handlerVars, countVars, sentToday>>

\* The unique index refuses a second row: the exception costs an attempt.
InsertRefused(r) ==
    /\ pc[r] = "insert"
    /\ row[cur[r].order].gen # 0
    /\ pc' = [pc EXCEPT ![r] = "bump"]
    /\ UNCHANGED <<dbVars, todo, cur, fate, handlerVars, countVars, sentToday>>

\* mailer.send returned True: the service holds the letter.
MailAccepted(r) ==
    LET o == cur[r].order IN
    /\ pc[r] = "send"
    /\ fate' = [fate EXCEPT ![o][cur[r].gen] = "queued"]
    /\ sentToday' = [sentToday EXCEPT ![UserOf[o]] = @ \union {[order |-> o, gen |-> cur[r].gen]}]
    /\ pc' = [pc EXCEPT ![r] = "close"]
    /\ UNCHANGED <<dbVars, todo, cur, handlerVars, countVars>>

\* Mutant: the result of mailer.send is not looked at.
MailRefusedUnnoticed(r) ==
    /\ pc[r] = "send"
    /\ pc' = [pc EXCEPT ![r] = "close"]
    /\ UNCHANGED <<dbVars, todo, cur, fate, handlerVars, countVars, sentToday>>

\* mailer.send returned False and the service has nothing.
MailRefused(r) ==
    /\ pc[r] = "send"
    /\ pc' = [pc EXCEPT ![r] = "undo"]
    /\ UNCHANGED <<dbVars, todo, cur, fate, handlerVars, countVars, sentToday>>

\* The service took the letter but its answer did not arrive in 15 seconds:
\* HttpMailer.send returns False all the same.
ReplyLost(r) ==
    LET o == cur[r].order IN
    /\ LostReplies
    /\ pc[r] = "send"
    /\ fate' = [fate EXCEPT ![o][cur[r].gen] = "queued"]
    /\ sentToday' = [sentToday EXCEPT ![UserOf[o]] = @ \union {[order |-> o, gen |-> cur[r].gen]}]
    /\ pc' = [pc EXCEPT ![r] = "undo"]
    /\ mishaps' = mishaps \union {UserOf[o]}
    /\ UNCHANGED <<dbVars, todo, cur, handlerVars, faults, others>>

\* DELETE FROM email_log WHERE id = log_id
WithoutRow(o, g) == IF row[o].gen = g THEN [row EXCEPT ![o] = NoRow] ELSE row

Undo(r) ==
    /\ pc[r] = "undo"
    /\ row' = WithoutRow(cur[r].order, cur[r].gen)
    /\ pc' = [pc EXCEPT ![r] = "bump"]
    /\ UNCHANGED <<order, intake, ripe, job, gens, mailable, today, todo, cur, fate,
                   handlerVars, countVars, sentToday>>

\* Mutant: the runner forgets its job although it must still mark it failed.
BumpForgetsJob(r) ==
    LET tried == cur[r].attempts + 1 IN
    /\ pc[r] = "bump"
    /\ job' = [job EXCEPT ![cur[r].order].attempts = tried]
    /\ pc' = [pc EXCEPT ![r] = IF tried >= MaxAttempts THEN "fail" ELSE "loop"]
    /\ cur' = [cur EXCEPT ![r] = NoJob]
    /\ UNCHANGED <<order, intake, ripe, row, gens, mailable, today, todo, fate,
                   handlerVars, countVars, sentToday>>

\* _bump_attempt writes the attempts it had read, plus one.
Bump(r) ==
    LET tried == cur[r].attempts + 1
        exhausted == tried >= MaxAttempts IN
    /\ pc[r] = "bump"
    /\ job' = [job EXCEPT ![cur[r].order].attempts = tried]
    /\ pc' = [pc EXCEPT ![r] = IF exhausted THEN "fail" ELSE "loop"]
    /\ cur' = IF exhausted THEN cur ELSE [cur EXCEPT ![r] = NoJob]
    /\ UNCHANGED <<order, intake, ripe, row, gens, mailable, today, todo, fate,
                   handlerVars, countVars, sentToday>>

\* The closing transaction: log row, timers and job together.
Close(r) ==
    LET o == cur[r].order
        g == cur[r].gen IN
    /\ pc[r] = "close"
    /\ row' = IF row[o].gen = g
              THEN [row EXCEPT ![o].status = "sent", ![o].stamp = "close"]
              ELSE row
    /\ today' = [today EXCEPT ![UserOf[o]] = [order |-> o, gen |-> g]]
    /\ job' = [job EXCEPT ![o].state = "sent"]
    /\ pc' = [pc EXCEPT ![r] = "loop"]
    /\ cur' = [cur EXCEPT ![r] = NoJob]
    /\ UNCHANGED <<order, intake, ripe, gens, mailable, todo, fate, handlerVars,
                   countVars, sentToday>>

\* A statement of _process_one raises (the closing transaction is rolled back):
\* the exception costs an attempt, whatever was done before it stays done.
Raises(r) ==
    /\ pc[r] \in {"fail", "cancel", "defer", "insert", "undo", "close"}
    /\ faults < MaxFaults
    /\ faults' = faults + 1
    /\ pc' = [pc EXCEPT ![r] = "bump"]
    /\ mishaps' = mishaps \union Unrecorded(r)
    /\ UNCHANGED <<dbVars, todo, cur, fate, handlerVars, others, sentToday>>

\* The process dies, or loses its connection outside _process_one: what it
\* had selected is forgotten, what it had written stays.
RunnerDies(r) ==
    /\ pc[r] # "idle"
    /\ faults < MaxFaults
    /\ faults' = faults + 1
    /\ pc' = [pc EXCEPT ![r] = "idle"]
    /\ todo' = [todo EXCEPT ![r] = {}]
    /\ cur' = [cur EXCEPT ![r] = NoJob]
    /\ mishaps' = mishaps \union Unrecorded(r)
    /\ UNCHANGED <<dbVars, fate, handlerVars, others, sentToday>>

-----------------------------------------------------------------------------
(***************************************************************************)
(* The mail service and its callbacks.  A callback is never stored: one    *)
(* may be handled whenever the fate it reports is reached, any number of   *)
(* times (the sender retries) or never (it gives up).                      *)
(***************************************************************************)

ServiceDelivers(o, g) ==
    /\ fate[o][g] = "queued"
    /\ fate' = [fate EXCEPT ![o][g] = "sent"]
    /\ UNCHANGED <<dbVars, runnerVars, handlerVars, countVars, sentToday>>

ServiceGivesUp(o, g) ==
    /\ \/ fate[o][g] = "queued"
       \/ EspRejects /\ fate[o][g] = "sent"
    /\ fate' = [fate EXCEPT ![o][g] = "failed"]
    /\ UNCHANGED <<dbVars, runnerVars, handlerVars, countVars, sentToday>>

\* event = "sent": one UPDATE, which moves sent_at to the time of the
\* callback; less than five seconds after the closing transaction that still
\* matches the timers.
SentCallback(o, g) ==
    /\ fate[o][g] = "sent" \/ (EspRejects /\ fate[o][g] = "failed")
    /\ row[o].gen = g
    /\ \E s \in {"callback", row[o].stamp} \ {"null"} :
          row' = [row EXCEPT ![o].status = "sent", ![o].stamp = s]
    /\ UNCHANGED <<order, intake, ripe, job, gens, mailable, today, runnerVars, fate,
                   handlerVars, countVars, sentToday>>

\* event = "failed": the status is written first ...
FailedCallback(h) ==
    /\ hpc[h] = "idle"
    /\ \E l \in Letters :
        /\ fate[l.order][l.gen] = "failed"
        /\ hletter' = [hletter EXCEPT ![h] = l]
        /\ row' = IF row[l.order].gen = l.gen
                  THEN [row EXCEPT ![l.order].status = "failed"]
                  ELSE row
    /\ hpc' = [hpc EXCEPT ![h] = "read"]
    /\ UNCHANGED <<order, intake, ripe, job, gens, mailable, today, runnerVars, fate,
                   countVars, sentToday>>

HandlerEnds(h) ==
    /\ hpc' = [hpc EXCEPT ![h] = "idle"]
    /\ hletter' = [hletter EXCEPT ![h] = NoLetter]

\* ... then rollback_failed_send reads the row: nothing to take back when it
\* is gone or was never closed.
ReadLog(h) ==
    LET l == hletter[h] IN
    /\ hpc[h] = "read"
    /\ IF row[l.order].gen = l.gen /\ row[l.order].stamp # "null"
       THEN hpc' = [hpc EXCEPT ![h] = "timers"] /\ UNCHANGED hletter
       ELSE HandlerEnds(h)
    /\ UNCHANGED <<dbVars, runnerVars, fate, countVars, sentToday>>

\* Mutant: the timers are reset whichever letter set them.
ResetAnyTimers(h) ==
    /\ hpc[h] = "timers"
    /\ today' = [today EXCEPT ![UserOf[hletter[h].order]] = NoLetter]
    /\ hpc' = [hpc EXCEPT ![h] = "queue"]
    /\ UNCHANGED <<order, intake, ripe, job, row, gens, mailable, runnerVars, fate,
                   hletter, countVars, sentToday>>

\* The timers are reset if this letter set them, within five seconds.
ResetTimers(h) ==
    LET l == hletter[h]
        u == UserOf[l.order]
        mine == today[u] = l /\ row[l.order] # NoRow /\ row[l.order].stamp = "close" IN
    /\ hpc[h] = "timers"
    /\ today' = IF mine THEN [today EXCEPT ![u] = NoLetter] ELSE today
    /\ hpc' = [hpc EXCEPT ![h] = "queue"]
    /\ UNCHANGED <<order, intake, ripe, job, row, gens, mailable, runnerVars, fate,
                   hletter, countVars, sentToday>>

\* Mutant: the job returns to the queue with a given number of attempts.
RescheduleWith(h, spent) ==
    LET o == hletter[h].order IN
    /\ hpc[h] = "queue"
    /\ job' = IF job[o].state = "sent"
              THEN [job EXCEPT ![o] = [state |-> "scheduled", attempts |-> spent,
                                       deferred |-> FALSE]]
              ELSE job
    /\ hpc' = [hpc EXCEPT ![h] = "delete"]
    /\ UNCHANGED <<order, intake, ripe, row, gens, mailable, today, runnerVars, fate,
                   hletter, countVars, sentToday>>

\* Mutants: a failed delivery costs no attempt; it starts the count afresh.
RescheduleForFree(h) == RescheduleWith(h, job[hletter[h].order].attempts)
RescheduleAfresh(h) == RescheduleWith(h, 0)

\* The job returns to the queue, due at once, one attempt spent.
Reschedule(h) ==
    LET o == hletter[h].order IN
    /\ hpc[h] = "queue"
    /\ job' = IF job[o].state = "sent"
              THEN [job EXCEPT ![o] = [state |-> "scheduled", attempts |-> @.attempts + 1,
                                       deferred |-> FALSE]]
              ELSE job
    /\ hpc' = [hpc EXCEPT ![h] = "delete"]
    /\ UNCHANGED <<order, intake, ripe, row, gens, mailable, today, runnerVars, fate,
                   hletter, countVars, sentToday>>

\* The failed row leaves the log, or the retry would hit the unique index.
DeleteFailed(h) ==
    /\ hpc[h] = "delete"
    /\ row' = WithoutRow(hletter[h].order, hletter[h].gen)
    /\ HandlerEnds(h)
    /\ UNCHANGED <<order, intake, ripe, job, gens, mailable, today, runnerVars, fate,
                   countVars, sentToday>>

HandlerDies(h) ==
    /\ hpc[h] # "idle"
    /\ faults < MaxFaults
    /\ faults' = faults + 1
    /\ HandlerEnds(h)
    /\ UNCHANGED <<dbVars, runnerVars, fate, others, mishaps, sentToday>>

-----------------------------------------------------------------------------
(***************************************************************************)
(* The subscriber, the clock and the other scenarios.                      *)
(***************************************************************************)

\* The unsubscribe link (FALSE), or a row of the subscribers feed, which
\* overwrites e-mail, consent and the unsubscribed mark (either value).
SetMailable(u, m) ==
    /\ mailable[u] # m
    /\ mailable' = [mailable EXCEPT ![u] = m]
    /\ UNCHANGED <<order, intake, ripe, job, row, gens, today, runnerVars, fate,
                   handlerVars, countVars, sentToday>>

\* A letter of the cart or of the best-offer scenario went to the user.
OtherScenarioSends(u) ==
    /\ others < MaxOthers
    /\ others' = others + 1
    /\ today' = [today EXCEPT ![u] = OtherLetter]
    /\ UNCHANGED <<order, intake, ripe, job, row, gens, mailable, runnerVars, fate,
                   handlerVars, faults, mishaps, sentToday>>

\* ... and failed: its rollback clears last_any_trigger_at, with it what the
\* column had recorded of a letter of this scenario before.
OtherScenarioFails(u) ==
    /\ today[u] = OtherLetter
    /\ today' = [today EXCEPT ![u] = NoLetter]
    /\ mishaps' = mishaps \union
          {v \in {u} : \E l \in sentToday[u] : Live(l.order, l.gen)}
    /\ UNCHANGED <<order, intake, ripe, job, row, gens, mailable, runnerVars, fate,
                   handlerVars, faults, others, sentToday>>

\* The order's delay elapses.
Ripen(o) ==
    /\ ~ripe[o]
    /\ ripe' = [ripe EXCEPT ![o] = TRUE]
    /\ UNCHANGED <<order, intake, job, row, gens, mailable, today, runnerVars, fate,
                   handlerVars, countVars, sentToday>>

\* Mutant: the anti-duplicate check asks for any earlier letter, not for
\* one of today.
NextDayTimersKept ==
    /\ job' = [o \in Orders |-> [job[o] EXCEPT !.deferred = FALSE]]
    /\ sentToday' = [u \in Users |-> {}]
    /\ UNCHANGED <<order, intake, ripe, row, gens, mailable, today, runnerVars, fate,
                   handlerVars, countVars>>

\* Midnight passes, and with it the day a deferred job was put off by.  What
\* two ticks have decided at once for one user is yet to be sent.
NextDay ==
    /\ today' = [u \in Users |-> NoLetter]
    /\ job' = [o \in Orders |-> [job[o] EXCEPT !.deferred = FALSE]]
    /\ sentToday' = [u \in Users |-> {}]
    /\ mishaps' = {u \in mishaps : \E r, s \in Runners :
                      r # s /\ InFlight(r, u) /\ InFlight(s, u)}
    /\ UNCHANGED <<order, intake, ripe, row, gens, mailable, runnerVars, fate,
                   handlerVars, faults, others>>

-----------------------------------------------------------------------------

Tick(r) ==
    \/ BeginTick(r) \/ EndTick(r) \/ Check(r) \/ Finish(r) \/ Defer(r)
    \/ InsertLog(r) \/ InsertRefused(r)
    \/ MailAccepted(r) \/ MailRefused(r) \/ ReplyLost(r)
    \/ Undo(r) \/ Bump(r) \/ Close(r)

Webhook(h) ==
    \/ FailedCallback(h) \/ ReadLog(h) \/ ResetTimers(h) \/ Reschedule(h) \/ DeleteFailed(h)

Next ==
    \/ \E o \in Orders :
        \/ \E s \in {"open", "cancelled"} : FeedOrder(o, s)
        \/ PostOrder(o) \/ Enqueue(o) \/ IntakeDies(o) \/ Ripen(o)
        \/ \E g \in Gen :
            ServiceDelivers(o, g) \/ ServiceGivesUp(o, g) \/ SentCallback(o, g)
    \/ \E r \in Runners : Tick(r) \/ Raises(r) \/ RunnerDies(r)
    \/ \E h \in Handlers : Webhook(h) \/ HandlerDies(h)
    \/ \E u \in Users :
        \/ OtherScenarioSends(u) \/ OtherScenarioFails(u)
        \/ \E m \in BOOLEAN : SetMailable(u, m)
    \/ NextDay

Spec == Init /\ [][Next]_vars

\* The worker loop ticks forever and every statement of a tick returns;
\* delays elapse and days pass.  Nothing is assumed of the mail service, of
\* the callbacks or of the people.
Fairness ==
    /\ \A r \in Runners : WF_vars(Tick(r))
    /\ \A o \in Orders : WF_vars(Ripen(o))
    /\ WF_vars(NextDay)

FairSpec == Spec /\ Fairness

-----------------------------------------------------------------------------
\* "One letter per order" (schema.sql, svc_config.AUDIENCE): whatever two
\* ticks, a retry, a failure callback and a crash do between them, the mail
\* service never holds or has delivered two letters for one order, save those
\* it reported as failed.
OneLiveLetter ==
    \A o \in Orders : \A g1, g2 \in Gen : Live(o, g1) /\ Live(o, g2) => g1 = g2

\* A job is closed as "sent" only for a letter that was really handed over,
\* and the log keeps its row unless the letter failed afterwards: statistics
\* and de-duplication never lose a letter the customer got.
SentJobHasLetter ==
    \A o \in Orders : job[o].state = "sent" =>
        \E g \in Gen : /\ fate[o][g] # "none"
                       /\ row[o].gen = g \/ fate[o][g] = "failed"

\* The retries of a job are bounded: MAX_ATTEMPTS is never exceeded, neither by
\* the ticks nor by the failure webhook, except by one for each statement that
\* raises just as a spent job is given up.
AttemptsBounded == \A o \in Orders : job[o].attempts <= MaxAttempts + faults

\* A dead address is tried at most MAX_ATTEMPTS times: every log row but the
\* last one has cost an attempt, or a fault that lost the attempt.
LettersBounded == \A o \in Orders : gens[o] <= MaxAttempts + faults

\* Attempts never go back: no failure is forgotten, so the retries end.
AttemptsNeverDecrease ==
    [][\A o \in Orders : job'[o].attempts >= job[o].attempts]_vars

\* A job once cancelled or failed stays so: a late callback must not revive
\* it, and a tick must not process it again.
ClosedJobsStayClosed ==
    [][\A o \in Orders : job[o].state \in {"cancelled", "failed"}
                            => job'[o].state = job[o].state]_vars

\* "Not more than one trigger a day" (postsale._process_one; schema.sql says the
\* same of last_any_trigger_at): of the letters of this scenario handed over
\* today for one user, at most one has not failed.
OneTriggerPerDay ==
    \A u \in Users : \A l1, l2 \in sentToday[u] :
        Live(l1.order, l1.gen) /\ Live(l2.order, l2.gen) => l1 = l2

\* What the code keeps of that promise: a second letter of one day takes two
\* ticks that decide for the user at once, a hand-over whose answer or closing
\* transaction is lost, or another scenario's letter that fails after it took
\* the place of the first one in last_any_trigger_at.
SecondTriggerNeedsMishap ==
    \A u \in Users \ mishaps : \A l1, l2 \in sentToday[u] :
        Live(l1.order, l1.gen) /\ Live(l2.order, l2.gen) => l1 = l2

\* No job waits forever: what was scheduled is in the end sent, cancelled or
\* failed, whatever the mail service answers.
EveryJobSettles ==
    \A o \in Orders : (job[o].state = "scheduled") ~> (job[o].state # "scheduled")

=============================================================================
