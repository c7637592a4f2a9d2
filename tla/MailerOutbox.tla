---------------------------- MODULE MailerOutbox ----------------------------
(***************************************************************************)
(* The mail service (mailer-service/): the outbox table, the one worker    *)
(* that empties it through the mail provider, and the callbacks that       *)
(* report back to the marketing application.                               *)
(*                                                                         *)
(* The worker is one asyncio task in the HTTP process, so requests and     *)
(* provider webhooks interleave with it at every await.  The process may   *)
(* die at any point and is restarted; the provider may take a letter and   *)
(* the SMTP dialogue still end in an exception; an outbox statement may    *)
(* fail.  Addresses, texts and configuration are left out; the provider is *)
(* a real one (not the dev transport that only logs).                      *)
(***************************************************************************)
EXTENDS Naturals, FiniteSets

CONSTANTS
    Letters,      \* letters the application may hand over
    NoLetter,     \* null
    EspEvents,    \* delivered, opened, bounced, ...: alike for this service
    BatchLimit,   \* due(limit=20)
    MaxAttempts,  \* settings.max_attempts
    MaxFaults     \* bound: deaths, lost SMTP replies, failed statements

ASSUME OutboxAssumption ==
    /\ NoLetter \notin Letters
    /\ "none" \notin EspEvents /\ "sent" \notin EspEvents /\ "failed" \notin EspEvents
    /\ BatchLimit \in Nat \ {0}
    /\ MaxAttempts \in Nat \ {0}
    /\ MaxFaults \in Nat

VARIABLES
    box,       \* the outbox row of each letter
    arrivals,  \* letters accepted so far: the order of created_at
    ripe,      \* next_attempt <= now
    pc,        \* where the worker is; "dead": the task ended, the process lives
    batch,     \* letters selected and not processed yet, with the attempts read
    cur,       \* the letter being processed, with the attempts read
    outcome,   \* the event the worker is about to report
    sends,     \* SMTP dialogues begun per letter; each makes a Message-ID
    copies,    \* the dialogues in which the provider took the letter
    told,      \* events the application has handled
    calm,      \* 60 / rate_per_min seconds have passed since the last dialogue began
    faults     \* faults so far

workerVars == <<pc, batch, cur, outcome>>
vars == <<box, arrivals, ripe, workerVars, sends, copies, told, calm, faults>>

\* born = 0: no such row
NoRow == [state |-> "none", born |-> 0, attempts |-> 0, msgid |-> 0, event |-> "none"]
Nothing == [letter |-> NoLetter, attempts |-> 0]

Rows == [state : {"none", "queued", "sent", "failed"}, born : Nat, attempts : Nat,
         msgid : Nat, event : {"none"} \union EspEvents]
Items == [letter : Letters, attempts : Nat]
Stages == {"down", "dead", "poll", "next", "pause", "send", "taken", "mark", "error",
           "report"}
Busy == {"send", "taken", "mark", "error"}   \* cur is neither sent nor given up yet

TypeOK ==
    /\ box \in [Letters -> Rows]
    /\ arrivals \in Nat
    /\ ripe \in [Letters -> BOOLEAN]
    /\ pc \in Stages
    /\ batch \in SUBSET Items
    /\ cur \in Items \union {Nothing}
    /\ outcome \in {"none", "sent", "failed", "retry"}
    /\ sends \in [Letters -> Nat]
    /\ copies \in [Letters -> SUBSET Nat]
    /\ told \in [Letters -> SUBSET ({"sent", "failed"} \union EspEvents)]
    /\ calm \in BOOLEAN
    /\ faults \in 0 .. MaxFaults
    /\ pc \in Busy \union {"report"} => cur \in Items

Init ==
    /\ box = [l \in Letters |-> NoRow]
    /\ arrivals = 0
    /\ ripe = [l \in Letters |-> FALSE]
    /\ pc = "poll"
    /\ batch = {}
    /\ cur = Nothing
    /\ outcome = "none"
    /\ sends = [l \in Letters |-> 0]
    /\ copies = [l \in Letters |-> {}]
    /\ told = [l \in Letters |-> {}]
    /\ calm = TRUE
    /\ faults = 0

Fault ==
    /\ faults < MaxFaults
    /\ faults' = faults + 1

-----------------------------------------------------------------------------
(* Requests.                                                               *)

\* POST /v1/send, and each letter of /v1/send/batch: due at once.
Accept(l) ==
    /\ pc # "down"
    /\ box[l].state = "none"
    /\ arrivals' = arrivals + 1
    /\ box' = [box EXCEPT ![l].state = "queued", ![l].born = arrivals + 1]
    /\ ripe' = [ripe EXCEPT ![l] = TRUE]
    /\ UNCHANGED <<workerVars, sends, copies, told, calm, faults>>

\* POST /v1/esp/webhook: the provider reports on a copy it took.  A Message-ID
\* that mark_sent has not stored is unknown and the event is dropped.  The
\* callback to the application is best effort.
EspWebhook(l, k, e) ==
    /\ pc # "down"
    /\ k \in copies[l]
    /\ box[l].msgid = k
    /\ box' = [box EXCEPT ![l].event = e]
    /\ \/ told' = [told EXCEPT ![l] = @ \union {e}]
       \/ UNCHANGED told
    /\ UNCHANGED <<arrivals, ripe, workerVars, sends, copies, calm, faults>>

-----------------------------------------------------------------------------
(* The worker.                                                             *)

\* Mutant: a letter that failed once is never due again.
DueUntried == {l \in Letters : box[l].state = "queued" /\ ripe[l] /\ box[l].attempts = 0}

Due == {l \in Letters : box[l].state = "queued" /\ ripe[l]}

\* ORDER BY created_at LIMIT n
Oldest(S, n) == {l \in S : Cardinality({m \in S : box[m].born < box[l].born}) < n}

Poll ==
    /\ pc = "poll"
    /\ Due # {}
    /\ batch' = {[letter |-> l, attempts |-> box[l].attempts] : l \in Oldest(Due, BatchLimit)}
    /\ pc' = "next"
    /\ UNCHANGED <<box, arrivals, ripe, cur, outcome, sends, copies, told, calm, faults>>

\* Mutant: the selection has no ORDER BY.
TakeInAnyOrder ==
    /\ pc = "next"
    /\ \E j \in batch :
        /\ cur' = j
        /\ batch' = batch \ {j}
        /\ sends' = [sends EXCEPT ![j.letter] = @ + 1]
    /\ calm' = FALSE
    /\ pc' = "send"
    /\ UNCHANGED <<box, arrivals, ripe, outcome, copies, told, faults>>

\* The letters of a batch go in its order, each in a new SMTP dialogue.
Take ==
    /\ pc = "next"
    /\ \E j \in batch :
        /\ \A i \in batch : box[j.letter].born <= box[i.letter].born
        /\ cur' = j
        /\ batch' = batch \ {j}
        /\ sends' = [sends EXCEPT ![j.letter] = @ + 1]
    /\ calm' = FALSE
    /\ pc' = "send"
    /\ UNCHANGED <<box, arrivals, ripe, outcome, copies, told, faults>>

\* The provider answers DATA with 250: it has the letter.
ProviderTakes ==
    /\ pc = "send"
    /\ copies' = [copies EXCEPT ![cur.letter] = @ \union {sends[cur.letter]}]
    /\ pc' = "taken"
    /\ UNCHANGED <<box, arrivals, ripe, batch, cur, outcome, sends, told, calm, faults>>

\* Mutant: the success is reported but not recorded.
SendReturnsUnmarked ==
    /\ pc = "taken"
    /\ outcome' = "sent"
    /\ pc' = "report"
    /\ UNCHANGED <<box, arrivals, ripe, batch, cur, sends, copies, told, calm, faults>>

SendReturns ==
    /\ pc = "taken"
    /\ pc' = "mark"
    /\ UNCHANGED <<box, arrivals, ripe, batch, cur, outcome, sends, copies, told, calm, faults>>

\* Refused, unreachable, timed out.
SendRaises ==
    /\ pc = "send"
    /\ pc' = "error"
    /\ UNCHANGED <<box, arrivals, ripe, batch, cur, outcome, sends, copies, told, calm, faults>>

\* The reply is lost, QUIT fails or the second MTA check fails: an exception
\* although the provider has the letter.
ReplyLost ==
    /\ pc = "taken"
    /\ Fault
    /\ pc' = "error"
    /\ UNCHANGED <<box, arrivals, ripe, batch, cur, outcome, sends, copies, told, calm>>

MarkSent ==
    LET l == cur.letter IN
    /\ pc = "mark"
    /\ box' = [box EXCEPT ![l].state = "sent", ![l].msgid = sends[l]]
    /\ outcome' = "sent"
    /\ pc' = "report"
    /\ UNCHANGED <<arrivals, ripe, batch, cur, sends, copies, told, calm, faults>>

\* mark_sent raises inside the same try as the send: counted as a failed send.
MarkFails ==
    /\ pc = "mark"
    /\ Fault
    /\ pc' = "error"
    /\ UNCHANGED <<box, arrivals, ripe, batch, cur, outcome, sends, copies, told, calm>>

\* A failed attempt when "exhausted" says whether it was the last one; "retry"
\* is what is reported of one that was not.
CountFailureAs(exhausted, retry) ==
    LET l == cur.letter
        tries == cur.attempts + 1 IN
    /\ pc = "error"
    /\ IF exhausted
       THEN /\ box' = [box EXCEPT ![l].state = "failed", ![l].attempts = tries]
            /\ outcome' = "failed"
            /\ UNCHANGED ripe
       ELSE /\ box' = [box EXCEPT ![l].attempts = tries]
            /\ outcome' = retry
            /\ ripe' = [ripe EXCEPT ![l] = FALSE]
    /\ pc' = "report"
    /\ UNCHANGED <<arrivals, batch, cur, sends, copies, told, calm, faults>>

\* Mutants: one attempt too many; every failed attempt is reported as final;
\* the letter is forgotten before the callback is built from it.
CountFailureOneMore == CountFailureAs(cur.attempts + 1 > MaxAttempts, "retry")
CountFailureReported == CountFailureAs(cur.attempts + 1 >= MaxAttempts, "failed")
CountFailureForgets ==
    /\ pc = "error"
    /\ box' = [box EXCEPT ![cur.letter].attempts = cur.attempts + 1]
    /\ outcome' = "retry"
    /\ ripe' = [ripe EXCEPT ![cur.letter] = FALSE]
    /\ cur' = Nothing
    /\ pc' = "report"
    /\ UNCHANGED <<arrivals, batch, sends, copies, told, calm, faults>>

\* mark_retry with its backoff, or mark_failed.
CountFailure == CountFailureAs(cur.attempts + 1 >= MaxAttempts, "retry")

\* One of the three tries of the callback is handled; its answer may still be
\* lost and the next try made.  A "retry" event is only logged.
Report ==
    /\ pc = "report"
    /\ outcome \in {"sent", "failed"}
    /\ told' = [told EXCEPT ![cur.letter] = @ \union {outcome}]
    /\ UNCHANGED <<box, arrivals, ripe, workerVars, sends, copies, calm, faults>>

\* The callback was answered or has failed three times; it never raises.
EndReport ==
    /\ pc = "report"
    /\ pc' = IF batch = {} THEN "poll" ELSE "pause"
    /\ cur' = Nothing
    /\ outcome' = "none"
    /\ UNCHANGED <<box, arrivals, ripe, batch, sends, copies, told, calm, faults>>

\* The pause of the rate limit, between the letters of a batch only.
Pause ==
    /\ pc = "pause"
    /\ calm' = TRUE
    /\ pc' = "next"
    /\ UNCHANGED <<box, arrivals, ripe, batch, cur, outcome, sends, copies, told, faults>>

\* A statement outside the try of _process raises: get_config, due,
\* set_last_error, mark_failed or mark_retry.  The task ends, and nothing
\* starts another one while the process lives.
WorkerStops ==
    /\ pc \in {"poll", "error"}
    /\ Fault
    /\ pc' = "dead"
    /\ batch' = {}
    /\ cur' = Nothing
    /\ UNCHANGED <<box, arrivals, ripe, outcome, sends, copies, told, calm>>

-----------------------------------------------------------------------------
(* The process and the clock.                                              *)

ProcessDies ==
    /\ pc # "down"
    /\ Fault
    /\ pc' = "down"
    /\ batch' = {}
    /\ cur' = Nothing
    /\ outcome' = "none"
    /\ UNCHANGED <<box, arrivals, ripe, sends, copies, told, calm>>

\* lifespan: store.init finds the table as it was left.
ProcessStarts ==
    /\ pc = "down"
    /\ pc' = "poll"
    /\ UNCHANGED <<box, arrivals, ripe, batch, cur, outcome, sends, copies, told, calm, faults>>

BackoffElapses(l) ==
    /\ ~ripe[l]
    /\ box[l].state = "queued"
    /\ ripe' = [ripe EXCEPT ![l] = TRUE]
    /\ UNCHANGED <<box, arrivals, workerVars, sends, copies, told, calm, faults>>

IntervalPasses ==
    /\ ~calm
    /\ calm' = TRUE
    /\ UNCHANGED <<box, arrivals, ripe, workerVars, sends, copies, told, faults>>

-----------------------------------------------------------------------------
Worker ==
    \/ Poll \/ Take \/ ProviderTakes \/ SendReturns \/ SendRaises \/ MarkSent
    \/ CountFailure \/ Report \/ EndReport \/ Pause

Next ==
    \/ \E l \in Letters :
        \/ Accept(l) \/ BackoffElapses(l)
        \/ \E k \in copies[l], e \in EspEvents : EspWebhook(l, k, e)
    \/ Worker
    \/ ReplyLost \/ MarkFails \/ WorkerStops \/ ProcessDies
    \/ ProcessStarts \/ IntervalPasses

Spec == Init /\ [][Next]_vars

\* The worker's loop goes on, backoffs elapse, the container is restarted
\* (restart: unless-stopped).  Nothing is assumed of the provider's verdicts.
Fairness ==
    /\ WF_vars(Worker)
    /\ WF_vars(ProcessStarts)
    /\ \A l \in Letters : WF_vars(BackoffElapses(l))

FairSpec == Spec /\ Fairness

-----------------------------------------------------------------------------
\* The retries of the worker, of a crash and of a lost reply together never
\* begin more SMTP dialogues for a letter than max_attempts plus one for each
\* fault: no restart starts the count afresh.
SendsBounded == \A l \in Letters : sends[l] <= MaxAttempts + faults

\* A customer gets a letter twice only because of a fault (a death, a lost
\* reply, a failed mark_sent), and at most one copy more for each.
CopiesBounded == \A l \in Letters : Cardinality(copies[l]) <= 1 + faults

\* First attempts go in the order of arrival: neither a retry nor a restart
\* lets a younger letter overtake one that was never tried.
FirstTriesInOrder ==
    \A l, m \in Letters :
        box[l].state # "none" /\ box[l].born < box[m].born /\ sends[m] > 0 => sends[l] > 0

\* The outbox keeps what the application relies on: letters settle once, and
\* what is reported of them is so.
Service == INSTANCE LetterService WITH status <- [l \in Letters |-> box[l].state]

ImplementsLetterService == Service!Spec

\* Every accepted letter is in the end sent or given up, through crashes,
\* restarts and backoffs, unless a storage error has ended the worker's task.
EveryLetterSettles ==
    \A l \in Letters :
        (box[l].state = "queued") ~> (box[l].state \in {"sent", "failed"} \/ pc = "dead")

=============================================================================
