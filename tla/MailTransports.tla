---------------------------- MODULE MailTransports ----------------------------
(***************************************************************************)
(* How the application hands letters over (app/mailer.py) and what it tells *)
(* the admin about it (app/admin.py: send-batch, the test letters).  The   *)
(* transport follows from the configuration: mail service, sendmail, SMTP, *)
(* or a log.  Between two statements the local MTA may stop, the answer of *)
(* the mail service may be lost, its queue may refuse an insert and another *)
(* admin may change its provider.  The admin who is told "not ok" presses  *)
(* the button again.                                                       *)
(***************************************************************************)
EXTENDS Naturals, Sequences, FiniteSets

CONSTANTS
    Batches,    \* what is sent: sequences of BOOLEAN, whether "to" is filled in
    MaxPresses, \* bound: presses of the button
    MaxFaults   \* bound: stops of the MTA, lost answers, refusals, new providers

VARIABLES
    env,       \* settings: service URL set, MAIL_TRANSPORT, SMTP host, sendmail there
    provider,  \* external: what the mail service sends with; "down" if unreachable
    mta,       \* the local MTA runs
    job,       \* the request at work
    reply,     \* its answer
    handed,    \* history: how often each message was handed over
    real,      \* history: how often to something that sends
    presses, faults

vars == <<env, provider, mta, job, reply, handed, real, presses, faults>>

Envs == [service : BOOLEAN, transport : {"", "sendmail", "smtp"}, smtp : BOOLEAN, binary : BOOLEAN]
Idle == [pc |-> "idle", kind |-> "batch", msgs |-> <<>>, at |-> 0, sent |-> 0, failed |-> 0,
         live |-> FALSE, error |-> FALSE]
NoReply == [ok |-> FALSE, live |-> FALSE, queued |-> 0, failed |-> 0]

_wants_sendmail(e) == \/ e.transport = "sendmail"
                      \/ e.transport = "" /\ ~e.smtp /\ e.binary
get_mailer(e) == IF e.service THEN "Http" ELSE IF _wants_sendmail(e) THEN "Sendmail"
                 ELSE IF e.smtp THEN "Smtp" ELSE "Log"
mailer == get_mailer(env)

\* Mutant: a mail service is taken for live whatever it sends with.
_mailer_is_no_log == mailer # "Log"

\* _mailer_is_live: the mail service is asked what it sends with.
_mailer_is_live == \/ mailer \in {"Sendmail", "Smtp"}
                   \/ mailer = "Http" /\ provider \in {"smtp", "sendmail"}

TypeOK ==
    /\ env \in Envs /\ provider \in {"smtp", "sendmail", "dev", "down"} /\ mta \in BOOLEAN
    /\ job.pc \in {"idle", "live", "send", "post", "reply"}
    /\ job.sent + job.failed <= Len(job.msgs)
    /\ Len(handed) = Len(job.msgs) /\ \A i \in DOMAIN handed : real[i] <= handed[i]
    /\ presses \in 0 .. MaxPresses /\ faults \in 0 .. MaxFaults

Init ==
    /\ env \in Envs /\ provider \in {"smtp", "dev", "down"} /\ mta \in BOOLEAN
    /\ \E msgs \in Batches : /\ job = [Idle EXCEPT !.msgs = msgs]
                             /\ handed = [i \in DOMAIN msgs |-> 0] /\ real = handed
    /\ reply = NoReply /\ presses = 0 /\ faults = 0

Fault == faults < MaxFaults /\ faults' = faults + 1

Filled == {i \in DOMAIN job.msgs : job.msgs[i]}
HandOver(S, sends) ==
    /\ handed' = [i \in DOMAIN handed |-> handed[i] + IF i \in S THEN 1 ELSE 0]
    /\ real' = [i \in DOMAIN real |-> real[i] + IF i \in S /\ sends THEN 1 ELSE 0]

-----------------------------------------------------------------------------
\* POST /mail/send-batch, or a test letter of one message (scenario_test,
\* mail_test).  A batch looks at the transport first, a test afterwards.
Press(kind) ==
    /\ job.pc = "idle" /\ ~reply.ok /\ presses < MaxPresses
    /\ kind = "test" => job.msgs = <<TRUE>>
    /\ presses' = presses + 1
    /\ job' = [Idle EXCEPT !.pc = IF kind = "batch" THEN "live" ELSE IF mailer = "Http" THEN "post" ELSE "send",
                           !.kind = kind, !.msgs = job.msgs]
    /\ UNCHANGED <<env, provider, mta, reply, handed, real, faults>>

LooksLive ==
    /\ job.pc = "live"
    /\ job' = [job EXCEPT !.live = _mailer_is_live,
                          !.pc = IF mailer # "Http" THEN "send" ELSE IF Filled = {} THEN "reply" ELSE "post",
                          !.failed = IF mailer = "Http" THEN Len(job.msgs) - Cardinality(Filled) ELSE 0]
    /\ UNCHANGED <<env, provider, mta, reply, handed, real, presses, faults>>

\* _send_batch_loop, and the one letter of a test: an empty address fails;
\* sendmail wants the MTA alive before and after it hands over.
Done(ok) == [job EXCEPT !.at = @ + 1, !.sent = IF ok THEN @ + 1 ELSE @, !.failed = IF ok THEN @ ELSE @ + 1,
                        !.pc = IF job.at + 1 = Len(job.msgs) THEN "reply" ELSE "send"]
NoRecipient ==
    /\ job.pc = "send" /\ ~job.msgs[job.at + 1]
    /\ job' = Done(FALSE)
    /\ UNCHANGED <<env, provider, mta, reply, handed, real, presses, faults>>

Sends == job.pc = "send" /\ job.msgs[job.at + 1]

SendmailRefuses ==
    /\ Sends /\ mailer = "Sendmail" /\ (~env.binary \/ ~mta)
    /\ job' = Done(FALSE)
    /\ UNCHANGED <<env, provider, mta, reply, handed, real, presses, faults>>

SendmailTakes ==
    /\ Sends /\ mailer = "Sendmail" /\ env.binary /\ mta
    /\ HandOver({job.at + 1}, TRUE)
    /\ \/ job' = Done(TRUE) /\ UNCHANGED <<mta, faults>>
       \/ job' = Done(FALSE) /\ mta' = FALSE /\ Fault
    /\ UNCHANGED <<env, provider, reply, presses>>

\* SMTP and the log: taken; refused; or taken and the dialogue broken off.
DirectSend ==
    /\ Sends /\ mailer \in {"Smtp", "Log"}
    /\ \/ HandOver({job.at + 1}, mailer = "Smtp") /\ job' = Done(TRUE) /\ UNCHANGED faults
       \/ mailer = "Smtp" /\ job' = Done(FALSE) /\ UNCHANGED <<handed, real, faults>>
       \/ mailer = "Smtp" /\ job' = Done(FALSE) /\ HandOver({job.at + 1}, TRUE) /\ Fault
    /\ UNCHANGED <<env, provider, mta, reply, presses>>

-----------------------------------------------------------------------------
\* POST /v1/send/batch: rows are inserted one after the other, and an insert
\* that raises leaves those before it; POST /v1/send/sync, /v1/test: one letter.
ServiceTakes ==
    /\ job.pc = "post" /\ provider # "down"
    /\ HandOver(Filled, provider \in {"smtp", "sendmail"})
    /\ \/ job' = [job EXCEPT !.pc = "reply", !.sent = Cardinality(Filled)] /\ UNCHANGED faults
       \/ Fault /\ job' = [job EXCEPT !.pc = "reply", !.error = TRUE, !.failed = Len(job.msgs)]
    /\ UNCHANGED <<env, provider, mta, reply, presses>>

ServiceBreaksOff ==
    /\ job.pc = "post" /\ provider # "down" /\ job.kind = "batch" /\ Fault
    /\ \E i \in Filled : HandOver({j \in Filled : j < i}, provider \in {"smtp", "sendmail"})
    /\ job' = [job EXCEPT !.pc = "reply", !.error = TRUE, !.failed = Len(job.msgs)]
    /\ UNCHANGED <<env, provider, mta, reply, presses>>

\* Unreachable, or the provider refuses the synchronous letter.
ServiceFails ==
    /\ job.pc = "post" /\ (provider = "down" \/ job.kind = "test")
    /\ job' = [job EXCEPT !.pc = "reply", !.error = TRUE, !.failed = Len(job.msgs)]
    /\ UNCHANGED <<env, provider, mta, reply, handed, real, presses, faults>>

\* Mutant: a batch is "not ok" if anything failed.
AnswerAllOrNothing ==
    /\ job.pc = "reply"
    /\ reply' = [ok |-> job.failed = 0 /\ ~job.error, queued |-> job.sent, failed |-> job.failed, live |-> job.live]
    /\ job' = [Idle EXCEPT !.msgs = job.msgs, !.kind = job.kind]
    /\ UNCHANGED <<env, provider, mta, handed, real, presses, faults>>

\* The answer shown in the admin panel.
Answer ==
    /\ job.pc = "reply"
    /\ reply' = [ok |-> job.sent > 0 /\ ~job.error, queued |-> job.sent, failed |-> job.failed,
                 live |-> IF job.kind = "batch" THEN job.live ELSE _mailer_is_live]
    /\ job' = [Idle EXCEPT !.msgs = job.msgs, !.kind = job.kind]
    /\ UNCHANGED <<env, provider, mta, handed, real, presses, faults>>

\* Another admin (mail_config_save) or an outage; the MTA stops or starts.
ProviderChanges ==
    /\ Fault
    /\ provider' \in {"smtp", "sendmail", "dev", "down"} \ {provider}
    /\ UNCHANGED <<env, mta, job, reply, handed, real, presses>>

MtaSwitches ==
    /\ Fault /\ mta' = ~mta
    /\ UNCHANGED <<env, provider, job, reply, handed, real, presses>>

Next ==
    \/ Press("batch") \/ Press("test") \/ LooksLive
    \/ NoRecipient \/ SendmailRefuses \/ SendmailTakes \/ DirectSend
    \/ ServiceTakes \/ ServiceBreaksOff \/ ServiceFails
    \/ Answer \/ ProviderChanges \/ MtaSwitches

Spec == Init /\ [][Next]_vars

-----------------------------------------------------------------------------
\* An admin who repeats only what was answered "not ok" sends nobody a second
\* copy, except one for each fault between hand-over and answer.
RepeatsAreExplained == \A i \in DOMAIN handed : handed[i] <= 1 + faults

\* The answer is true: it accounts for every message of the request, whichever
\* transport it took and wherever it broke; and "live" letters have left for
\* real, not into the log of the application or of the mail service, unless its
\* provider was changed meanwhile.
AnswerIsTrue ==
    /\ presses > 0 /\ job.pc = "idle" => reply.queued + reply.failed = Len(job.msgs)
    /\ reply.ok /\ reply.live /\ faults = 0 =>
          Cardinality({i \in DOMAIN real : real[i] > 0}) >= reply.queued

=============================================================================
