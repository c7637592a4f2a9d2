------------------------------ MODULE WheelPrize ------------------------------
(***************************************************************************)
(* The wheel of fortune (app/cart.py): /wheel-lead marks the e-mail as     *)
(* having spun, /wheel-prize mails the code the browser shows, once.  The  *)
(* row's wheel_prize_code is the slot that keeps a second letter away:     *)
(* claimed before the mail is handed over, released when that fails.       *)
(* Requests of one e-mail run concurrently.                                *)
(***************************************************************************)
EXTENDS Naturals, FiniteSets

CONSTANTS
    Requests,   \* concurrent requests of one e-mail
    Codes,      \* promo codes of the sectors
    None,       \* null
    MaxRequests, \* bound: prize requests
    MaxFaults   \* bound: lost answers and deaths

VARIABLES
    spun,    \* wheel_spun_at is set
    slot,    \* wheel_prize_code
    req,     \* requests: stage and code
    mails,   \* history: codes of the letters handed over, one entry per letter
    requests, lost, deaths  \* counters

vars == <<spun, slot, req, mails, requests, lost, deaths>>

Idle == [pc |-> "idle", code |-> None]

TypeOK ==
    /\ spun \in BOOLEAN /\ slot \in Codes \union {None}
    /\ req \in [Requests -> [pc : {"idle", "claim", "send", "release"}, code : Codes \union {None}]]
    /\ mails \in [Codes -> Nat]
    /\ requests \in 0 .. MaxRequests /\ lost \in Nat /\ deaths \in Nat

Init ==
    /\ spun = FALSE /\ slot = None
    /\ req = [r \in Requests |-> Idle]
    /\ mails = [c \in Codes |-> 0]
    /\ requests = 0 /\ lost = 0 /\ deaths = 0

\* POST /wheel-lead with consent and a valid address: one statement sets the
\* mark where there is none; otherwise 409.
WheelLead ==
    /\ ~spun
    /\ spun' = TRUE
    /\ UNCHANGED <<slot, req, mails, requests, lost, deaths>>

\* POST /wheel-prize: not spun is 409, a taken slot is answered already_sent.
PrizeAsked(r, code) ==
    /\ req[r].pc = "idle" /\ requests < MaxRequests
    /\ requests' = requests + 1
    /\ req' = IF spun /\ slot = None THEN [req EXCEPT ![r] = [pc |-> "claim", code |-> code]] ELSE req
    /\ UNCHANGED <<spun, slot, mails, lost, deaths>>

\* Mutant: without WHERE ... IS NULL, the check before it has to do.
ClaimSlotUnchecked(r) ==
    /\ req[r].pc = "claim"
    /\ slot' = req[r].code /\ req' = [req EXCEPT ![r].pc = "send"]
    /\ UNCHANGED <<spun, mails, requests, lost, deaths>>

\* UPDATE ... WHERE wheel_prize_code IS NULL RETURNING.
ClaimSlot(r) ==
    /\ req[r].pc = "claim"
    /\ slot' = IF slot = None THEN req[r].code ELSE slot
    /\ req' = [req EXCEPT ![r] = IF slot = None THEN [@ EXCEPT !.pc = "send"] ELSE Idle]
    /\ UNCHANGED <<spun, mails, requests, lost, deaths>>

HandedOver(r) == mails' = [mails EXCEPT ![req[r].code] = @ + 1]

MailAccepted(r) ==
    /\ req[r].pc = "send"
    /\ HandedOver(r)
    /\ req' = [req EXCEPT ![r] = Idle]
    /\ UNCHANGED <<spun, slot, requests, lost, deaths>>

\* mailer.send is false: refused, or handed over and the answer lost.
MailFailed(r) ==
    /\ req[r].pc = "send"
    /\ req' = [req EXCEPT ![r].pc = "release"]
    /\ \/ UNCHANGED <<mails, lost>>
       \/ lost + deaths < MaxFaults /\ lost' = lost + 1 /\ HandedOver(r)
    /\ UNCHANGED <<spun, slot, requests, deaths>>

\* Mutant: a failed mail keeps the slot.
ReleaseSlotForgotten(r) ==
    /\ req[r].pc = "release"
    /\ req' = [req EXCEPT ![r] = Idle]
    /\ UNCHANGED <<spun, slot, mails, requests, lost, deaths>>

ReleaseSlot(r) ==
    /\ req[r].pc = "release"
    /\ slot' = None
    /\ req' = [req EXCEPT ![r] = Idle]
    /\ UNCHANGED <<spun, mails, requests, lost, deaths>>

RequestDies(r) ==
    /\ req[r].pc # "idle" /\ lost + deaths < MaxFaults
    /\ deaths' = deaths + 1
    /\ req' = [req EXCEPT ![r] = Idle]
    /\ UNCHANGED <<spun, slot, mails, requests, lost>>

Next ==
    \/ WheelLead
    \/ \E r \in Requests : \/ \E c \in Codes : PrizeAsked(r, c)
                           \/ ClaimSlot(r) \/ MailAccepted(r) \/ MailFailed(r)
                           \/ ReleaseSlot(r) \/ RequestDies(r)

Spec == Init /\ [][Next]_vars

-----------------------------------------------------------------------------
\* However many requests race, one prize letter is handed over, and one more
\* for each answer of the mail service that was lost; none before the spin.
OnePrizeLetter ==
    /\ \A c, d \in Codes : mails[c] <= 1 + lost /\ (c # d => mails[c] + mails[d] <= 1 + lost)
    /\ ~spun => \A c \in Codes : mails[c] = 0

\* A slot nobody is working on stands for a letter with that very code,
\* unless a request died between the claim and the mail.
SlotHasLetter ==
    slot # None /\ deaths = 0 /\ (\A r \in Requests : req[r].pc \in {"idle", "claim"}) => mails[slot] > 0

=============================================================================
