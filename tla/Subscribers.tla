----------------------------- MODULE Subscribers -----------------------------
(***************************************************************************)
(* The rows of subscribers that stand for one mailbox.  The primary key is *)
(* user_id: the shop's number of the customer, or anon:<e-mail> where only *)
(* the address is known, so one mailbox may own two rows.  Rows come from  *)
(* pings with consent and the wheel (app/cart.py) and from the feed        *)
(* (app/feeds.py); unsubscribing (app/analytics.py) marks the row named in *)
(* the letter; every mailing looks at one row and its timers.              *)
(***************************************************************************)
EXTENDS Naturals, FiniteSets

CONSTANTS
    MaxLetters  \* bound: letters followed

Ids == {"shop", "anon"}  \* the real user_id and anon_user_id(email)

VARIABLES
    row,      \* subscribers
    cooling,  \* rows whose last_sent_cart_at is within the cooldown
    asked,    \* history: the customer has confirmed "unsubscribe"
    fed,      \* history: a feed row came after that
    after     \* history: letters to the mailbox since then

vars == <<row, cooling, asked, fed, after>>

TypeOK ==
    /\ row \in [Ids -> [exists : BOOLEAN, email : BOOLEAN, unsubscribed : BOOLEAN, consent : BOOLEAN]]
    /\ cooling \subseteq Ids /\ asked \in BOOLEAN /\ fed \in BOOLEAN
    /\ after \in 0 .. MaxLetters

NoRow == [exists |-> FALSE, email |-> FALSE, unsubscribed |-> FALSE, consent |-> FALSE]

Init ==
    /\ row = [i \in Ids |-> NoRow]
    /\ cooling = {} /\ asked = FALSE /\ fed = FALSE /\ after = 0

\* Mutant: a new consent takes the unsubscription back.
ConsentRevives(i) ==
    /\ row' = [row EXCEPT ![i] = [exists |-> TRUE, email |-> TRUE, consent |-> TRUE, unsubscribed |-> FALSE]]
    /\ UNCHANGED <<cooling, asked, fed, after>>

\* A ping with e-mail and consent, with or without the customer's number:
\* is_unsubscribed is not touched, the first consent is kept.
Consent(i) ==
    /\ row' = [row EXCEPT ![i].exists = TRUE, ![i].email = TRUE, ![i].consent = TRUE]
    /\ UNCHANGED <<cooling, asked, fed, after>>

\* The wheel knows the e-mail only.
WheelLead == Consent("anon")

\* A row of the subscribers feed replaces everything, e-mail and consent with
\* null where the file has none.
Feed(unsubscribed, consent, email) ==
    /\ row' = [row EXCEPT !["shop"] = [exists |-> TRUE, email |-> email, unsubscribed |-> unsubscribed,
                                       consent |-> consent]]
    /\ fed' = asked
    /\ UNCHANGED <<cooling, asked, after>>

\* The footer link names the row the letter was written to.  Without confirm
\* it only shows a page.  The ESP's event unsubscribed has the same effect.
Unsubscribe(i) ==
    /\ row[i].exists
    /\ row' = [row EXCEPT ![i].unsubscribed = TRUE]
    /\ asked' = TRUE
    /\ UNCHANGED <<cooling, fed, after>>

Mailable(i) == row[i].exists /\ row[i].email /\ row[i].consent /\ ~row[i].unsubscribed

Written == /\ after < MaxLetters
           /\ after' = IF asked THEN after + 1 ELSE after

\* Best Offer and post-sale go by the row.
Letter(i) ==
    /\ Mailable(i) /\ Written
    /\ UNCHANGED <<row, cooling, asked, fed>>

\* The cart tick takes the first row with the session's user_id or e-mail, in
\* no particular order, and its timer; the address may be the session's own.
CartLetter(i) ==
    /\ row[i].exists /\ row[i].consent /\ ~row[i].unsubscribed
    /\ i \notin cooling /\ Written
    /\ cooling' = cooling \union {i}
    /\ UNCHANGED <<row, asked, fed>>

\* The cooldown of the last letter is over for every row.
CooldownEnds ==
    /\ cooling # {}
    /\ cooling' = {}
    /\ UNCHANGED <<row, asked, fed, after>>

Next ==
    \/ WheelLead \/ CooldownEnds
    \/ \E i \in Ids : Consent(i) \/ Unsubscribe(i) \/ Letter(i) \/ CartLetter(i)
    \/ \E unsubscribed, consent, email \in BOOLEAN : Feed(unsubscribed, consent, email)

Spec == Init /\ [][Next]_vars

-----------------------------------------------------------------------------
\* The page after the confirmation says "Больше писем не придёт": as long as
\* the shop's own file does not say otherwise later, none comes.
NoMoreLetters == ~fed => after = 0

\* A letter after the unsubscription needs a second row of the mailbox or a
\* feed row imported later: pings and the wheel never revive a customer.
LateNeedsTwinOrFeed == after > 0 => fed \/ \A i \in Ids : row[i].exists

=============================================================================
