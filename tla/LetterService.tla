--------------------------- MODULE LetterService ---------------------------
(***************************************************************************)
(* What the marketing application relies on when it hands a letter to the  *)
(* mail service: the letter is accepted once, settled once as sent or      *)
(* failed, and nothing is reported of it that is not so.  A report may be  *)
(* repeated and it may never come.                                         *)
(***************************************************************************)
CONSTANTS
    Letters,    \* letters, one per accepted request
    EspEvents   \* what the provider may report of a letter it took

VARIABLES
    status,  \* "none", "queued", "sent" or "failed"
    told     \* the events the application has handled

vars == <<status, told>>

Init ==
    /\ status = [l \in Letters |-> "none"]
    /\ told = [l \in Letters |-> {}]

Accept(l) ==
    /\ status[l] = "none"
    /\ status' = [status EXCEPT ![l] = "queued"]
    /\ UNCHANGED told

Settle(l, s) ==
    /\ status[l] = "queued"
    /\ status' = [status EXCEPT ![l] = s]
    /\ UNCHANGED told

\* The service's own report names the state it is in; the provider's reports
\* reach the application only for letters the service has recorded as sent.
Tell(l, e) ==
    /\ e = status[l] \/ (status[l] = "sent" /\ e \in EspEvents)
    /\ told' = [told EXCEPT ![l] = @ \union {e}]
    /\ UNCHANGED status

Next ==
    \E l \in Letters :
        \/ Accept(l)
        \/ \E s \in {"sent", "failed"} : Settle(l, s)
        \/ \E e \in {"sent", "failed"} \union EspEvents : Tell(l, e)

Spec == Init /\ [][Next]_vars

=============================================================================
