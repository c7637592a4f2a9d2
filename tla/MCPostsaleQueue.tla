-------------------------- MODULE MCPostsaleQueue --------------------------
(* Instances of PostsaleQueue for TLC: all orders belong to one user.      *)
EXTENDS PostsaleQueue, TLC

MCUserOf == [o \in Orders |-> CHOOSE u \in Users : TRUE]

MCSymmetry == Permutations(Orders) \union Permutations(Runners)

\* For the daily limit the orders are all taken in before the first delay
\* elapses, nobody cancels one or unsubscribes, and the faults are those that
\* leave a letter unrecorded: the rest would only take letters away.
MCDayNext ==
    /\ Next
    /\ UNCHANGED mailable
    /\ faults' # faults => mishaps' # mishaps
    /\ \A o \in Orders : order'[o] # "cancelled"
    /\ IF \E o \in Orders : job[o].state = "none" \/ intake[o] = "enqueue"
       THEN UNCHANGED ripe
       ELSE UNCHANGED <<order, intake>>
MCDaySpec == Init /\ [][MCDayNext]_vars

=============================================================================
