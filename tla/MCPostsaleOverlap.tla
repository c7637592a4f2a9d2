-------------------------- MODULE MCPostsaleOverlap --------------------------
(***************************************************************************)
(* One TLC run over three instances of PostsaleQueue whose states add up:  *)
(* "part" says which of them a behaviour is about.                         *)
(*   "order"   one order, two runners, a fault, late failure reports       *)
(*   "day"     two orders of one user, two runners, a fault, lost replies  *)
(*   "others"  two orders of one user, one runner, a letter of another     *)
(*             scenario                                                    *)
(***************************************************************************)
EXTENDS MCPostsaleQueue

VARIABLE part

MCOverlapVars == <<vars, part>>

AtMostOne(S) == \A x, y \in S : x = y

MCLateReport(o, g) ==
    \/ fate[o][g] = "sent" /\ fate'[o][g] = "failed"
    \/ fate[o][g] = "failed" /\ SentCallback(o, g)

MCOrderNext ==
    /\ Next
    /\ AtMostOne({o \in Orders : order'[o] # "none" \/ ripe'[o]})
    /\ UNCHANGED others
    /\ ~\E r \in Runners : ReplyLost(r)

\* One letter an order is enough to write twice in a day, so a job is tried once.
MCTwoTicksNext ==
    /\ MCDayNext
    /\ UNCHANGED others
    /\ \A o \in Orders : gens'[o] <= 1
    /\ \A r \in Runners : \A j \in todo'[r] : j.attempts = 0
    /\ ~\E o \in Orders, g \in Gen : MCLateReport(o, g)

MCOthersNext ==
    /\ MCDayNext
    /\ UNCHANGED faults
    /\ AtMostOne({r \in Runners : pc'[r] # "idle"})
    /\ ~\E r \in Runners : ReplyLost(r)
    /\ ~\E o \in Orders, g \in Gen : MCLateReport(o, g)

MCOverlapSpec ==
    /\ Init
    /\ part \in {"order", "day", "others"}
    /\ [][ /\ UNCHANGED part
           /\ \/ part = "order" /\ MCOrderNext
              \/ part = "day" /\ MCTwoTicksNext
              \/ part = "others" /\ MCOthersNext ]_MCOverlapVars

=============================================================================
