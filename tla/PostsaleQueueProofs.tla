------------------------ MODULE PostsaleQueueProofs ------------------------
(***************************************************************************)
(* Proofs about PostsaleQueue, for any number of orders, handlers and      *)
(* retries.  For any number of runners: types, the promise "one letter per *)
(* order" as far as the unique index keeps it, and the letter behind every *)
(* sent job, and what a second trigger of one day takes.  For one runner,  *)
(* which is what SKIP LOCKED was meant to give: the bounds on attempts and *)
(* letters, and what is never undone in the queue.                         *)
(***************************************************************************)
EXTENDS PostsaleQueue, TLAPS

(***************************************************************************)
(* Types.                                                                  *)
(***************************************************************************)

LEMMA InitTypeOK == Init => TypeOK
  BY ConstantsAssumption
     DEF Init, TypeOK, NoRow, NoJob, NoLetter, JobRows, LogRows, Works, JobStates,
         RunnerStages, HandlerStages, Fates, Gen, Letters

\* The updates of rows and of a runner's work that the actions make.
LEMMA RowUpdates ==
    /\ \A j \in JobRows : /\ \A s \in JobStates : [j EXCEPT !.state = s] \in JobRows
                          /\ \A d \in BOOLEAN : [j EXCEPT !.deferred = d] \in JobRows
                          /\ \A n \in Nat : [j EXCEPT !.attempts = n] \in JobRows
                          /\ j.attempts \in Nat
    /\ \A n \in Nat : [state |-> "scheduled", attempts |-> n, deferred |-> FALSE] \in JobRows
    /\ NoRow \in LogRows
    /\ \A w \in LogRows, s \in {"queued", "sent", "failed"}, t \in {"close", "callback"} :
          /\ [w EXCEPT !.status = s] \in LogRows
          /\ [w EXCEPT !.status = s, !.stamp = t] \in LogRows
    /\ \A g \in Gen : [gen |-> g, status |-> "queued", stamp |-> "null"] \in LogRows
    /\ NoJob \in Works
    /\ \A w \in Works : /\ w.attempts \in Nat
                        /\ \A g \in Gen : [w EXCEPT !.gen = g] \in Works
    /\ \A o \in Orders, n \in Nat : [order |-> o, attempts |-> n, gen |-> 0] \in Works
  BY DEF JobRows, LogRows, Works, NoRow, NoJob, JobStates

LEMMA NextTypeOK == TypeOK /\ [Next]_vars => TypeOK'
<1> SUFFICES ASSUME TypeOK, [Next]_vars PROVE TypeOK'
  OBVIOUS
<1> USE ConstantsAssumption
<1>1. ASSUME NEW o \in Orders, NEW s \in {"open", "cancelled"}, FeedOrder(o, s) PROVE TypeOK'
  BY <1>1 DEF TypeOK, FeedOrder, runnerVars, handlerVars, countVars
<1>2. ASSUME NEW o \in Orders, PostOrder(o) PROVE TypeOK'
  BY <1>2 DEF TypeOK, PostOrder, runnerVars, handlerVars, countVars
<1>3. ASSUME NEW o \in Orders, Enqueue(o) PROVE TypeOK'
  <2>1. job' \in [Orders -> JobRows]
    <3>1. [job[o] EXCEPT !.state = "scheduled"] \in JobRows
      BY RowUpdates DEF TypeOK, JobStates
    <3>2. QED
      BY <1>3, <3>1 DEF TypeOK, Enqueue
  <2>2. QED
    BY <1>3, <2>1 DEF TypeOK, Enqueue, runnerVars, handlerVars, countVars
<1>4. ASSUME NEW o \in Orders, IntakeDies(o) PROVE TypeOK'
  BY <1>4 DEF TypeOK, IntakeDies, runnerVars, handlerVars
<1>5. ASSUME NEW o \in Orders, Ripen(o) PROVE TypeOK'
  BY <1>5 DEF TypeOK, Ripen, runnerVars, handlerVars, countVars
<1>6. ASSUME NEW o \in Orders, NEW g \in Gen, ServiceDelivers(o, g) PROVE TypeOK'
  BY <1>6 DEF TypeOK, ServiceDelivers, dbVars, runnerVars, handlerVars, countVars, Fates
<1>7. ASSUME NEW o \in Orders, NEW g \in Gen, ServiceGivesUp(o, g) PROVE TypeOK'
  BY <1>7 DEF TypeOK, ServiceGivesUp, dbVars, runnerVars, handlerVars, countVars, Fates
<1>8. ASSUME NEW o \in Orders, NEW g \in Gen, SentCallback(o, g) PROVE TypeOK'
  <2>1. row' \in [Orders -> LogRows]
    <3>1. PICK s \in {"callback", row[o].stamp} \ {"null"} :
            row' = [row EXCEPT ![o].status = "sent", ![o].stamp = s]
      BY <1>8 DEF SentCallback
    <3>2. row[o] \in LogRows /\ s \in {"close", "callback"}
      BY DEF TypeOK, LogRows
    <3>3. [row[o] EXCEPT !.status = "sent", !.stamp = s] \in LogRows
      BY <3>2, RowUpdates
    <3>4. QED
      BY <3>1, <3>3 DEF TypeOK
  <2>2. QED
    BY <1>8, <2>1 DEF TypeOK, SentCallback, runnerVars, handlerVars, countVars
<1>9. ASSUME NEW r \in Runners, BeginTick(r) PROVE TypeOK'
  <2>1. todo' \in [Runners -> SUBSET [order : Orders, attempts : Nat]]
    <3>1. \A o \in Orders : job[o].attempts \in Nat
      BY RowUpdates DEF TypeOK
    <3>2. {[order |-> o, attempts |-> job[o].attempts] : o \in Due}
            \in SUBSET [order : Orders, attempts : Nat]
      BY <3>1 DEF Due
    <3>3. QED
      BY <1>9, <3>2 DEF TypeOK, BeginTick
  <2>2. QED
    BY <1>9, <2>1 DEF TypeOK, BeginTick, dbVars, handlerVars, countVars, RunnerStages
<1>10. ASSUME NEW r \in Runners, EndTick(r) PROVE TypeOK'
  BY <1>10 DEF TypeOK, EndTick, dbVars, handlerVars, countVars, RunnerStages
<1>11. ASSUME NEW r \in Runners, Check(r) PROVE TypeOK'
  <2>1. PICK j \in todo[r] :
          /\ todo' = [todo EXCEPT ![r] = @ \ {j}]
          /\ cur' = [cur EXCEPT ![r] =
                        [order |-> j.order, attempts |-> j.attempts, gen |-> 0]]
          /\ mishaps' \subseteq mishaps \union {UserOf[j.order]}
          /\ \E v \in Verdicts(j) : pc' = [pc EXCEPT ![r] = v]
    BY <1>11 DEF Check
  <2>2. j.order \in Orders /\ j.attempts \in Nat
    BY DEF TypeOK
  <2>3. PICK v \in {"fail", "cancel", "defer", "insert"} : pc' = [pc EXCEPT ![r] = v]
    BY <2>1 DEF Verdicts
  <2>4. cur' \in [Runners -> Works]
    BY <2>1, <2>2, RowUpdates DEF TypeOK
  <2>5. \A s \in Runners : /\ pc'[s] \notin {"idle", "loop"} => cur'[s].order \in Orders
                           /\ pc'[s] \in {"send", "undo", "close"} => cur'[s].gen \in Gen
    BY <2>1, <2>2, <2>3 DEF TypeOK
  <2>6. todo' \in [Runners -> SUBSET [order : Orders, attempts : Nat]]
    BY <2>1 DEF TypeOK
  <2>7. mishaps' \in SUBSET Users
    <3>1. UserOf[j.order] \in Users /\ mishaps \subseteq Users
      BY <2>2 DEF TypeOK
    <3>2. QED
      BY <3>1, <2>1
  <2>8. QED
    BY <1>11, <2>3, <2>4, <2>5, <2>6, <2>7
       DEF TypeOK, Check, dbVars, handlerVars, RunnerStages
<1>12. ASSUME NEW r \in Runners, Finish(r) PROVE TypeOK'
  <2>1. job' \in [Orders -> JobRows]
    <3>1. \A s \in JobStates : [job[cur[r].order] EXCEPT !.state = s] \in JobRows
      BY <1>12, RowUpdates DEF TypeOK, Finish
    <3>2. QED
      BY <1>12, <3>1 DEF TypeOK, Finish, JobStates
  <2>2. cur' \in [Runners -> Works]
    BY <1>12, RowUpdates DEF TypeOK, Finish
  <2>3. pc' \in [Runners -> RunnerStages]
    BY <1>12 DEF TypeOK, Finish, RunnerStages
  <2>4. \A s \in Runners : /\ pc'[s] \notin {"idle", "loop"} => cur'[s].order \in Orders
                           /\ pc'[s] \in {"send", "undo", "close"} => cur'[s].gen \in Gen
    BY <1>12 DEF TypeOK, Finish
  <2>5. QED
    BY <1>12, <2>1, <2>2, <2>3, <2>4 DEF TypeOK, Finish, handlerVars, countVars
<1>13. ASSUME NEW r \in Runners, Defer(r) PROVE TypeOK'
  <2>1. job' \in [Orders -> JobRows]
    <3>1. [job[cur[r].order] EXCEPT !.deferred = TRUE] \in JobRows
      BY <1>13, RowUpdates DEF TypeOK, Defer
    <3>2. QED
      BY <1>13, <3>1 DEF TypeOK, Defer
  <2>2. cur' \in [Runners -> Works]
    BY <1>13, RowUpdates DEF TypeOK, Defer
  <2>3. QED
    BY <1>13, <2>1, <2>2 DEF TypeOK, Defer, handlerVars, countVars, RunnerStages
<1>14. ASSUME NEW r \in Runners, InsertLog(r) PROVE TypeOK'
  <2> DEFINE o == cur[r].order
             g == gens[o] + 1
  <2>1. o \in Orders /\ g \in Gen /\ g \in 0 .. MaxLetters
    <3>1. o \in Orders
      BY <1>14 DEF TypeOK, InsertLog
    <3>2. gens[o] \in 0 .. MaxLetters /\ gens[o] < MaxLetters
      BY <1>14, <3>1 DEF TypeOK, InsertLog
    <3>3. QED
      BY <3>1, <3>2 DEF Gen
  <2>2. row' \in [Orders -> LogRows]
    <3>1. [gen |-> g, status |-> "queued", stamp |-> "null"] \in LogRows
      BY <2>1, RowUpdates
    <3>2. QED
      BY <1>14, <3>1 DEF TypeOK, InsertLog
  <2>3. cur' \in [Runners -> Works]
    <3>1. [cur[r] EXCEPT !.gen = g] \in Works
      BY <2>1, RowUpdates DEF TypeOK
    <3>2. QED
      BY <1>14, <3>1 DEF TypeOK, InsertLog
  <2>4. \A s \in Runners : /\ pc'[s] \notin {"idle", "loop"} => cur'[s].order \in Orders
                           /\ pc'[s] \in {"send", "undo", "close"} => cur'[s].gen \in Gen
    <3>1. cur'[r].order = o /\ cur'[r].gen = g
      BY <1>14 DEF TypeOK, InsertLog, Works
    <3>2. QED
      BY <1>14, <2>1, <3>1 DEF TypeOK, InsertLog
  <2>5. gens' \in [Orders -> 0 .. MaxLetters]
    BY <1>14, <2>1 DEF TypeOK, InsertLog
  <2>6. QED
    BY <1>14, <2>2, <2>3, <2>4, <2>5 DEF TypeOK, InsertLog, handlerVars, countVars, RunnerStages
<1>15. ASSUME NEW r \in Runners, InsertRefused(r) PROVE TypeOK'
  BY <1>15 DEF TypeOK, InsertRefused, dbVars, handlerVars, countVars, RunnerStages
<1>16. ASSUME NEW r \in Runners, MailAccepted(r) PROVE TypeOK'
  <2>1. cur[r].order \in Orders /\ cur[r].gen \in Gen /\ UserOf[cur[r].order] \in Users
    BY <1>16 DEF TypeOK, MailAccepted
  <2>2. fate' \in [Orders -> [Gen -> Fates]]
    BY <1>16, <2>1 DEF TypeOK, MailAccepted, Fates
  <2>3. sentToday' \in [Users -> SUBSET Letters]
    BY <1>16, <2>1 DEF TypeOK, MailAccepted, Letters
  <2>4. QED
    BY <1>16, <2>1, <2>2, <2>3 DEF TypeOK, MailAccepted, dbVars, handlerVars, countVars, RunnerStages
<1>17. ASSUME NEW r \in Runners, MailRefused(r) PROVE TypeOK'
  BY <1>17 DEF TypeOK, MailRefused, dbVars, handlerVars, countVars, RunnerStages
<1>18. ASSUME NEW r \in Runners, ReplyLost(r) PROVE TypeOK'
  <2>1. cur[r].order \in Orders /\ cur[r].gen \in Gen /\ UserOf[cur[r].order] \in Users
    BY <1>18 DEF TypeOK, ReplyLost
  <2>2. fate' \in [Orders -> [Gen -> Fates]]
    BY <1>18, <2>1 DEF TypeOK, ReplyLost, Fates
  <2>3. sentToday' \in [Users -> SUBSET Letters]
    BY <1>18, <2>1 DEF TypeOK, ReplyLost, Letters
  <2>4. QED
    BY <1>18, <2>1, <2>2, <2>3 DEF TypeOK, ReplyLost, dbVars, handlerVars, RunnerStages
<1>19. ASSUME NEW r \in Runners, Undo(r) PROVE TypeOK'
  <2>1. row' \in [Orders -> LogRows]
    BY <1>19, RowUpdates DEF TypeOK, Undo, WithoutRow
  <2>2. QED
    BY <1>19, <2>1 DEF TypeOK, Undo, handlerVars, countVars, RunnerStages
<1>20. ASSUME NEW r \in Runners, Bump(r) PROVE TypeOK'
  <2> DEFINE o == cur[r].order
  <2>1. o \in Orders /\ cur[r].attempts + 1 \in Nat
    <3>1. cur[r].attempts \in Nat
      BY RowUpdates DEF TypeOK
    <3>2. QED
      BY <1>20, <3>1 DEF TypeOK, Bump
  <2>2. job' \in [Orders -> JobRows]
    <3>1. [job[o] EXCEPT !.attempts = cur[r].attempts + 1] \in JobRows
      BY <2>1, RowUpdates DEF TypeOK
    <3>2. QED
      BY <1>20, <3>1 DEF TypeOK, Bump
  <2>3. cur' \in [Runners -> Works]
    BY <1>20, RowUpdates DEF TypeOK, Bump
  <2>4. \A s \in Runners : /\ pc'[s] \notin {"idle", "loop"} => cur'[s].order \in Orders
                           /\ pc'[s] \in {"send", "undo", "close"} => cur'[s].gen \in Gen
    BY <1>20, <2>1 DEF TypeOK, Bump
  <2>5. pc' \in [Runners -> RunnerStages]
    BY <1>20 DEF TypeOK, Bump, RunnerStages
  <2>6. QED
    BY <1>20, <2>2, <2>3, <2>4, <2>5 DEF TypeOK, Bump, handlerVars, countVars
<1>21. ASSUME NEW r \in Runners, Close(r) PROVE TypeOK'
  <2> DEFINE o == cur[r].order
             g == cur[r].gen
  <2>1. o \in Orders /\ g \in Gen /\ UserOf[o] \in Users
    BY <1>21 DEF TypeOK, Close
  <2>2. job' \in [Orders -> JobRows]
    <3>1. [job[o] EXCEPT !.state = "sent"] \in JobRows
      BY <2>1, RowUpdates DEF TypeOK, JobStates
    <3>2. QED
      BY <1>21, <3>1 DEF TypeOK, Close
  <2>3. row' \in [Orders -> LogRows]
    <3>1. [row[o] EXCEPT !.status = "sent", !.stamp = "close"] \in LogRows
      BY <2>1, RowUpdates DEF TypeOK
    <3>2. QED
      BY <1>21, <3>1 DEF TypeOK, Close
  <2>4. cur' \in [Runners -> Works]
    BY <1>21, RowUpdates DEF TypeOK, Close
  <2>5. today' \in [Users -> Letters \union {NoLetter, OtherLetter}]
    BY <1>21, <2>1 DEF TypeOK, Close, Letters
  <2>6. QED
    BY <1>21, <2>2, <2>3, <2>4, <2>5 DEF TypeOK, Close, handlerVars, countVars, RunnerStages
<1>22. ASSUME NEW r \in Runners, Raises(r) PROVE TypeOK'
  BY <1>22 DEF TypeOK, Raises, Unrecorded, dbVars, handlerVars, RunnerStages
<1>23. ASSUME NEW r \in Runners, RunnerDies(r) PROVE TypeOK'
  <2>1. cur' \in [Runners -> Works]
    BY <1>23, RowUpdates DEF TypeOK, RunnerDies
  <2>2. faults' \in 0 .. MaxFaults
    BY <1>23 DEF TypeOK, RunnerDies
  <2>3. todo' \in [Runners -> SUBSET [order : Orders, attempts : Nat]]
    BY <1>23 DEF TypeOK, RunnerDies
  <2>4. pc' \in [Runners -> RunnerStages]
    BY <1>23 DEF TypeOK, RunnerDies, RunnerStages
  <2>5. \A s \in Runners : /\ pc'[s] \notin {"idle", "loop"} => cur'[s].order \in Orders
                           /\ pc'[s] \in {"send", "undo", "close"} => cur'[s].gen \in Gen
    BY <1>23 DEF TypeOK, RunnerDies
  <2>6. QED
    BY <1>23, <2>1, <2>2, <2>3, <2>4, <2>5
       DEF TypeOK, RunnerDies, Unrecorded, dbVars, handlerVars
<1>24. ASSUME NEW h \in Handlers, FailedCallback(h) PROVE TypeOK'
  <2>1. PICK l \in Letters :
          /\ hletter' = [hletter EXCEPT ![h] = l]
          /\ row' = IF row[l.order].gen = l.gen
                    THEN [row EXCEPT ![l.order].status = "failed"]
                    ELSE row
    BY <1>24 DEF FailedCallback
  <2>2. row' \in [Orders -> LogRows]
    <3>1. l.order \in Orders
      BY DEF Letters
    <3>2. [row[l.order] EXCEPT !.status = "failed"] \in LogRows
      BY <3>1, RowUpdates DEF TypeOK
    <3>3. QED
      BY <2>1, <3>1, <3>2 DEF TypeOK
  <2>3. QED
    BY <1>24, <2>1, <2>2 DEF TypeOK, FailedCallback, runnerVars, countVars, HandlerStages
<1>25. ASSUME NEW h \in Handlers, ReadLog(h) PROVE TypeOK'
  <2>1. \/ hpc' = [hpc EXCEPT ![h] = "timers"] /\ hletter' = hletter
        \/ HandlerEnds(h)
    BY <1>25 DEF ReadLog
  <2>2. /\ hpc' \in [Handlers -> HandlerStages]
        /\ hletter' \in [Handlers -> Letters \union {NoLetter}]
        /\ \A k \in Handlers : hpc'[k] # "idle" => hletter'[k] \in Letters
    BY <1>25, <2>1 DEF TypeOK, ReadLog, HandlerEnds, HandlerStages
  <2>3. QED
    BY <1>25, <2>2 DEF TypeOK, ReadLog, dbVars, runnerVars, countVars
<1>26. ASSUME NEW h \in Handlers, ResetTimers(h) PROVE TypeOK'
  BY <1>26 DEF TypeOK, ResetTimers, runnerVars, countVars, HandlerStages
<1>27. ASSUME NEW h \in Handlers, Reschedule(h) PROVE TypeOK'
  <2> DEFINE o == hletter[h].order
  <2>1. o \in Orders
    BY <1>27 DEF TypeOK, Reschedule, Letters
  <2>2. job' \in [Orders -> JobRows]
    <3>1. job[o].attempts + 1 \in Nat
      <4>1. job[o] \in JobRows
        BY <2>1 DEF TypeOK
      <4>2. job[o].attempts \in Nat
        BY <4>1, RowUpdates
      <4>3. QED
        BY <4>2
    <3>2. [state |-> "scheduled", attempts |-> job[o].attempts + 1, deferred |-> FALSE] \in JobRows
      BY <3>1, RowUpdates
    <3>3. QED
      BY <1>27, <2>1, <3>2 DEF TypeOK, Reschedule
  <2>3. QED
    BY <1>27, <2>2 DEF TypeOK, Reschedule, runnerVars, countVars, HandlerStages
<1>28. ASSUME NEW h \in Handlers, DeleteFailed(h) PROVE TypeOK'
  <2>1. row' \in [Orders -> LogRows]
    BY <1>28, RowUpdates DEF TypeOK, DeleteFailed, WithoutRow
  <2>2. QED
    BY <1>28, <2>1 DEF TypeOK, DeleteFailed, HandlerEnds, runnerVars, countVars, HandlerStages
<1>29. ASSUME NEW h \in Handlers, HandlerDies(h) PROVE TypeOK'
  BY <1>29 DEF TypeOK, HandlerDies, HandlerEnds, dbVars, runnerVars, HandlerStages
<1>30. ASSUME NEW u \in Users, OtherScenarioSends(u) \/ OtherScenarioFails(u) PROVE TypeOK'
  <2>1. CASE OtherScenarioSends(u)
    BY <2>1 DEF TypeOK, OtherScenarioSends, runnerVars, handlerVars
  <2>2. CASE OtherScenarioFails(u)
    BY <2>2 DEF TypeOK, OtherScenarioFails, runnerVars, handlerVars
  <2>3. QED
    BY <1>30, <2>1, <2>2
<1>31. ASSUME NEW u \in Users, NEW m \in BOOLEAN, SetMailable(u, m) PROVE TypeOK'
  BY <1>31 DEF TypeOK, SetMailable, runnerVars, handlerVars, countVars
<1>32. ASSUME NextDay PROVE TypeOK'
  <2>1. job' \in [Orders -> JobRows]
    BY <1>32, RowUpdates DEF TypeOK, NextDay
  <2>2. QED
    BY <1>32, <2>1 DEF TypeOK, NextDay, runnerVars, handlerVars
<1>33. CASE UNCHANGED vars
  BY <1>33 DEF TypeOK, vars, dbVars, runnerVars, handlerVars, countVars
<1>34. QED
  BY <1>1, <1>2, <1>3, <1>4, <1>5, <1>6, <1>7, <1>8, <1>9, <1>10, <1>11, <1>12, <1>13,
     <1>14, <1>15, <1>16, <1>17, <1>18, <1>19, <1>20, <1>21, <1>22, <1>23, <1>24, <1>25,
     <1>26, <1>27, <1>28, <1>29, <1>30, <1>31, <1>32, <1>33
     DEF Next, Tick, Webhook

\* Every variable keeps its type, and a working runner or handler always has
\* the job, the log row and the letter it works on.
THEOREM TypeCorrect == Spec => []TypeOK
<1>1. Init => TypeOK
  BY InitTypeOK
<1>2. TypeOK /\ [Next]_vars => TypeOK'
  BY NextTypeOK
<1>3. QED
  BY <1>1, <1>2, PTL DEF Spec

(***************************************************************************)
(* One live letter per order.  The invariant that carries it: the log row  *)
(* of a live letter is still in the table, so the unique index forbids the *)
(* next one.  It survives because a row is deleted only by the runner that *)
(* was refused that very letter, or by the webhook after the letter failed *)
(* - and a runner that is refused knows the service holds nothing, which   *)
(* is where ~LostReplies is needed.                                        *)
(***************************************************************************)

Sending(r) == pc[r] \in {"send", "undo"}

\* a live letter is the one the order's log row stands for
LiveRow == \A o \in Orders, g \in Gen : Live(o, g) => row[o].gen = g

\* generations above the counter were never used
FreshGens ==
    \A o \in Orders : /\ row[o].gen <= gens[o]
                      /\ \A g \in Gen : g > gens[o] => fate[o][g] = "none"

\* a runner about to send, or refused, owns a letter nobody has seen
OwnLetter ==
    \A r \in Runners : Sending(r) =>
        /\ fate[cur[r].order][cur[r].gen] = "none"
        /\ cur[r].gen <= gens[cur[r].order]
        /\ pc[r] = "send" => row[cur[r].order].gen = cur[r].gen

\* no two runners own the same letter
OwnersDiffer ==
    \A r, s \in Runners : Sending(r) /\ Sending(s) /\ r # s
        => <<cur[r].order, cur[r].gen>> # <<cur[s].order, cur[s].gen>>

\* the webhook takes back failed letters only
TakesBackFailed ==
    \A h \in Handlers : hpc[h] # "idle" => fate[hletter[h].order][hletter[h].gen] = "failed"

LetterInv == LiveRow /\ FreshGens /\ OwnLetter /\ OwnersDiffer /\ TakesBackFailed

LEMMA InitLetterInv == Init => LetterInv
  BY ConstantsAssumption
     DEF Init, LetterInv, LiveRow, FreshGens, OwnLetter, OwnersDiffer, TakesBackFailed,
         Live, Sending, NoRow, Gen

\* A step that changes no letter and inserts or deletes no log row, starts no
\* send and takes up only failed letters, keeps the invariant.
LEMMA QuietStep ==
    ASSUME LetterInv, TypeOK,
           UNCHANGED <<fate, gens>>,
           \A o \in Orders : row'[o].gen = row[o].gen,
           \A r \in Runners : Sending(r)' => /\ Sending(r) /\ cur'[r] = cur[r]
                                             /\ pc'[r] = "send" => pc[r] = "send",
           \A h \in Handlers : hpc'[h] # "idle" =>
                \/ hpc[h] # "idle" /\ hletter'[h] = hletter[h]
                \/ fate[hletter'[h].order][hletter'[h].gen] = "failed"
    PROVE  LetterInv'
<1>1. LiveRow' /\ FreshGens'
  BY DEF LetterInv, LiveRow, FreshGens, Live
<1>2. OwnLetter'
  <2>1. \A r \in Runners : Sending(r)' => cur[r].order \in Orders
    BY DEF Sending, TypeOK
  <2>2. QED
    BY <2>1 DEF LetterInv, OwnLetter
<1>3. OwnersDiffer'
  BY DEF LetterInv, OwnersDiffer
<1>4. TakesBackFailed'
  BY DEF LetterInv, TakesBackFailed
<1>5. QED
  BY <1>1, <1>2, <1>3, <1>4 DEF LetterInv

\* Deleting the row of a letter that is not live, and that no runner is about
\* to send, keeps the invariant.
LEMMA DeleteStep ==
    ASSUME LetterInv, TypeOK,
           NEW o \in Orders, NEW g \in Gen,
           ~Live(o, g),
           row' = WithoutRow(o, g),
           UNCHANGED <<fate, gens>>,
           \A r \in Runners : Sending(r)' => /\ Sending(r) /\ cur'[r] = cur[r]
                                             /\ pc'[r] = "send" => pc[r] = "send",
           \A r \in Runners : pc'[r] = "send" =>
                <<cur[r].order, cur[r].gen>> # <<o, g>>,
           \A h \in Handlers : hpc'[h] # "idle" => hpc[h] # "idle" /\ hletter'[h] = hletter[h]
    PROVE  LetterInv'
<1>1. \A q \in Orders : /\ row'[q].gen = row[q].gen \/ row'[q].gen = 0
                        /\ row'[q].gen # row[q].gen => q = o /\ row[q].gen = g
  <2>1. row \in [Orders -> LogRows]
    BY DEF TypeOK
  <2>2. CASE row[o].gen = g
    <3>1. row' = [row EXCEPT ![o] = NoRow]
      BY <2>2 DEF WithoutRow
    <3>2. row'[o] = NoRow /\ \A q \in Orders : q # o => row'[q] = row[q]
      BY <2>1, <3>1
    <3>3. NoRow.gen = 0
      BY DEF NoRow
    <3>4. QED
      BY <2>2, <3>2, <3>3
  <2>3. CASE row[o].gen # g
    BY <2>3 DEF WithoutRow
  <2>4. QED
    BY <2>2, <2>3
<1>2. LiveRow'
  BY <1>1 DEF LetterInv, LiveRow, Live
<1>3. FreshGens'
  <2>1. \A q \in Orders : gens[q] \in Nat
    BY ConstantsAssumption DEF TypeOK
  <2>2. \A q \in Orders : row[q].gen <= gens[q]
    BY DEF LetterInv, FreshGens
  <2>3. \A q \in Orders : row'[q].gen <= gens[q]
    BY <1>1, <2>1, <2>2
  <2>4. QED
    BY <2>3, Zenon DEF LetterInv, FreshGens
<1>4. OwnLetter'
  <2>1. SUFFICES ASSUME NEW r \in Runners, Sending(r)'
                 PROVE  /\ fate[cur[r].order][cur[r].gen] = "none"
                        /\ cur[r].gen <= gens[cur[r].order]
                        /\ pc'[r] = "send" => row'[cur[r].order].gen = cur[r].gen
    BY DEF OwnLetter
  <2>2. Sending(r) /\ cur[r].order \in Orders
    BY <2>1 DEF TypeOK, Sending
  <2>3. QED
    BY <1>1, <2>1, <2>2 DEF LetterInv, OwnLetter
<1>5. OwnersDiffer'
  BY DEF LetterInv, OwnersDiffer
<1>6. TakesBackFailed'
  BY DEF LetterInv, TakesBackFailed
<1>7. QED
  BY <1>2, <1>3, <1>4, <1>5, <1>6 DEF LetterInv

\* The next three lemmas are the steps that do change letters.
LEMMA InsertStep ==
    ASSUME TypeOK, LetterInv, NEW r \in Runners, InsertLog(r)
    PROVE  LetterInv'
<1> USE ConstantsAssumption
<1> DEFINE o == cur[r].order
           g == gens[o] + 1
<1>1. /\ o \in Orders /\ gens[o] \in 0 .. MaxLetters /\ g \in Gen /\ row[o].gen = 0
      /\ \A q \in Orders : gens[q] \in Nat /\ row[q].gen \in Nat
  <2>1. o \in Orders
    BY DEF TypeOK, InsertLog
  <2>2. gens[o] \in 0 .. MaxLetters /\ gens[o] < MaxLetters
    BY <2>1 DEF TypeOK, InsertLog
  <2>3. \A q \in Orders : gens[q] \in Nat /\ row[q].gen \in Nat
    BY DEF TypeOK, LogRows, Gen
  <2>4. QED
    BY <2>1, <2>2, <2>3 DEF InsertLog, Gen
<1>2. /\ pc' = [pc EXCEPT ![r] = "send"]
      /\ cur'[r].order = o /\ cur'[r].gen = g
      /\ \A s \in Runners : s # r => cur'[s] = cur[s] /\ pc'[s] = pc[s]
      /\ pc'[r] = "send"
  BY DEF InsertLog, TypeOK, Works
<1>3. /\ row'[o].gen = g /\ gens'[o] = g
      /\ \A q \in Orders : q # o => row'[q] = row[q] /\ gens'[q] = gens[q]
      /\ fate' = fate /\ hpc' = hpc /\ hletter' = hletter
  BY <1>1 DEF InsertLog, TypeOK, handlerVars
<1>4. \A k \in Gen : ~Live(o, k)
  BY <1>1 DEF LetterInv, LiveRow, Gen
<1>5. fate[o][g] = "none"
  BY <1>1 DEF LetterInv, FreshGens
<1>6. LiveRow'
  BY <1>3, <1>4 DEF LetterInv, LiveRow, Live
<1>7. FreshGens'
  BY <1>1, <1>3 DEF LetterInv, FreshGens, Gen
<1>8. \A s \in Runners \ {r} : Sending(s) =>
        cur[s].order \in Orders /\ cur[s].gen \in Gen /\ cur[s].gen <= gens[cur[s].order]
  BY DEF LetterInv, OwnLetter, Sending, TypeOK
<1>9. OwnLetter'
  <2>1. SUFFICES ASSUME NEW s \in Runners, Sending(s)'
                 PROVE  /\ fate'[cur'[s].order][cur'[s].gen] = "none"
                        /\ cur'[s].gen <= gens'[cur'[s].order]
                        /\ pc'[s] = "send" => row'[cur'[s].order].gen = cur'[s].gen
    BY DEF OwnLetter
  <2>2. CASE s = r
    BY <2>2, <1>1, <1>2, <1>3, <1>5
  <2>3. CASE s # r
    <3>1. Sending(s) /\ cur'[s] = cur[s] /\ pc'[s] = pc[s]
      BY <2>1, <2>3, <1>2 DEF Sending
    <3>2. /\ fate[cur[s].order][cur[s].gen] = "none"
          /\ pc[s] = "send" => row[cur[s].order].gen = cur[s].gen
      BY <3>1 DEF LetterInv, OwnLetter
    <3>3. pc[s] = "send" => cur[s].order # o
      BY <3>1, <3>2, <2>3, <1>1, <1>8 DEF Gen
    <3>4. cur[s].gen <= gens'[cur[s].order]
      BY <3>1, <2>3, <1>1, <1>3, <1>8 DEF Gen
    <3>5. QED
      BY <3>1, <3>2, <3>3, <3>4, <2>3, <1>3, <1>8
  <2>4. QED
    BY <2>2, <2>3
<1>10. OwnersDiffer'
  <2>1. SUFFICES ASSUME NEW s \in Runners, NEW t \in Runners,
                        Sending(s)', Sending(t)', s # t
                 PROVE  <<cur'[s].order, cur'[s].gen>> # <<cur'[t].order, cur'[t].gen>>
    BY DEF OwnersDiffer
  <2>2. \A q \in Runners \ {r} : Sending(q)' =>
            Sending(q) /\ cur'[q] = cur[q] /\ (cur[q].order = o => cur[q].gen # g)
    BY <1>1, <1>2, <1>8 DEF Sending, Gen
  <2>3. CASE s # r /\ t # r
    BY <2>1, <2>2, <2>3 DEF LetterInv, OwnersDiffer
  <2>4. CASE s = r \/ t = r
    BY <2>1, <2>2, <2>4, <1>2
  <2>5. QED
    BY <2>3, <2>4
<1>11. TakesBackFailed'
  BY <1>3 DEF LetterInv, TakesBackFailed
<1>12. QED
  BY <1>6, <1>7, <1>9, <1>10, <1>11 DEF LetterInv

LEMMA AcceptStep ==
    ASSUME TypeOK, LetterInv, NEW r \in Runners, MailAccepted(r)
    PROVE  LetterInv'
<1> DEFINE o == cur[r].order
           g == cur[r].gen
<1>1. /\ o \in Orders /\ g \in Gen /\ Sending(r)
      /\ fate[o][g] = "none" /\ g <= gens[o] /\ row[o].gen = g
  BY DEF MailAccepted, TypeOK, LetterInv, OwnLetter, Sending
<1>2. /\ fate'[o][g] = "queued"
      /\ \A q \in Orders, k \in Gen : <<q, k>> # <<o, g>> => fate'[q][k] = fate[q][k]
      /\ row' = row /\ gens' = gens /\ cur' = cur /\ hpc' = hpc /\ hletter' = hletter
      /\ ~Sending(r)'
      /\ \A s \in Runners : s # r => pc'[s] = pc[s]
  BY <1>1 DEF MailAccepted, TypeOK, dbVars, handlerVars, Sending
<1>3. LiveRow'
  BY <1>1, <1>2 DEF LetterInv, LiveRow, Live
<1>4. FreshGens'
  <2>1. SUFFICES ASSUME NEW q \in Orders
                 PROVE  /\ row[q].gen <= gens[q]
                        /\ \A k \in Gen : k > gens[q] => fate'[q][k] = "none"
    BY <1>2 DEF FreshGens
  <2>2. /\ row[q].gen <= gens[q]
        /\ \A k \in Gen : k > gens[q] => fate[q][k] = "none"
    BY DEF LetterInv, FreshGens
  <2>3. \A k \in Gen : k > gens[q] => <<q, k>> # <<o, g>>
    BY <1>1 DEF TypeOK, Gen
  <2>4. QED
    BY <2>2, <2>3, <1>2
<1>5. OwnLetter'
  <2>1. SUFFICES ASSUME NEW s \in Runners, Sending(s)'
                 PROVE  /\ fate'[cur[s].order][cur[s].gen] = "none"
                        /\ cur[s].gen <= gens[cur[s].order]
                        /\ pc'[s] = "send" => row[cur[s].order].gen = cur[s].gen
    BY <1>2 DEF OwnLetter
  <2>2. s # r /\ Sending(s) /\ pc'[s] = pc[s]
    BY <2>1, <1>2 DEF Sending
  <2>3. cur[s].order \in Orders /\ cur[s].gen \in Gen
    BY <2>2 DEF TypeOK, Sending
  <2>4. <<cur[s].order, cur[s].gen>> # <<o, g>>
    BY <2>2, <1>1 DEF LetterInv, OwnersDiffer
  <2>5. QED
    BY <2>2, <2>3, <2>4, <1>2 DEF LetterInv, OwnLetter
<1>6. OwnersDiffer'
  BY <1>2 DEF LetterInv, OwnersDiffer, Sending
<1>7. TakesBackFailed'
  <2>1. SUFFICES ASSUME NEW h \in Handlers, hpc[h] # "idle"
                 PROVE  fate'[hletter[h].order][hletter[h].gen] = "failed"
    BY <1>2 DEF TakesBackFailed
  <2>2. hletter[h].order \in Orders /\ hletter[h].gen \in Gen
    BY <2>1 DEF TypeOK, Letters
  <2>3. fate[hletter[h].order][hletter[h].gen] = "failed"
    BY <2>1 DEF LetterInv, TakesBackFailed
  <2>4. QED
    BY <2>2, <2>3, <1>1, <1>2
<1>8. QED
  BY <1>3, <1>4, <1>5, <1>6, <1>7 DEF LetterInv

\* The service decides the fate of a letter it holds.
LEMMA FateStep ==
    ASSUME TypeOK, LetterInv, NEW o \in Orders, NEW g \in Gen,
           Live(o, g), NEW f \in {"sent", "failed"},
           fate' = [fate EXCEPT ![o][g] = f],
           UNCHANGED <<row, gens, pc, cur, hpc, hletter>>
    PROVE  LetterInv'
<1>1. /\ fate'[o][g] = f
      /\ \A q \in Orders, k \in Gen : <<q, k>> # <<o, g>> => fate'[q][k] = fate[q][k]
  BY DEF TypeOK
<1>2. LiveRow'
  BY <1>1 DEF LetterInv, LiveRow, Live
<1>3. FreshGens'
  BY <1>1 DEF LetterInv, FreshGens, Live
<1>4. OwnLetter'
  <2>1. SUFFICES ASSUME NEW s \in Runners, Sending(s)
                 PROVE  fate'[cur[s].order][cur[s].gen] = "none"
    BY DEF OwnLetter, LetterInv, Sending
  <2>2. cur[s].order \in Orders /\ cur[s].gen \in Gen
    BY <2>1 DEF TypeOK, Sending
  <2>3. fate[cur[s].order][cur[s].gen] = "none"
    BY <2>1 DEF LetterInv, OwnLetter
  <2>4. QED
    BY <2>2, <2>3, <1>1 DEF Live
<1>5. OwnersDiffer'
  BY DEF LetterInv, OwnersDiffer, Sending
<1>6. TakesBackFailed'
  <2>1. SUFFICES ASSUME NEW h \in Handlers, hpc[h] # "idle"
                 PROVE  fate'[hletter[h].order][hletter[h].gen] = "failed"
    BY DEF TakesBackFailed
  <2>2. hletter[h].order \in Orders /\ hletter[h].gen \in Gen
    BY <2>1 DEF TypeOK, Letters
  <2>3. fate[hletter[h].order][hletter[h].gen] = "failed"
    BY <2>1 DEF LetterInv, TakesBackFailed
  <2>4. QED
    BY <2>2, <2>3, <1>1 DEF Live
<1>7. QED
  BY <1>2, <1>3, <1>4, <1>5, <1>6 DEF LetterInv

\* Every step keeps the invariant, provided no reply of the service is lost.
LEMMA NextLetterInv == ~LostReplies /\ TypeOK /\ LetterInv /\ [Next]_vars => LetterInv'
<1> SUFFICES ASSUME ~LostReplies, TypeOK, LetterInv, [Next]_vars PROVE LetterInv'
  OBVIOUS
<1>1. ASSUME NEW o \in Orders, NEW s \in {"open", "cancelled"}, FeedOrder(o, s) PROVE LetterInv'
  BY <1>1, QuietStep DEF FeedOrder, runnerVars, handlerVars, Sending
<1>2. ASSUME NEW o \in Orders, PostOrder(o) PROVE LetterInv'
  BY <1>2, QuietStep DEF PostOrder, runnerVars, handlerVars, Sending
<1>3. ASSUME NEW o \in Orders, Enqueue(o) PROVE LetterInv'
  BY <1>3, QuietStep DEF Enqueue, runnerVars, handlerVars, Sending
<1>4. ASSUME NEW o \in Orders, IntakeDies(o) PROVE LetterInv'
  BY <1>4, QuietStep DEF IntakeDies, runnerVars, handlerVars, Sending
<1>5. ASSUME NEW o \in Orders, Ripen(o) PROVE LetterInv'
  BY <1>5, QuietStep DEF Ripen, runnerVars, handlerVars, Sending
<1>6. ASSUME NEW o \in Orders, NEW g \in Gen, ServiceDelivers(o, g) PROVE LetterInv'
  <2>1. /\ Live(o, g) /\ fate' = [fate EXCEPT ![o][g] = "sent"]
        /\ UNCHANGED <<row, gens, pc, cur, hpc, hletter>>
    BY <1>6 DEF ServiceDelivers, Live, dbVars, runnerVars, handlerVars
  <2>2. QED
    BY <2>1, FateStep
<1>7. ASSUME NEW o \in Orders, NEW g \in Gen, ServiceGivesUp(o, g) PROVE LetterInv'
  <2>1. /\ Live(o, g) /\ fate' = [fate EXCEPT ![o][g] = "failed"]
        /\ UNCHANGED <<row, gens, pc, cur, hpc, hletter>>
    BY <1>7 DEF ServiceGivesUp, Live, dbVars, runnerVars, handlerVars
  <2>2. QED
    BY <2>1, FateStep
<1>8. ASSUME NEW o \in Orders, NEW g \in Gen, SentCallback(o, g) PROVE LetterInv'
  <2>1. \A q \in Orders : row'[q].gen = row[q].gen
    BY <1>8 DEF SentCallback, TypeOK, LogRows
  <2>2. QED
    BY <1>8, <2>1, QuietStep DEF SentCallback, runnerVars, handlerVars, Sending
<1>9. ASSUME NEW r \in Runners, BeginTick(r) PROVE LetterInv'
  BY <1>9, QuietStep DEF BeginTick, TypeOK, dbVars, handlerVars, Sending
<1>10. ASSUME NEW r \in Runners, EndTick(r) PROVE LetterInv'
  BY <1>10, QuietStep DEF EndTick, TypeOK, dbVars, handlerVars, Sending
<1>11. ASSUME NEW r \in Runners, Check(r) PROVE LetterInv'
  <2>1. /\ pc'[r] \in {"fail", "cancel", "defer", "insert"}
        /\ \A s \in Runners : s # r => pc'[s] = pc[s] /\ cur'[s] = cur[s]
    BY <1>11 DEF Check, Verdicts, TypeOK
  <2>2. QED
    BY <1>11, <2>1, QuietStep DEF Check, dbVars, handlerVars, Sending
<1>12. ASSUME NEW r \in Runners, Finish(r) PROVE LetterInv'
  BY <1>12, QuietStep DEF Finish, TypeOK, handlerVars, Sending
<1>13. ASSUME NEW r \in Runners, Defer(r) PROVE LetterInv'
  BY <1>13, QuietStep DEF Defer, TypeOK, handlerVars, Sending
<1>14. ASSUME NEW r \in Runners, InsertLog(r) PROVE LetterInv'
  BY <1>14, InsertStep
<1>15. ASSUME NEW r \in Runners, InsertRefused(r) PROVE LetterInv'
  BY <1>15, QuietStep DEF InsertRefused, TypeOK, dbVars, handlerVars, Sending
<1>16. ASSUME NEW r \in Runners, MailAccepted(r) PROVE LetterInv'
  BY <1>16, AcceptStep
<1>17. ASSUME NEW r \in Runners, MailRefused(r) PROVE LetterInv'
  BY <1>17, QuietStep DEF MailRefused, TypeOK, dbVars, handlerVars, Sending
<1>18. ASSUME NEW r \in Runners, ReplyLost(r) PROVE LetterInv'
  BY <1>18 DEF ReplyLost
<1>19. ASSUME NEW r \in Runners, Undo(r) PROVE LetterInv'
  <2> DEFINE o == cur[r].order
             g == cur[r].gen
  <2>1. o \in Orders /\ g \in Gen /\ ~Live(o, g)
    BY <1>19 DEF Undo, TypeOK, LetterInv, OwnLetter, Sending, Live
  <2>2. /\ row' = WithoutRow(o, g)
        /\ UNCHANGED <<fate, gens, cur, hpc, hletter>>
        /\ pc'[r] = "bump" /\ \A s \in Runners : s # r => pc'[s] = pc[s]
    BY <1>19 DEF Undo, TypeOK, handlerVars
  <2>3. \A s \in Runners : pc'[s] = "send" => <<cur[s].order, cur[s].gen>> # <<o, g>>
    BY <1>19, <2>2 DEF Undo, LetterInv, OwnersDiffer, Sending
  <2>4. QED
    BY <2>1, <2>2, <2>3, DeleteStep DEF Sending
<1>20. ASSUME NEW r \in Runners, Bump(r) PROVE LetterInv'
  BY <1>20, QuietStep DEF Bump, TypeOK, handlerVars, Sending
<1>21. ASSUME NEW r \in Runners, Close(r) PROVE LetterInv'
  <2>1. \A q \in Orders : row'[q].gen = row[q].gen
    BY <1>21 DEF Close, TypeOK, LogRows
  <2>2. pc'[r] = "loop" /\ \A s \in Runners : s # r => pc'[s] = pc[s] /\ cur'[s] = cur[s]
    BY <1>21 DEF Close, TypeOK
  <2>3. QED
    BY <1>21, <2>1, <2>2, QuietStep DEF Close, handlerVars, Sending
<1>22. ASSUME NEW r \in Runners, Raises(r) PROVE LetterInv'
  BY <1>22, QuietStep DEF Raises, TypeOK, dbVars, handlerVars, Sending
<1>23. ASSUME NEW r \in Runners, RunnerDies(r) PROVE LetterInv'
  BY <1>23, QuietStep DEF RunnerDies, TypeOK, dbVars, handlerVars, Sending
<1>24. ASSUME NEW h \in Handlers, FailedCallback(h) PROVE LetterInv'
  <2>1. PICK l \in Letters :
          /\ fate[l.order][l.gen] = "failed"
          /\ hletter' = [hletter EXCEPT ![h] = l]
          /\ row' = IF row[l.order].gen = l.gen
                    THEN [row EXCEPT ![l.order].status = "failed"]
                    ELSE row
    BY <1>24 DEF FailedCallback
  <2>2. \A q \in Orders : row'[q].gen = row[q].gen
    BY <2>1 DEF TypeOK, LogRows
  <2>3. hletter'[h] = l /\ \A k \in Handlers : k # h => hpc'[k] = hpc[k] /\ hletter'[k] = hletter[k]
    BY <1>24, <2>1 DEF FailedCallback, TypeOK
  <2>4. QED
    BY <1>24, <2>1, <2>2, <2>3, QuietStep DEF FailedCallback, runnerVars, Sending
<1>25. ASSUME NEW h \in Handlers, ReadLog(h) PROVE LetterInv'
  BY <1>25, QuietStep DEF ReadLog, HandlerEnds, TypeOK, dbVars, runnerVars, Sending
<1>26. ASSUME NEW h \in Handlers, ResetTimers(h) PROVE LetterInv'
  BY <1>26, QuietStep DEF ResetTimers, HandlerEnds, TypeOK, dbVars, runnerVars, Sending
<1>27. ASSUME NEW h \in Handlers, Reschedule(h) PROVE LetterInv'
  BY <1>27, QuietStep DEF Reschedule, HandlerEnds, TypeOK, dbVars, runnerVars, Sending
<1>28. ASSUME NEW h \in Handlers, DeleteFailed(h) PROVE LetterInv'
  <2> DEFINE o == hletter[h].order
             g == hletter[h].gen
  <2>1. o \in Orders /\ g \in Gen /\ fate[o][g] = "failed"
    BY <1>28 DEF DeleteFailed, TypeOK, Letters, LetterInv, TakesBackFailed
  <2>2. /\ row' = WithoutRow(o, g)
        /\ UNCHANGED <<fate, gens, cur, pc>>
        /\ hpc'[h] = "idle"
        /\ \A k \in Handlers : k # h => hpc'[k] = hpc[k] /\ hletter'[k] = hletter[k]
    BY <1>28 DEF DeleteFailed, HandlerEnds, TypeOK, runnerVars
  <2>3. \A s \in Runners : pc'[s] = "send" => <<cur[s].order, cur[s].gen>> # <<o, g>>
    BY <2>1, <2>2 DEF LetterInv, OwnLetter, Sending
  <2>4. QED
    BY <2>1, <2>2, <2>3, DeleteStep DEF Sending, Live
<1>29. ASSUME NEW h \in Handlers, HandlerDies(h) PROVE LetterInv'
  BY <1>29, QuietStep DEF HandlerDies, HandlerEnds, TypeOK, dbVars, runnerVars, Sending
<1>30. ASSUME NEW u \in Users, OtherScenarioSends(u) \/ OtherScenarioFails(u) PROVE LetterInv'
  BY <1>30, QuietStep DEF OtherScenarioSends, OtherScenarioFails, runnerVars, handlerVars, Sending
<1>31. ASSUME NEW u \in Users, NEW m \in BOOLEAN, SetMailable(u, m) PROVE LetterInv'
  BY <1>31, QuietStep DEF SetMailable, runnerVars, handlerVars, Sending
<1>32. ASSUME NextDay PROVE LetterInv'
  BY <1>32, QuietStep DEF NextDay, runnerVars, handlerVars, Sending
<1>33. CASE UNCHANGED vars
  BY <1>33, QuietStep DEF vars, dbVars, runnerVars, handlerVars, Sending
<1>34. QED
  BY <1>1, <1>2, <1>3, <1>4, <1>5, <1>6, <1>7, <1>8, <1>9, <1>10, <1>11, <1>12,
     <1>13, <1>14, <1>15, <1>16, <1>17, <1>18, <1>19, <1>20, <1>21, <1>22, <1>23,
     <1>24, <1>25, <1>26, <1>27, <1>28, <1>29, <1>30, <1>31, <1>32, <1>33
     DEF Next, Tick, Webhook

LEMMA LetterInvImplies == TypeOK /\ LetterInv => OneLiveLetter
  BY DEF LetterInv, LiveRow, OneLiveLetter, Live

\* "One letter per order" holds whatever the number of concurrent ticks, of
\* retries, of failure callbacks and of crashes, as long as a refusal of the
\* mail service means that it does not have the letter.  With lost replies it
\* fails: the run PostsaleLostReply shows how.
THEOREM OneLetterPerOrder == ASSUME ~LostReplies PROVE Spec => []OneLiveLetter
<1>1. Init => TypeOK /\ LetterInv
  BY InitTypeOK, InitLetterInv
<1>2. TypeOK /\ LetterInv /\ [Next]_vars => (TypeOK /\ LetterInv)'
  BY NextTypeOK, NextLetterInv
<1>3. TypeOK /\ LetterInv => OneLiveLetter
  BY LetterInvImplies
<1>4. QED
  BY <1>1, <1>2, <1>3, PTL DEF Spec

-----------------------------------------------------------------------------
(***************************************************************************)
(* A sent job has its letter: what the closing transaction records stays true *)
(* through the callbacks, the deletions and the ticks that follow it.      *)
(***************************************************************************)

\* A runner with a log row of its own.
Holds(r) == pc[r] \in {"send", "undo", "close"}

\* whose letter has a row, and is unseen until it is handed over
HeldLetters ==
    \A r \in Runners : Holds(r) =>
        /\ cur[r].gen <= gens[cur[r].order]
        /\ pc[r] = "send" => /\ fate[cur[r].order][cur[r].gen] = "none"
                             /\ row[cur[r].order].gen = cur[r].gen

\* no two runners hold the same letter
HoldersDiffer ==
    \A r, s \in Runners : Holds(r) /\ Holds(s) /\ r # s
        => <<cur[r].order, cur[r].gen>> # <<cur[s].order, cur[s].gen>>

\* a letter that was handed over and is in the log, or has failed
Logged(o, g) == /\ fate[o][g] # "none"
                /\ row[o].gen = g \/ fate[o][g] = "failed"

CloseIsLogged == \A r \in Runners : pc[r] = "close" => Logged(cur[r].order, cur[r].gen)

\* a sent job has a logged letter, whose row no runner is going to take back
Undoing(o, g) ==
    \E r \in Runners : pc[r] \in {"send", "undo"} /\ cur[r].order = o /\ cur[r].gen = g

SentIsLogged ==
    \A o \in Orders : job[o].state = "sent" =>
        \E g \in Gen : Logged(o, g) /\ ~Undoing(o, g)

ClosingInv ==
    FreshGens /\ HeldLetters /\ HoldersDiffer /\ TakesBackFailed /\ CloseIsLogged /\ SentIsLogged

LEMMA InitClosingInv == Init => ClosingInv
  BY ConstantsAssumption
     DEF Init, ClosingInv, FreshGens, HeldLetters, HoldersDiffer, TakesBackFailed,
         CloseIsLogged, SentIsLogged, Holds, NoRow, Gen

\* A step that changes no letter and no log row, starts no send and closes no
\* job, keeps the invariant.
LEMMA QuietClosing ==
    ASSUME ClosingInv, TypeOK,
           UNCHANGED <<fate, gens>>,
           \A o \in Orders : row'[o].gen = row[o].gen,
           \A o \in Orders : job'[o].state = "sent" => job[o].state = "sent",
           \A r \in Runners : Holds(r)' =>
                /\ Holds(r) /\ cur'[r] = cur[r]
                /\ pc'[r] = pc[r] \/ (pc[r] = "send" /\ pc'[r] = "undo"),
           \A h \in Handlers : hpc'[h] # "idle" =>
                \/ hpc[h] # "idle" /\ hletter'[h] = hletter[h]
                \/ fate[hletter'[h].order][hletter'[h].gen] = "failed"
    PROVE  ClosingInv'
<1>1. \A r \in Runners : Holds(r) => cur[r].order \in Orders /\ cur[r].gen \in Gen
  BY DEF Holds, TypeOK
<1>2. FreshGens'
  BY DEF ClosingInv, FreshGens
<1>3. HeldLetters'
  BY <1>1 DEF ClosingInv, HeldLetters
<1>4. HoldersDiffer'
  BY DEF ClosingInv, HoldersDiffer
<1>5. TakesBackFailed'
  BY DEF ClosingInv, TakesBackFailed
<1>6. CloseIsLogged'
  BY <1>1 DEF ClosingInv, CloseIsLogged, Logged, Holds
<1>7. SentIsLogged'
  <2>1. \A o \in Orders, g \in Gen : Undoing(o, g)' => Undoing(o, g)
    BY DEF Undoing, Holds
  <2>2. \A o \in Orders, g \in Gen : Logged(o, g) => Logged(o, g)'
    BY DEF Logged
  <2>3. QED
    BY <2>1, <2>2 DEF ClosingInv, SentIsLogged
<1>8. QED
  BY <1>2, <1>3, <1>4, <1>5, <1>6, <1>7 DEF ClosingInv

\* Deleting the row of a failed letter, or the row a runner takes back, keeps it.
LEMMA DeleteClosing ==
    ASSUME ClosingInv, TypeOK,
           NEW o \in Orders, NEW g \in Gen,
           fate[o][g] = "failed" \/ Undoing(o, g),
           row' = WithoutRow(o, g),
           UNCHANGED <<fate, gens, job, cur>>,
           \A r \in Runners : Holds(r)' => Holds(r) /\ pc'[r] = pc[r],
           \A h \in Handlers : hpc'[h] # "idle" => hpc[h] # "idle" /\ hletter'[h] = hletter[h],
           \A r \in Runners : Holds(r)' => fate[o][g] = "failed"
                                \/ <<cur[r].order, cur[r].gen>> # <<o, g>>
    PROVE  ClosingInv'
<1>1. \A r \in Runners : Holds(r) => cur[r].order \in Orders /\ cur[r].gen \in Gen
  BY DEF Holds, TypeOK
<1>2. \A q \in Orders : /\ row'[q].gen = row[q].gen \/ row'[q].gen = 0
                        /\ row'[q].gen # row[q].gen => q = o /\ row[q].gen = g
  BY DEF WithoutRow, TypeOK, NoRow
<1>3. FreshGens'
  BY <1>2 DEF ClosingInv, FreshGens, TypeOK
<1>4. HeldLetters'
  <2>1. SUFFICES ASSUME NEW r \in Runners, Holds(r)'
                 PROVE  /\ cur[r].gen <= gens[cur[r].order]
                        /\ pc'[r] = "send" => /\ fate[cur[r].order][cur[r].gen] = "none"
                                              /\ row'[cur[r].order].gen = cur[r].gen
    BY DEF HeldLetters
  <2>2. Holds(r) /\ pc'[r] = pc[r]
    BY <2>1
  <2>3. QED
    BY <1>1, <1>2, <2>1, <2>2 DEF ClosingInv, HeldLetters
<1>5. HoldersDiffer'
  BY DEF ClosingInv, HoldersDiffer
<1>6. TakesBackFailed'
  BY DEF ClosingInv, TakesBackFailed
<1>7. CloseIsLogged'
  <2>1. SUFFICES ASSUME NEW r \in Runners, pc'[r] = "close"
                 PROVE  Logged(cur[r].order, cur[r].gen)'
    BY DEF CloseIsLogged
  <2>2. Holds(r)' /\ pc[r] = "close" /\ Logged(cur[r].order, cur[r].gen)
    BY <2>1 DEF Holds, ClosingInv, CloseIsLogged
  <2>3. QED
    BY <1>1, <1>2, <2>2 DEF Logged, Holds
<1>8. SentIsLogged'
  <2>1. SUFFICES ASSUME NEW q \in Orders, job[q].state = "sent"
                 PROVE  \E k \in Gen : Logged(q, k)' /\ ~Undoing(q, k)'
    BY DEF SentIsLogged
  <2>2. PICK k \in Gen : Logged(q, k) /\ ~Undoing(q, k)
    BY <2>1 DEF ClosingInv, SentIsLogged
  <2>3. ~Undoing(q, k)'
    BY <2>2 DEF Undoing, Holds
  <2>4. Logged(q, k)'
    BY <1>2, <2>2 DEF Logged
  <2>5. QED
    BY <2>3, <2>4
<1>9. QED
  BY <1>3, <1>4, <1>5, <1>6, <1>7, <1>8 DEF ClosingInv

LEMMA InsertClosing ==
    ASSUME TypeOK, ClosingInv, NEW r \in Runners, InsertLog(r)
    PROVE  ClosingInv'
<1> USE ConstantsAssumption
<1> DEFINE o == cur[r].order
           g == gens[o] + 1
<1>1. /\ o \in Orders /\ gens[o] \in 0 .. MaxLetters /\ g \in Gen /\ row[o].gen = 0
      /\ \A q \in Orders : gens[q] \in Nat /\ row[q].gen \in Nat
  <2>1. o \in Orders
    BY DEF TypeOK, InsertLog
  <2>2. gens[o] \in 0 .. MaxLetters /\ gens[o] < MaxLetters
    BY <2>1 DEF TypeOK, InsertLog
  <2>3. \A q \in Orders : gens[q] \in Nat /\ row[q].gen \in Nat
    BY DEF TypeOK, LogRows, Gen
  <2>4. QED
    BY <2>1, <2>2, <2>3 DEF InsertLog, Gen
<1>2. /\ cur'[r].order = o /\ cur'[r].gen = g /\ pc'[r] = "send"
      /\ \A s \in Runners : s # r => cur'[s] = cur[s] /\ pc'[s] = pc[s]
  BY DEF InsertLog, TypeOK, Works
<1>3. /\ row'[o].gen = g /\ gens'[o] = g
      /\ \A q \in Orders : q # o => row'[q] = row[q] /\ gens'[q] = gens[q]
      /\ fate' = fate /\ hpc' = hpc /\ hletter' = hletter /\ job' = job
  BY <1>1 DEF InsertLog, TypeOK, handlerVars
<1>4. fate[o][g] = "none"
  BY <1>1 DEF ClosingInv, FreshGens
<1>5. FreshGens'
  BY <1>1, <1>3 DEF ClosingInv, FreshGens, Gen
<1>6. \A s \in Runners \ {r} : Holds(s) =>
        cur[s].order \in Orders /\ cur[s].gen \in Gen /\ cur[s].gen <= gens[cur[s].order]
  BY DEF ClosingInv, HeldLetters, Holds, TypeOK
<1>7. \A s \in Runners : s # r => (Holds(s)' => Holds(s))
  BY <1>2 DEF Holds
<1>8. HeldLetters'
  <2>1. SUFFICES ASSUME NEW s \in Runners, Holds(s)'
                 PROVE  /\ cur'[s].gen <= gens'[cur'[s].order]
                        /\ pc'[s] = "send" => /\ fate'[cur'[s].order][cur'[s].gen] = "none"
                                              /\ row'[cur'[s].order].gen = cur'[s].gen
    BY DEF HeldLetters
  <2>2. CASE s = r
    BY <2>2, <1>1, <1>2, <1>3, <1>4
  <2>3. CASE s # r
    <3>1. Holds(s) /\ cur'[s] = cur[s] /\ pc'[s] = pc[s]
      BY <2>1, <2>3, <1>2, <1>7
    <3>2. pc[s] = "send" => /\ fate[cur[s].order][cur[s].gen] = "none"
                            /\ row[cur[s].order].gen = cur[s].gen
      BY <3>1 DEF ClosingInv, HeldLetters
    <3>3. pc[s] = "send" => cur[s].order # o
      BY <3>1, <3>2, <2>3, <1>1, <1>6 DEF Gen
    <3>4. cur[s].gen <= gens'[cur[s].order]
      BY <3>1, <2>3, <1>1, <1>3, <1>6 DEF Gen
    <3>5. QED
      BY <3>1, <3>2, <3>3, <3>4, <2>3, <1>3, <1>6
  <2>4. QED
    BY <2>2, <2>3
<1>9. HoldersDiffer'
  <2>1. SUFFICES ASSUME NEW s \in Runners, NEW t \in Runners, Holds(s)', Holds(t)', s # t
                 PROVE  <<cur'[s].order, cur'[s].gen>> # <<cur'[t].order, cur'[t].gen>>
    BY DEF HoldersDiffer
  <2>2. \A q \in Runners \ {r} : Holds(q)' =>
            Holds(q) /\ cur'[q] = cur[q] /\ (cur[q].order = o => cur[q].gen # g)
    BY <1>1, <1>2, <1>6, <1>7 DEF Gen
  <2>3. CASE s # r /\ t # r
    BY <2>1, <2>2, <2>3 DEF ClosingInv, HoldersDiffer
  <2>4. CASE s = r \/ t = r
    BY <2>1, <2>2, <2>4, <1>2
  <2>5. QED
    BY <2>3, <2>4
<1>10. TakesBackFailed'
  BY <1>3 DEF ClosingInv, TakesBackFailed
<1>11. \A q \in Orders, k \in Gen : Logged(q, k) => Logged(q, k)' /\ <<q, k>> # <<o, g>>
  BY <1>1, <1>3, <1>4 DEF Logged, Gen
<1>12. CloseIsLogged'
  <2>1. SUFFICES ASSUME NEW s \in Runners, pc'[s] = "close"
                 PROVE  Logged(cur[s].order, cur[s].gen)' /\ cur'[s] = cur[s]
    BY <1>2 DEF CloseIsLogged, Logged
  <2>2. s # r /\ pc[s] = "close" /\ cur'[s] = cur[s]
    BY <2>1, <1>2
  <2>3. Logged(cur[s].order, cur[s].gen) /\ cur[s].order \in Orders /\ cur[s].gen \in Gen
    BY <2>2, <1>6 DEF ClosingInv, CloseIsLogged, Holds
  <2>4. Logged(cur[s].order, cur[s].gen)'
    BY <2>2, <2>3, <1>1, <1>3, <1>4 DEF Logged, Gen
  <2>5. QED
    BY <2>2, <2>4
<1>13. SentIsLogged'
  <2>1. SUFFICES ASSUME NEW q \in Orders, job[q].state = "sent"
                 PROVE  \E k \in Gen : Logged(q, k)' /\ ~Undoing(q, k)'
    BY <1>3 DEF SentIsLogged
  <2>2. PICK k \in Gen : Logged(q, k) /\ ~Undoing(q, k)
    BY <2>1 DEF ClosingInv, SentIsLogged
  <2>3. ~Undoing(q, k)'
    BY <2>2, <1>2, <1>11 DEF Undoing
  <2>4. QED
    BY <2>2, <2>3, <1>11
<1>14. QED
  BY <1>5, <1>8, <1>9, <1>10, <1>12, <1>13 DEF ClosingInv

\* The service takes the letter; the runner may or may not learn of it.
LEMMA HandOverClosing ==
    ASSUME TypeOK, ClosingInv, NEW r \in Runners, MailAccepted(r) \/ ReplyLost(r)
    PROVE  ClosingInv'
<1> DEFINE o == cur[r].order
           g == cur[r].gen
<1>1. pc[r] = "send" /\ Holds(r)
  BY DEF MailAccepted, ReplyLost, Holds
<1>2. o \in Orders /\ g \in Gen /\ fate[o][g] = "none" /\ g <= gens[o] /\ row[o].gen = g
  BY <1>1 DEF TypeOK, ClosingInv, HeldLetters
<1>3. /\ fate'[o][g] = "queued"
      /\ \A q \in Orders, k \in Gen : <<q, k>> # <<o, g>> => fate'[q][k] = fate[q][k]
      /\ row' = row /\ gens' = gens /\ cur' = cur /\ hpc' = hpc /\ hletter' = hletter
      /\ job' = job
      /\ pc'[r] \in {"close", "undo"}
      /\ \A s \in Runners : s # r => pc'[s] = pc[s]
  <2>1. /\ fate' = [fate EXCEPT ![o][g] = "queued"]
        /\ pc' = [pc EXCEPT ![r] = "close"] \/ pc' = [pc EXCEPT ![r] = "undo"]
        /\ UNCHANGED <<row, gens, cur, hpc, hletter, job>>
    BY Zenon DEF MailAccepted, ReplyLost, dbVars, handlerVars
  <2>2. fate \in [Orders -> [Gen -> Fates]] /\ pc \in [Runners -> RunnerStages]
    BY DEF TypeOK
  <2>3. /\ fate'[o][g] = "queued"
        /\ \A q \in Orders, k \in Gen : <<q, k>> # <<o, g>> => fate'[q][k] = fate[q][k]
    <3>1. /\ \A q \in Orders : q # o => fate'[q] = fate[q]
          /\ fate'[o] = [fate[o] EXCEPT ![g] = "queued"]
      BY <1>2, <2>1, <2>2
    <3>2. fate[o] \in [Gen -> Fates]
      BY <1>2, <2>2
    <3>3. fate'[o][g] = "queued" /\ \A k \in Gen : k # g => fate'[o][k] = fate[o][k]
      BY <1>2, <3>1, <3>2
    <3>4. QED
      BY <3>1, <3>3
  <2>4. QED
    BY <2>1, <2>2, <2>3
<1>4. \A s \in Runners : Holds(s)' => Holds(s) /\ cur[s].order \in Orders /\ cur[s].gen \in Gen
  BY <1>1, <1>3 DEF Holds, TypeOK
<1>5. FreshGens'
  <2>1. g \in Nat /\ gens[o] \in Nat /\ ~(g > gens[o])
    BY <1>2, ConstantsAssumption DEF TypeOK, Gen
  <2>2. FreshGens
    BY DEF ClosingInv
  <2>3. \A q \in Orders, k \in Gen : k > gens[q] => fate'[q][k] = "none"
    BY <1>3, <2>1, <2>2 DEF FreshGens
  <2>4. QED
    BY <1>3, <2>2, <2>3 DEF FreshGens
<1>6. HeldLetters'
  <2>1. SUFFICES ASSUME NEW s \in Runners, Holds(s)'
                 PROVE  /\ cur[s].gen <= gens[cur[s].order]
                        /\ pc'[s] = "send" => /\ fate'[cur[s].order][cur[s].gen] = "none"
                                              /\ row[cur[s].order].gen = cur[s].gen
    BY <1>3 DEF HeldLetters
  <2>2. pc'[s] = "send" => s # r /\ pc[s] = "send" /\ <<cur[s].order, cur[s].gen>> # <<o, g>>
    BY <1>1, <1>3, <1>4 DEF ClosingInv, HoldersDiffer, Holds
  <2>3. QED
    BY <2>1, <2>2, <1>3, <1>4 DEF ClosingInv, HeldLetters
<1>7. HoldersDiffer'
  BY <1>3, <1>4 DEF ClosingInv, HoldersDiffer
<1>8. TakesBackFailed'
  <2>1. SUFFICES ASSUME NEW h \in Handlers, hpc[h] # "idle"
                 PROVE  fate'[hletter[h].order][hletter[h].gen] = "failed"
    BY <1>3 DEF TakesBackFailed
  <2>2. hletter[h].order \in Orders /\ hletter[h].gen \in Gen
    BY <2>1 DEF TypeOK, Letters
  <2>3. fate[hletter[h].order][hletter[h].gen] = "failed"
    BY <2>1 DEF ClosingInv, TakesBackFailed
  <2>4. QED
    BY <2>2, <2>3, <1>2, <1>3
<1>9. \A q \in Orders, k \in Gen : Logged(q, k) => Logged(q, k)' /\ <<q, k>> # <<o, g>>
  BY <1>2, <1>3 DEF Logged
<1>10. CloseIsLogged'
  <2>1. SUFFICES ASSUME NEW s \in Runners, pc'[s] = "close"
                 PROVE  fate'[cur[s].order][cur[s].gen] # "none" /\
                        (row[cur[s].order].gen = cur[s].gen
                           \/ fate'[cur[s].order][cur[s].gen] = "failed")
    BY <1>3 DEF CloseIsLogged, Logged
  <2>2. CASE s = r
    BY <2>2, <1>2, <1>3
  <2>3. CASE s # r
    <3>1. pc[s] = "close" /\ cur[s].order \in Orders /\ cur[s].gen \in Gen
      BY <2>1, <2>3, <1>3, <1>4 DEF Holds
    <3>2. Logged(cur[s].order, cur[s].gen)
      BY <3>1 DEF ClosingInv, CloseIsLogged
    <3>3. QED
      BY <3>1, <3>2, <1>2, <1>3 DEF Logged
  <2>4. QED
    BY <2>2, <2>3
<1>11. SentIsLogged'
  <2>1. SUFFICES ASSUME NEW q \in Orders, job[q].state = "sent"
                 PROVE  \E k \in Gen : Logged(q, k)' /\ ~Undoing(q, k)'
    BY <1>3 DEF SentIsLogged
  <2>2. PICK k \in Gen : Logged(q, k) /\ ~Undoing(q, k)
    BY <2>1 DEF ClosingInv, SentIsLogged
  <2>3. ~Undoing(q, k)'
    BY <2>2, <1>1, <1>3 DEF Undoing
  <2>4. QED
    BY <2>2, <2>3, <1>9
<1>12. QED
  BY <1>5, <1>6, <1>7, <1>8, <1>10, <1>11 DEF ClosingInv

\* The service decides the fate of a letter it holds.
LEMMA FateClosing ==
    ASSUME TypeOK, ClosingInv, NEW o \in Orders, NEW g \in Gen,
           Live(o, g), NEW f \in {"sent", "failed"},
           fate' = [fate EXCEPT ![o][g] = f],
           UNCHANGED <<row, gens, pc, cur, hpc, hletter, job>>
    PROVE  ClosingInv'
<1>1. /\ fate'[o][g] = f
      /\ \A q \in Orders, k \in Gen : <<q, k>> # <<o, g>> => fate'[q][k] = fate[q][k]
  BY DEF TypeOK
<1>2. \A s \in Runners : Holds(s) => cur[s].order \in Orders /\ cur[s].gen \in Gen
  BY DEF Holds, TypeOK
<1>3. \A q \in Orders, k \in Gen : /\ fate'[q][k] = "none" <=> fate[q][k] = "none"
                                   /\ fate[q][k] = "failed" => fate'[q][k] = "failed"
  BY <1>1 DEF Live
<1>4. FreshGens'
  BY <1>3 DEF ClosingInv, FreshGens
<1>5. HeldLetters' /\ HoldersDiffer'
  BY <1>2, <1>3 DEF ClosingInv, HeldLetters, HoldersDiffer, Holds
<1>6. TakesBackFailed'
  <2>1. \A h \in Handlers : hpc[h] # "idle" => hletter[h].order \in Orders /\ hletter[h].gen \in Gen
    BY DEF TypeOK, Letters
  <2>2. QED
    BY <2>1, <1>3 DEF ClosingInv, TakesBackFailed
<1>7. CloseIsLogged'
  BY <1>2, <1>3 DEF ClosingInv, CloseIsLogged, Logged, Holds
<1>8. SentIsLogged'
  BY <1>3 DEF ClosingInv, SentIsLogged, Logged, Undoing
<1>9. QED
  BY <1>4, <1>5, <1>6, <1>7, <1>8 DEF ClosingInv

\* The closing transaction: the job is sent for the letter the runner holds.
LEMMA CloseClosing ==
    ASSUME TypeOK, ClosingInv, NEW r \in Runners, Close(r)
    PROVE  ClosingInv'
<1> DEFINE o == cur[r].order
           g == cur[r].gen
<1>1. /\ o \in Orders /\ g \in Gen /\ pc[r] = "close" /\ Holds(r)
      /\ Logged(o, g)
  BY DEF Close, TypeOK, Holds, ClosingInv, CloseIsLogged
<1>2. /\ \A q \in Orders : row'[q].gen = row[q].gen
      /\ \A q \in Orders : q # o => job'[q] = job[q]
      /\ UNCHANGED <<fate, gens, hpc, hletter>>
      /\ pc'[r] = "loop"
      /\ \A s \in Runners : s # r => pc'[s] = pc[s] /\ cur'[s] = cur[s]
  BY <1>1 DEF Close, TypeOK, LogRows, handlerVars
<1>3. \A s \in Runners : Holds(s)' =>
        /\ s # r /\ Holds(s) /\ pc'[s] = pc[s] /\ cur'[s] = cur[s]
        /\ cur[s].order \in Orders /\ cur[s].gen \in Gen
  BY <1>2 DEF Holds, TypeOK
<1>4. FreshGens' /\ TakesBackFailed'
  BY <1>2 DEF ClosingInv, FreshGens, TakesBackFailed
<1>5. HeldLetters' /\ HoldersDiffer'
  BY <1>2, <1>3 DEF ClosingInv, HeldLetters, HoldersDiffer
<1>6. CloseIsLogged'
  BY <1>2, <1>3 DEF ClosingInv, CloseIsLogged, Logged, Holds
<1>7. SentIsLogged'
  <2>1. \A q \in Orders, k \in Gen : Logged(q, k) => Logged(q, k)'
    BY <1>2 DEF Logged
  <2>2. \A q \in Orders, k \in Gen : Undoing(q, k)' => Undoing(q, k)
    BY <1>2 DEF Undoing
  <2>3. \A q \in Orders, k \in Gen : q = o /\ k = g => ~Undoing(q, k)'
    <3>1. SUFFICES ASSUME NEW s \in Runners, pc'[s] \in {"send", "undo"}
                   PROVE  <<cur'[s].order, cur'[s].gen>> # <<o, g>>
      BY DEF Undoing
    <3>2. Holds(s)'
      BY <3>1 DEF Holds
    <3>3. QED
      BY <3>2, <1>1, <1>3 DEF ClosingInv, HoldersDiffer
  <2>4. \A q \in Orders : q # o => (job'[q].state = "sent" => job[q].state = "sent")
    BY <1>2
  <2>5. QED
    BY <1>1, <2>1, <2>2, <2>3, <2>4 DEF ClosingInv, SentIsLogged
<1>8. QED
  BY <1>4, <1>5, <1>6, <1>7 DEF ClosingInv

LEMMA NextClosingInv == TypeOK /\ ClosingInv /\ [Next]_vars => ClosingInv'
<1> SUFFICES ASSUME TypeOK, ClosingInv, [Next]_vars PROVE ClosingInv'
  OBVIOUS
<1>1. ASSUME NEW o \in Orders, NEW s \in {"open", "cancelled"}, FeedOrder(o, s)
      PROVE ClosingInv'
  BY <1>1, QuietClosing DEF FeedOrder, runnerVars, handlerVars, Holds
<1>2. ASSUME NEW o \in Orders, PostOrder(o) PROVE ClosingInv'
  BY <1>2, QuietClosing DEF PostOrder, runnerVars, handlerVars, Holds
<1>3. ASSUME NEW o \in Orders, Enqueue(o) PROVE ClosingInv'
  <2>1. \A q \in Orders : job'[q].state = "sent" => job[q].state = "sent"
    BY <1>3 DEF Enqueue, TypeOK, JobRows
  <2>2. QED
    BY <1>3, <2>1, QuietClosing DEF Enqueue, runnerVars, handlerVars, Holds
<1>4. ASSUME NEW o \in Orders, IntakeDies(o) PROVE ClosingInv'
  BY <1>4, QuietClosing DEF IntakeDies, runnerVars, handlerVars, Holds
<1>5. ASSUME NEW o \in Orders, Ripen(o) PROVE ClosingInv'
  BY <1>5, QuietClosing DEF Ripen, runnerVars, handlerVars, Holds
<1>6. ASSUME NEW o \in Orders, NEW g \in Gen, ServiceDelivers(o, g) PROVE ClosingInv'
  <2>1. /\ Live(o, g) /\ fate' = [fate EXCEPT ![o][g] = "sent"]
        /\ UNCHANGED <<row, gens, pc, cur, hpc, hletter, job>>
    BY <1>6 DEF ServiceDelivers, Live, dbVars, runnerVars, handlerVars
  <2>2. QED
    BY <2>1, FateClosing
<1>7. ASSUME NEW o \in Orders, NEW g \in Gen, ServiceGivesUp(o, g) PROVE ClosingInv'
  <2>1. /\ Live(o, g) /\ fate' = [fate EXCEPT ![o][g] = "failed"]
        /\ UNCHANGED <<row, gens, pc, cur, hpc, hletter, job>>
    BY <1>7 DEF ServiceGivesUp, Live, dbVars, runnerVars, handlerVars
  <2>2. QED
    BY <2>1, FateClosing
<1>8. ASSUME NEW o \in Orders, NEW g \in Gen, SentCallback(o, g) PROVE ClosingInv'
  <2>1. \A q \in Orders : row'[q].gen = row[q].gen
    BY <1>8 DEF SentCallback, TypeOK, LogRows
  <2>2. QED
    BY <1>8, <2>1, QuietClosing DEF SentCallback, runnerVars, handlerVars, Holds
<1>9. ASSUME NEW r \in Runners, BeginTick(r) PROVE ClosingInv'
  BY <1>9, QuietClosing DEF BeginTick, TypeOK, dbVars, handlerVars, Holds
<1>10. ASSUME NEW r \in Runners, EndTick(r) PROVE ClosingInv'
  BY <1>10, QuietClosing DEF EndTick, TypeOK, dbVars, handlerVars, Holds
<1>11. ASSUME NEW r \in Runners, Check(r) PROVE ClosingInv'
  <2>1. /\ pc'[r] \in {"fail", "cancel", "defer", "insert"}
        /\ \A s \in Runners : s # r => pc'[s] = pc[s] /\ cur'[s] = cur[s]
    BY <1>11 DEF Check, Verdicts, TypeOK
  <2>2. QED
    BY <1>11, <2>1, QuietClosing DEF Check, dbVars, handlerVars, Holds
<1>12. ASSUME NEW r \in Runners, Finish(r) PROVE ClosingInv'
  <2>1. \A q \in Orders : job'[q].state = "sent" => job[q].state = "sent"
    BY <1>12 DEF Finish, TypeOK, JobRows
  <2>2. QED
    BY <1>12, <2>1, QuietClosing DEF Finish, TypeOK, handlerVars, Holds
<1>13. ASSUME NEW r \in Runners, Defer(r) PROVE ClosingInv'
  <2>1. \A q \in Orders : job'[q].state = "sent" => job[q].state = "sent"
    BY <1>13 DEF Defer, TypeOK, JobRows
  <2>2. QED
    BY <1>13, <2>1, QuietClosing DEF Defer, TypeOK, handlerVars, Holds
<1>14. ASSUME NEW r \in Runners, InsertLog(r) PROVE ClosingInv'
  BY <1>14, InsertClosing
<1>15. ASSUME NEW r \in Runners, InsertRefused(r) PROVE ClosingInv'
  BY <1>15, QuietClosing DEF InsertRefused, TypeOK, dbVars, handlerVars, Holds
<1>16. ASSUME NEW r \in Runners, MailAccepted(r) PROVE ClosingInv'
  BY <1>16, HandOverClosing
<1>17. ASSUME NEW r \in Runners, MailRefused(r) PROVE ClosingInv'
  BY <1>17, QuietClosing DEF MailRefused, TypeOK, dbVars, handlerVars, Holds
<1>18. ASSUME NEW r \in Runners, ReplyLost(r) PROVE ClosingInv'
  BY <1>18, HandOverClosing
<1>19. ASSUME NEW r \in Runners, Undo(r) PROVE ClosingInv'
  <2> DEFINE o == cur[r].order
             g == cur[r].gen
  <2>1. o \in Orders /\ g \in Gen /\ Undoing(o, g) /\ Holds(r)
    BY <1>19 DEF Undo, TypeOK, Undoing, Holds
  <2>2. /\ row' = WithoutRow(o, g)
        /\ UNCHANGED <<fate, gens, job, cur, hpc, hletter>>
        /\ pc'[r] = "bump" /\ \A s \in Runners : s # r => pc'[s] = pc[s]
    BY <1>19 DEF Undo, TypeOK, handlerVars
  <2>3. \A s \in Runners : Holds(s)' =>
            Holds(s) /\ pc'[s] = pc[s] /\ <<cur[s].order, cur[s].gen>> # <<o, g>>
    BY <2>1, <2>2 DEF Holds, ClosingInv, HoldersDiffer
  <2>4. QED
    BY <2>1, <2>2, <2>3, DeleteClosing
<1>20. ASSUME NEW r \in Runners, Bump(r) PROVE ClosingInv'
  <2>1. \A q \in Orders : job'[q].state = "sent" => job[q].state = "sent"
    BY <1>20 DEF Bump, TypeOK, JobRows
  <2>2. /\ pc'[r] \in {"fail", "loop"}
        /\ \A s \in Runners : s # r => pc'[s] = pc[s] /\ cur'[s] = cur[s]
    BY <1>20 DEF Bump, TypeOK
  <2>3. QED
    BY <1>20, <2>1, <2>2, QuietClosing DEF Bump, handlerVars, Holds
<1>21. ASSUME NEW r \in Runners, Close(r) PROVE ClosingInv'
  BY <1>21, CloseClosing
<1>22. ASSUME NEW r \in Runners, Raises(r) PROVE ClosingInv'
  BY <1>22, QuietClosing DEF Raises, TypeOK, dbVars, handlerVars, Holds
<1>23. ASSUME NEW r \in Runners, RunnerDies(r) PROVE ClosingInv'
  BY <1>23, QuietClosing DEF RunnerDies, TypeOK, dbVars, handlerVars, Holds
<1>24. ASSUME NEW h \in Handlers, FailedCallback(h) PROVE ClosingInv'
  <2>1. PICK l \in Letters :
          /\ fate[l.order][l.gen] = "failed"
          /\ hletter' = [hletter EXCEPT ![h] = l]
          /\ row' = IF row[l.order].gen = l.gen
                    THEN [row EXCEPT ![l.order].status = "failed"]
                    ELSE row
    BY <1>24 DEF FailedCallback
  <2>2. \A q \in Orders : row'[q].gen = row[q].gen
    BY <2>1 DEF TypeOK, LogRows
  <2>3. hletter'[h] = l /\ \A k \in Handlers : k # h => hpc'[k] = hpc[k] /\ hletter'[k] = hletter[k]
    BY <1>24, <2>1 DEF FailedCallback, TypeOK
  <2>4. QED
    BY <1>24, <2>1, <2>2, <2>3, QuietClosing DEF FailedCallback, runnerVars, Holds
<1>25. ASSUME NEW h \in Handlers, ReadLog(h) PROVE ClosingInv'
  BY <1>25, QuietClosing DEF ReadLog, HandlerEnds, TypeOK, dbVars, runnerVars, Holds
<1>26. ASSUME NEW h \in Handlers, ResetTimers(h) PROVE ClosingInv'
  BY <1>26, QuietClosing DEF ResetTimers, TypeOK, runnerVars, Holds
<1>27. ASSUME NEW h \in Handlers, Reschedule(h) PROVE ClosingInv'
  <2>1. \A q \in Orders : job'[q].state = "sent" => job[q].state = "sent"
    BY <1>27 DEF Reschedule, TypeOK, JobRows
  <2>2. QED
    BY <1>27, <2>1, QuietClosing DEF Reschedule, TypeOK, runnerVars, Holds
<1>28. ASSUME NEW h \in Handlers, DeleteFailed(h) PROVE ClosingInv'
  <2> DEFINE o == hletter[h].order
             g == hletter[h].gen
  <2>1. o \in Orders /\ g \in Gen /\ fate[o][g] = "failed"
    BY <1>28 DEF DeleteFailed, TypeOK, Letters, ClosingInv, TakesBackFailed
  <2>2. /\ row' = WithoutRow(o, g)
        /\ UNCHANGED <<fate, gens, job, cur, pc>>
        /\ hpc'[h] = "idle"
        /\ \A k \in Handlers : k # h => hpc'[k] = hpc[k] /\ hletter'[k] = hletter[k]
    BY <1>28 DEF DeleteFailed, HandlerEnds, TypeOK, runnerVars
  <2>3. QED
    BY <2>1, <2>2, DeleteClosing DEF Holds
<1>29. ASSUME NEW h \in Handlers, HandlerDies(h) PROVE ClosingInv'
  BY <1>29, QuietClosing DEF HandlerDies, HandlerEnds, TypeOK, dbVars, runnerVars, Holds
<1>30. ASSUME NEW u \in Users, OtherScenarioSends(u) \/ OtherScenarioFails(u) PROVE ClosingInv'
  BY <1>30, QuietClosing DEF OtherScenarioSends, OtherScenarioFails, runnerVars, handlerVars, Holds
<1>31. ASSUME NEW u \in Users, NEW m \in BOOLEAN, SetMailable(u, m) PROVE ClosingInv'
  BY <1>31, QuietClosing DEF SetMailable, runnerVars, handlerVars, Holds
<1>32. ASSUME NextDay PROVE ClosingInv'
  <2>1. \A q \in Orders : job'[q].state = "sent" => job[q].state = "sent"
    BY <1>32 DEF NextDay, TypeOK, JobRows
  <2>2. QED
    BY <1>32, <2>1, QuietClosing DEF NextDay, runnerVars, handlerVars, Holds
<1>33. CASE UNCHANGED vars
  BY <1>33, QuietClosing DEF vars, dbVars, runnerVars, handlerVars, Holds
<1>34. QED
  BY <1>1, <1>2, <1>3, <1>4, <1>5, <1>6, <1>7, <1>8, <1>9, <1>10, <1>11, <1>12,
     <1>13, <1>14, <1>15, <1>16, <1>17, <1>18, <1>19, <1>20, <1>21, <1>22, <1>23,
     <1>24, <1>25, <1>26, <1>27, <1>28, <1>29, <1>30, <1>31, <1>32, <1>33
     DEF Next, Tick, Webhook

\* A job closed as sent has a letter that was handed over and that the log
\* keeps unless it failed: for any number of ticks and callbacks at once, with
\* lost replies and with crashes.
THEOREM SentMeansLogged == Spec => []SentJobHasLetter
<1>1. Init => TypeOK /\ ClosingInv
  BY InitTypeOK, InitClosingInv
<1>2. TypeOK /\ ClosingInv /\ [Next]_vars => (TypeOK /\ ClosingInv)'
  BY NextTypeOK, NextClosingInv
<1>3. ClosingInv => SentJobHasLetter
  BY DEF ClosingInv, SentIsLogged, Logged, SentJobHasLetter
<1>4. QED
  BY <1>1, <1>2, <1>3, PTL DEF Spec

-----------------------------------------------------------------------------
(***************************************************************************)
(* One process alone: a tick works on the snapshot run_due took, and nobody *)
(* else may write the jobs in it, so what it writes is what it read plus one. *)
(***************************************************************************)

\* One process ticks: the worker loop, without cron and manual runs.
OneRunner == \A r, s \in Runners : r = s

\* A runner that has taken up a job.
Working(r) == pc[r] \notin {"idle", "loop"}

\* what a tick selected and has not processed is still as it was selected
SelectedIsCurrent ==
    \A r \in Runners : \A j \in todo[r] :
        /\ pc[r] # "idle"
        /\ job[j.order].state = "scheduled"
        /\ job[j.order].attempts = j.attempts
        /\ Working(r) => cur[r].order # j.order

\* and so is the job it processes, which may have counted the attempt already
WorkIsCurrent ==
    \A r \in Runners : Working(r) =>
        /\ job[cur[r].order].state = "scheduled"
        /\ IF pc[r] \in {"fail", "bump"}
           THEN job[cur[r].order].attempts \in {cur[r].attempts, cur[r].attempts + 1}
           ELSE job[cur[r].order].attempts = cur[r].attempts /\ cur[r].attempts < MaxAttempts
        /\ pc[r] = "bump" => cur[r].attempts + 1 <= MaxAttempts + faults

\* a sent job has an attempt left, which its failed letter may cost
SentHasTries == \A o \in Orders : job[o].state = "sent" => job[o].attempts < MaxAttempts

ClaimInv == SelectedIsCurrent /\ WorkIsCurrent /\ SentHasTries /\ AttemptsBounded

LEMMA InitClaimInv == Init => ClaimInv
  BY ConstantsAssumption
     DEF Init, ClaimInv, SelectedIsCurrent, WorkIsCurrent, SentHasTries, AttemptsBounded, Working

LEMMA Counts ==
    TypeOK => /\ faults \in Nat /\ MaxAttempts \in Nat \ {0}
              /\ \A o \in Orders : job[o].attempts \in Nat
              /\ \A r \in Runners : /\ cur[r].attempts \in Nat
                                    /\ Working(r) => cur[r].order \in Orders
              /\ \A r \in Runners : \A j \in todo[r] : j.order \in Orders /\ j.attempts \in Nat
  BY ConstantsAssumption DEF TypeOK, JobRows, Works, Working

\* A step of anybody else that leaves the queue alone.
LEMMA QuietClaim ==
    ASSUME TypeOK, ClaimInv, UNCHANGED <<job, pc, todo, cur>>, faults' \in {faults, faults + 1}
    PROVE  ClaimInv'
<1>1. SelectedIsCurrent' /\ SentHasTries'
  BY DEF ClaimInv, SelectedIsCurrent, SentHasTries, Working
<1>2. WorkIsCurrent'
  BY Counts DEF ClaimInv, WorkIsCurrent, Working
<1>3. AttemptsBounded'
  BY Counts DEF ClaimInv, AttemptsBounded
<1>4. QED
  BY <1>1, <1>2, <1>3 DEF ClaimInv

\* A step of somebody else that changes jobs the tick has not claimed.
LEMMA UnclaimedClaim ==
    ASSUME TypeOK, ClaimInv, UNCHANGED <<pc, todo, cur, faults>>,
           \A o \in Orders : \/ job'[o].state = job[o].state /\ job'[o].attempts = job[o].attempts
                             \/ /\ job[o].state # "scheduled" /\ job'[o].state # "sent"
                                /\ job'[o].attempts <= MaxAttempts + faults
    PROVE  ClaimInv'
<1>1. SelectedIsCurrent'
  BY Counts DEF ClaimInv, SelectedIsCurrent, Working
<1>2. WorkIsCurrent'
  BY Counts DEF ClaimInv, WorkIsCurrent, Working
<1>3. SentHasTries' /\ AttemptsBounded'
  BY Counts DEF ClaimInv, SentHasTries, AttemptsBounded
<1>4. QED
  BY <1>1, <1>2, <1>3 DEF ClaimInv

\* The runner goes on with its job, or an exception costs it an attempt.
LEMMA WorkMoves ==
    ASSUME TypeOK, ClaimInv, OneRunner, NEW r \in Runners, Working(r),
           UNCHANGED <<job, todo>>,
           cur'[r].order = cur[r].order, cur'[r].attempts = cur[r].attempts,
           \/ /\ pc[r] \notin {"fail", "bump"}
              /\ pc'[r] \notin {"idle", "loop", "fail"}
              /\ faults' \in {faults, faults + 1}
           \/ pc'[r] = "bump" /\ faults' = faults + 1
    PROVE  ClaimInv'
<1>1. \A s \in Runners : s = r
  BY DEF OneRunner
<1>2. Working(r)'
  BY DEF Working
<1>3. SelectedIsCurrent'
  BY <1>1, <1>2 DEF ClaimInv, SelectedIsCurrent, Working
<1>4. WorkIsCurrent'
  <2>1. /\ job[cur[r].order].state = "scheduled"
        /\ job[cur[r].order].attempts <= MaxAttempts + faults
        /\ cur[r].order \in Orders
    BY Counts DEF ClaimInv, WorkIsCurrent, AttemptsBounded
  <2>2. CASE pc[r] \notin {"fail", "bump"}
    <3>1. job[cur[r].order].attempts = cur[r].attempts /\ cur[r].attempts < MaxAttempts
      BY <2>2 DEF ClaimInv, WorkIsCurrent
    <3>2. cur[r].attempts + 1 <= MaxAttempts + faults'
      BY <3>1, Counts
    <3>3. QED
      BY <1>1, <2>1, <2>2, <3>1, <3>2 DEF WorkIsCurrent
  <2>3. CASE pc[r] \in {"fail", "bump"}
    <3>1. job[cur[r].order].attempts \in {cur[r].attempts, cur[r].attempts + 1}
      BY <2>3 DEF ClaimInv, WorkIsCurrent
    <3>2. pc'[r] = "bump" /\ cur[r].attempts + 1 <= MaxAttempts + faults'
      BY <2>1, <2>3, <3>1, Counts
    <3>3. QED
      BY <1>1, <2>1, <3>1, <3>2 DEF WorkIsCurrent
  <2>4. QED
    BY <2>2, <2>3
<1>5. SentHasTries' /\ AttemptsBounded'
  BY Counts DEF ClaimInv, SentHasTries, AttemptsBounded
<1>6. QED
  BY <1>3, <1>4, <1>5 DEF ClaimInv

\* The runner is done with its job, whatever it wrote of it.
LEMMA WorkEnds ==
    ASSUME TypeOK, ClaimInv, OneRunner, NEW r \in Runners, Working(r),
           UNCHANGED <<todo, faults>>, pc'[r] = "loop",
           \A o \in Orders : o # cur[r].order => job'[o] = job[o],
           job'[cur[r].order].attempts <= MaxAttempts + faults,
           job'[cur[r].order].state = "sent" => job'[cur[r].order].attempts < MaxAttempts
    PROVE  ClaimInv'
<1>1. \A s \in Runners : s = r
  BY DEF OneRunner
<1>2. SelectedIsCurrent'
  BY <1>1, Counts DEF ClaimInv, SelectedIsCurrent, Working
<1>3. WorkIsCurrent'
  BY <1>1 DEF WorkIsCurrent, Working
<1>4. SentHasTries' /\ AttemptsBounded'
  BY DEF ClaimInv, SentHasTries, AttemptsBounded
<1>5. QED
  BY <1>2, <1>3, <1>4 DEF ClaimInv

LEMMA CheckClaim ==
    ASSUME TypeOK, ClaimInv, OneRunner, NEW r \in Runners, Check(r)
    PROVE  ClaimInv'
<1>1. \A s \in Runners : s = r
  BY DEF OneRunner
<1>2. PICK j \in todo[r] :
          /\ todo' = [todo EXCEPT ![r] = @ \ {j}]
          /\ cur' = [cur EXCEPT ![r] =
                        [order |-> j.order, attempts |-> j.attempts, gen |-> 0]]
          /\ \E v \in Verdicts(j) : pc' = [pc EXCEPT ![r] = v]
  BY DEF Check
<1>3. /\ todo'[r] = todo[r] \ {j}
      /\ cur'[r].order = j.order /\ cur'[r].attempts = j.attempts
      /\ UNCHANGED <<job, faults>>
  BY <1>2 DEF Check, TypeOK, dbVars, countVars
<1>4. PICK v \in Verdicts(j) : pc'[r] = v
  BY <1>2 DEF TypeOK
<1>5. /\ job[j.order].state = "scheduled" /\ job[j.order].attempts = j.attempts
      /\ j.order \in Orders /\ j.attempts \in Nat
  BY Counts DEF ClaimInv, SelectedIsCurrent
<1>6. v = "fail" \/ (v \in {"cancel", "defer", "insert"} /\ j.attempts < MaxAttempts)
  BY <1>5, Counts DEF Verdicts
<1>7. SelectedIsCurrent'
  <2>1. SUFFICES ASSUME NEW i \in todo[r] \ {j}
                 PROVE  /\ job[i.order].state = "scheduled"
                        /\ job[i.order].attempts = i.attempts
                        /\ i.order # j.order
    BY <1>1, <1>3, <1>4, <1>6 DEF SelectedIsCurrent
  <2>2. i \in [order : Orders, attempts : Nat] /\ j \in [order : Orders, attempts : Nat]
    BY DEF TypeOK
  <2>3. job[i.order].state = "scheduled" /\ job[i.order].attempts = i.attempts
    BY DEF ClaimInv, SelectedIsCurrent
  <2>4. i.order # j.order
    BY <2>2, <2>3, <1>5
  <2>5. QED
    BY <2>3, <2>4
<1>8. WorkIsCurrent'
  BY <1>1, <1>3, <1>4, <1>5, <1>6 DEF WorkIsCurrent
<1>9. SentHasTries' /\ AttemptsBounded'
  BY <1>3 DEF ClaimInv, SentHasTries, AttemptsBounded
<1>10. QED
  BY <1>7, <1>8, <1>9 DEF ClaimInv

LEMMA BumpClaim ==
    ASSUME TypeOK, ClaimInv, OneRunner, NEW r \in Runners, Bump(r)
    PROVE  ClaimInv'
<1> DEFINE o == cur[r].order
           n == cur[r].attempts
<1>1. \A s \in Runners : s = r
  BY DEF OneRunner
<1>2. /\ o \in Orders /\ n \in Nat /\ Working(r) /\ pc[r] = "bump"
      /\ job[o].state = "scheduled" /\ n + 1 <= MaxAttempts + faults
  BY Counts DEF Bump, Working, ClaimInv, WorkIsCurrent
<1>3. /\ job'[o].state = "scheduled" /\ job'[o].attempts = n + 1
      /\ \A q \in Orders : q # o => job'[q] = job[q]
      /\ UNCHANGED <<todo, faults>>
  BY <1>2 DEF Bump, TypeOK, JobRows, countVars
<1>4. CASE n + 1 < MaxAttempts
  <2>1. pc'[r] = "loop"
    BY <1>2, <1>4, Counts DEF Bump, TypeOK
  <2>2. QED
    BY <1>2, <1>3, <2>1, WorkEnds
<1>5. CASE n + 1 >= MaxAttempts
  <2>1. pc'[r] = "fail" /\ cur' = cur
    BY <1>2, <1>5, Counts DEF Bump, TypeOK
  <2>2. SelectedIsCurrent'
    BY <1>1, <1>2, <1>3, <2>1, Counts DEF ClaimInv, SelectedIsCurrent, Working
  <2>3. WorkIsCurrent'
    BY <1>1, <1>3, <2>1 DEF WorkIsCurrent
  <2>4. SentHasTries' /\ AttemptsBounded'
    BY <1>2, <1>3 DEF ClaimInv, SentHasTries, AttemptsBounded
  <2>5. QED
    BY <2>2, <2>3, <2>4 DEF ClaimInv
<1>6. QED
  BY <1>2, <1>4, <1>5, Counts

LEMMA NextClaimInv == OneRunner /\ TypeOK /\ ClaimInv /\ [Next]_vars => ClaimInv'
<1> SUFFICES ASSUME OneRunner, TypeOK, ClaimInv, [Next]_vars PROVE ClaimInv'
  OBVIOUS
<1>1. ASSUME NEW o \in Orders, NEW s \in {"open", "cancelled"}, FeedOrder(o, s) PROVE ClaimInv'
  BY <1>1, QuietClaim DEF FeedOrder, runnerVars, countVars
<1>2. ASSUME NEW o \in Orders, PostOrder(o) PROVE ClaimInv'
  BY <1>2, QuietClaim DEF PostOrder, runnerVars, countVars
<1>3. ASSUME NEW o \in Orders, Enqueue(o) PROVE ClaimInv'
  <2>1. \A q \in Orders : \/ job'[q] = job[q]
                          \/ /\ job[q].state = "none" /\ job'[q].state = "scheduled"
                             /\ job'[q].attempts = job[q].attempts
    BY <1>3 DEF Enqueue, TypeOK, JobRows
  <2>2. \A q \in Orders : job[q].attempts <= MaxAttempts + faults
    BY DEF ClaimInv, AttemptsBounded
  <2>3. UNCHANGED <<pc, todo, cur, faults>>
    BY <1>3 DEF Enqueue, runnerVars, countVars
  <2>4. \A q \in Orders :
           \/ job'[q].state = job[q].state /\ job'[q].attempts = job[q].attempts
           \/ /\ job[q].state # "scheduled" /\ job'[q].state # "sent"
              /\ job'[q].attempts <= MaxAttempts + faults
    BY <2>1, <2>2
  <2>5. QED
    BY <2>3, <2>4, UnclaimedClaim
<1>4. ASSUME NEW o \in Orders, IntakeDies(o) PROVE ClaimInv'
  BY <1>4, QuietClaim DEF IntakeDies, runnerVars
<1>5. ASSUME NEW o \in Orders, Ripen(o) PROVE ClaimInv'
  BY <1>5, QuietClaim DEF Ripen, runnerVars, countVars
<1>6. ASSUME NEW o \in Orders, NEW g \in Gen, ServiceDelivers(o, g) PROVE ClaimInv'
  BY <1>6, QuietClaim DEF ServiceDelivers, dbVars, runnerVars, countVars
<1>7. ASSUME NEW o \in Orders, NEW g \in Gen, ServiceGivesUp(o, g) PROVE ClaimInv'
  BY <1>7, QuietClaim DEF ServiceGivesUp, dbVars, runnerVars, countVars
<1>8. ASSUME NEW o \in Orders, NEW g \in Gen, SentCallback(o, g) PROVE ClaimInv'
  BY <1>8, QuietClaim DEF SentCallback, runnerVars, countVars
<1>9. ASSUME NEW r \in Runners, BeginTick(r) PROVE ClaimInv'
  <2>1. \A s \in Runners : s = r
    BY DEF OneRunner
  <2>2. /\ pc'[r] = "loop"
        /\ todo'[r] = {[order |-> o, attempts |-> job[o].attempts] : o \in Due}
        /\ UNCHANGED <<job, faults>>
    BY <1>9 DEF BeginTick, TypeOK, dbVars, countVars
  <2>3. SelectedIsCurrent'
    BY <2>1, <2>2 DEF SelectedIsCurrent, Working, Due
  <2>4. WorkIsCurrent' /\ SentHasTries' /\ AttemptsBounded'
    BY <2>1, <2>2 DEF ClaimInv, WorkIsCurrent, SentHasTries, AttemptsBounded, Working
  <2>5. QED
    BY <2>3, <2>4 DEF ClaimInv
<1>10. ASSUME NEW r \in Runners, EndTick(r) PROVE ClaimInv'
  <2>1. \A s \in Runners : s = r
    BY DEF OneRunner
  <2>2. pc'[r] = "idle" /\ todo'[r] = {} /\ UNCHANGED <<job, faults>>
    BY <1>10 DEF EndTick, TypeOK, dbVars, countVars
  <2>3. QED
    BY <2>1, <2>2 DEF ClaimInv, SelectedIsCurrent, WorkIsCurrent, SentHasTries,
                      AttemptsBounded, Working
<1>11. ASSUME NEW r \in Runners, Check(r) PROVE ClaimInv'
  BY <1>11, CheckClaim
<1>12. ASSUME NEW r \in Runners, Finish(r) PROVE ClaimInv'
  <2>1. Working(r) /\ cur[r].order \in Orders
    BY <1>12, Counts DEF Finish, Working
  <2>2. /\ \A o \in Orders : o # cur[r].order => job'[o] = job[o]
        /\ job'[cur[r].order].attempts = job[cur[r].order].attempts
        /\ job'[cur[r].order].state \in {"failed", "cancelled"}
        /\ pc'[r] = "loop" /\ UNCHANGED <<todo, faults>>
    BY <1>12, <2>1 DEF Finish, TypeOK, JobRows, countVars
  <2>3. job[cur[r].order].attempts <= MaxAttempts + faults
    BY <2>1 DEF ClaimInv, AttemptsBounded
  <2>4. QED
    BY <2>1, <2>2, <2>3, WorkEnds
<1>13. ASSUME NEW r \in Runners, Defer(r) PROVE ClaimInv'
  <2>1. Working(r) /\ cur[r].order \in Orders /\ job[cur[r].order].state = "scheduled"
    BY <1>13, Counts DEF Defer, Working, ClaimInv, WorkIsCurrent
  <2>2. /\ \A o \in Orders : o # cur[r].order => job'[o] = job[o]
        /\ job'[cur[r].order].attempts = job[cur[r].order].attempts
        /\ job'[cur[r].order].state = "scheduled"
        /\ pc'[r] = "loop" /\ UNCHANGED <<todo, faults>>
    BY <1>13, <2>1 DEF Defer, TypeOK, JobRows, countVars
  <2>3. job[cur[r].order].attempts <= MaxAttempts + faults
    BY <2>1 DEF ClaimInv, AttemptsBounded
  <2>4. QED
    BY <2>1, <2>2, <2>3, WorkEnds
<1>14. ASSUME NEW r \in Runners, InsertLog(r) PROVE ClaimInv'
  <2>1. cur'[r].order = cur[r].order /\ cur'[r].attempts = cur[r].attempts
    BY <1>14 DEF InsertLog, TypeOK, Works
  <2>2. QED
    BY <1>14, <2>1, WorkMoves DEF InsertLog, TypeOK, countVars, Working
<1>15. ASSUME NEW r \in Runners, InsertRefused(r) PROVE ClaimInv'
  BY <1>15, WorkMoves DEF InsertRefused, TypeOK, dbVars, countVars, Working
<1>16. ASSUME NEW r \in Runners, MailAccepted(r) PROVE ClaimInv'
  BY <1>16, WorkMoves DEF MailAccepted, TypeOK, dbVars, countVars, Working
<1>17. ASSUME NEW r \in Runners, MailRefused(r) PROVE ClaimInv'
  BY <1>17, WorkMoves DEF MailRefused, TypeOK, dbVars, countVars, Working
<1>18. ASSUME NEW r \in Runners, ReplyLost(r) PROVE ClaimInv'
  BY <1>18, WorkMoves DEF ReplyLost, TypeOK, dbVars, countVars, Working
<1>19. ASSUME NEW r \in Runners, Undo(r) PROVE ClaimInv'
  BY <1>19, WorkMoves DEF Undo, TypeOK, countVars, Working
<1>20. ASSUME NEW r \in Runners, Bump(r) PROVE ClaimInv'
  BY <1>20, BumpClaim
<1>21. ASSUME NEW r \in Runners, Close(r) PROVE ClaimInv'
  <2>1. /\ Working(r) /\ cur[r].order \in Orders
        /\ job[cur[r].order].attempts < MaxAttempts
    BY <1>21, Counts DEF Close, Working, ClaimInv, WorkIsCurrent
  <2>2. /\ \A o \in Orders : o # cur[r].order => job'[o] = job[o]
        /\ job'[cur[r].order].attempts = job[cur[r].order].attempts
        /\ pc'[r] = "loop" /\ UNCHANGED <<todo, faults>>
    BY <1>21, <2>1 DEF Close, TypeOK, JobRows, countVars
  <2>3. job[cur[r].order].attempts <= MaxAttempts + faults
    BY <2>1 DEF ClaimInv, AttemptsBounded
  <2>4. QED
    BY <2>1, <2>2, <2>3, WorkEnds
<1>22. ASSUME NEW r \in Runners, Raises(r) PROVE ClaimInv'
  BY <1>22, WorkMoves DEF Raises, TypeOK, dbVars, Working
<1>23. ASSUME NEW r \in Runners, RunnerDies(r) PROVE ClaimInv'
  <2>1. \A s \in Runners : s = r
    BY DEF OneRunner
  <2>2. pc'[r] = "idle" /\ todo'[r] = {} /\ job' = job /\ faults' = faults + 1
    BY <1>23 DEF RunnerDies, TypeOK, dbVars
  <2>3. SelectedIsCurrent' /\ WorkIsCurrent' /\ SentHasTries'
    BY <2>1, <2>2 DEF ClaimInv, SelectedIsCurrent, WorkIsCurrent, SentHasTries, Working
  <2>4. AttemptsBounded'
    BY <2>2, Counts DEF ClaimInv, AttemptsBounded
  <2>5. QED
    BY <2>3, <2>4 DEF ClaimInv
<1>24. ASSUME NEW h \in Handlers, FailedCallback(h) PROVE ClaimInv'
  BY <1>24, QuietClaim DEF FailedCallback, runnerVars, countVars
<1>25. ASSUME NEW h \in Handlers, ReadLog(h) PROVE ClaimInv'
  BY <1>25, QuietClaim DEF ReadLog, dbVars, runnerVars, countVars
<1>26. ASSUME NEW h \in Handlers, ResetTimers(h) PROVE ClaimInv'
  BY <1>26, QuietClaim DEF ResetTimers, runnerVars, countVars
<1>27. ASSUME NEW h \in Handlers, Reschedule(h) PROVE ClaimInv'
  <2>1. \A q \in Orders : \/ job'[q] = job[q]
                          \/ /\ job[q].state = "sent" /\ job'[q].state = "scheduled"
                             /\ job'[q].attempts = job[q].attempts + 1
    BY <1>27 DEF Reschedule, TypeOK, JobRows
  <2>2. \A q \in Orders : job[q].state = "sent" => job[q].attempts + 1 <= MaxAttempts + faults
    BY Counts DEF ClaimInv, SentHasTries
  <2>3. UNCHANGED <<pc, todo, cur, faults>>
    BY <1>27 DEF Reschedule, runnerVars, countVars
  <2>4. \A q \in Orders :
           \/ job'[q].state = job[q].state /\ job'[q].attempts = job[q].attempts
           \/ /\ job[q].state # "scheduled" /\ job'[q].state # "sent"
              /\ job'[q].attempts <= MaxAttempts + faults
    BY <2>1, <2>2
  <2>5. QED
    BY <2>3, <2>4, UnclaimedClaim
<1>28. ASSUME NEW h \in Handlers, DeleteFailed(h) PROVE ClaimInv'
  BY <1>28, QuietClaim DEF DeleteFailed, runnerVars, countVars
<1>29. ASSUME NEW h \in Handlers, HandlerDies(h) PROVE ClaimInv'
  BY <1>29, QuietClaim DEF HandlerDies, dbVars, runnerVars
<1>30. ASSUME NEW u \in Users, OtherScenarioSends(u) \/ OtherScenarioFails(u) PROVE ClaimInv'
  BY <1>30, QuietClaim DEF OtherScenarioSends, OtherScenarioFails, runnerVars
<1>31. ASSUME NEW u \in Users, NEW m \in BOOLEAN, SetMailable(u, m) PROVE ClaimInv'
  BY <1>31, QuietClaim DEF SetMailable, runnerVars, countVars
<1>32. ASSUME NextDay PROVE ClaimInv'
  <2>1. \A q \in Orders : job'[q].state = job[q].state /\ job'[q].attempts = job[q].attempts
    BY <1>32 DEF NextDay, TypeOK, JobRows
  <2>2. QED
    BY <1>32, <2>1, UnclaimedClaim DEF NextDay, runnerVars, countVars
<1>33. CASE UNCHANGED vars
  BY <1>33, QuietClaim DEF vars, dbVars, runnerVars, countVars
<1>34. QED
  BY <1>1, <1>2, <1>3, <1>4, <1>5, <1>6, <1>7, <1>8, <1>9, <1>10, <1>11, <1>12,
     <1>13, <1>14, <1>15, <1>16, <1>17, <1>18, <1>19, <1>20, <1>21, <1>22, <1>23,
     <1>24, <1>25, <1>26, <1>27, <1>28, <1>29, <1>30, <1>31, <1>32, <1>33
     DEF Next, Tick, Webhook

LEMMA ClaimInvAlways == ASSUME OneRunner PROVE Spec => [](TypeOK /\ ClaimInv)
<1>1. Init => TypeOK /\ ClaimInv
  BY InitTypeOK, InitClaimInv
<1>2. TypeOK /\ ClaimInv /\ [Next]_vars => (TypeOK /\ ClaimInv)'
  BY NextTypeOK, NextClaimInv
<1>3. QED
  BY <1>1, <1>2, PTL DEF Spec

\* With one ticking process, attempts stay below MAX_ATTEMPTS but for one each
\* time a statement of _process_one raises, however many callbacks return jobs
\* to the queue.  Two processes that picked up the same job exceed it.
THEOREM RetriesBounded == ASSUME OneRunner PROVE Spec => []AttemptsBounded
<1>1. ClaimInv => AttemptsBounded
  BY DEF ClaimInv
<1>2. QED
  BY <1>1, ClaimInvAlways, PTL

\* What a step writes of a job: the only writers are the runner that claimed
\* it, the request that schedules it and the webhook, which take it as it is.
LEMMA JobWrites ==
    ASSUME TypeOK, ClaimInv, [Next]_vars, NEW o \in Orders
    PROVE  /\ job'[o].attempts >= job[o].attempts
           /\ job[o].state \in {"cancelled", "failed"} => job'[o].state = job[o].state
<1>1. CASE job' = job
  BY <1>1, Counts
<1>2. ASSUME NEW q \in Orders, Enqueue(q) PROVE
           /\ job'[o].attempts = job[o].attempts
           /\ job[o].state \in {"cancelled", "failed"} => job'[o].state = job[o].state
  BY <1>2 DEF Enqueue, TypeOK, JobRows
<1>3. ASSUME NEW r \in Runners, Finish(r) \/ Defer(r) \/ Bump(r) \/ Close(r) PROVE
           /\ job'[o].attempts >= job[o].attempts
           /\ job[o].state \in {"cancelled", "failed"} => job'[o].state = job[o].state
  <2>1. /\ Working(r) /\ cur[r].order \in Orders
        /\ job[cur[r].order].state = "scheduled"
        /\ pc[r] = "bump" => job[cur[r].order].attempts <= cur[r].attempts + 1
    <3>1. Working(r)
      BY <1>3 DEF Finish, Defer, Bump, Close, Working
    <3>2. QED
      BY <3>1, Counts DEF ClaimInv, WorkIsCurrent
  <2>2. o # cur[r].order => job'[o] = job[o]
    BY <1>3, <2>1 DEF Finish, Defer, Bump, Close, TypeOK
  <2>3. \/ job'[cur[r].order].attempts = job[cur[r].order].attempts
        \/ pc[r] = "bump" /\ job'[cur[r].order].attempts = cur[r].attempts + 1
    BY <1>3, <2>1 DEF Finish, Defer, Bump, Close, TypeOK, JobRows
  <2>4. QED
    BY <2>1, <2>2, <2>3, Counts
<1>4. ASSUME NEW h \in Handlers, Reschedule(h) PROVE
           /\ job'[o].attempts >= job[o].attempts
           /\ job[o].state \in {"cancelled", "failed"} => job'[o].state = job[o].state
  <2>1. \/ job'[o] = job[o]
        \/ job[o].state = "sent" /\ job'[o].attempts = job[o].attempts + 1
    BY <1>4 DEF Reschedule, TypeOK, JobRows
  <2>2. QED
    BY <2>1, Counts
<1>5. CASE NextDay
  <2>1. job'[o].attempts = job[o].attempts /\ job'[o].state = job[o].state
    BY <1>5 DEF NextDay, TypeOK, JobRows
  <2>2. QED
    BY <2>1, Counts
<1>6. \/ job' = job
      \/ \E q \in Orders : Enqueue(q)
      \/ \E r \in Runners : Finish(r) \/ Defer(r) \/ Bump(r) \/ Close(r)
      \/ \E h \in Handlers : Reschedule(h)
      \/ NextDay
  BY DEF Next, Tick, Webhook, vars, dbVars, FeedOrder, PostOrder, IntakeDies, Ripen,
         ServiceDelivers, ServiceGivesUp, SentCallback, BeginTick, EndTick, Check,
         InsertLog, InsertRefused, MailAccepted, MailRefused, ReplyLost, Undo, Raises,
         RunnerDies, FailedCallback, ReadLog, ResetTimers, DeleteFailed, HandlerDies,
         OtherScenarioSends, OtherScenarioFails, SetMailable
<1>7. QED
  BY <1>1, <1>2, <1>3, <1>4, <1>5, <1>6, Counts

\* Neither the snapshot a tick works on nor the webhook sets attempts back.
THEOREM NoAttemptForgotten == ASSUME OneRunner PROVE Spec => AttemptsNeverDecrease
<1>1. TypeOK /\ ClaimInv /\ [Next]_vars => [\A o \in Orders : job'[o].attempts >= job[o].attempts]_vars
  BY JobWrites
<1>2. QED
  BY <1>1, ClaimInvAlways, PTL DEF Spec, AttemptsNeverDecrease

\* A cancelled or failed job is never touched again: the webhook returns sent
\* jobs only, and the unconditional writes of _finish and of the closing
\* transaction meet the job the tick selected.
THEOREM ClosedIsFinal == ASSUME OneRunner PROVE Spec => ClosedJobsStayClosed
<1>1. TypeOK /\ ClaimInv /\ [Next]_vars =>
        [\A o \in Orders : job[o].state \in {"cancelled", "failed"}
                              => job'[o].state = job[o].state]_vars
  BY JobWrites
<1>2. QED
  BY <1>1, ClaimInvAlways, PTL DEF Spec, ClosedJobsStayClosed


\* A log row that has cost no attempt yet: its letter is on its way, or went
\* out and may still fail.
Spending(o) ==
    \/ job[o].state = "sent"
    \/ \E r \in Runners :
          /\ cur[r].order = o
          /\ \/ Holds(r)
             \/ pc[r] = "bump" /\ job[o].attempts = cur[r].attempts

\* Every log row but that one has cost an attempt or a fault.
RowsCost ==
    \A o \in Orders : gens[o] <= job[o].attempts + faults + (IF Spending(o) THEN 1 ELSE 0)

CostInv == RowsCost /\ LettersBounded

LEMMA InitCostInv == Init => CostInv
  BY ConstantsAssumption DEF Init, CostInv, RowsCost, LettersBounded

\* The row stays the unpaid one until an attempt or a fault pays for it.
LEMMA SpendingLasts ==
    ASSUME TypeOK, ClaimInv, OneRunner, [Next]_vars, NEW o \in Orders, Spending(o)
    PROVE  \/ Spending(o)'
           \/ job'[o].attempts > job[o].attempts
           \/ faults' = faults + 1
<1>1. \A r, s \in Runners : r = s
  BY DEF OneRunner
<1>2. CASE UNCHANGED <<job, pc, cur>>
  BY <1>2 DEF Spending, Holds
<1>3. ASSUME NEW q \in Orders, Enqueue(q) PROVE Spending(o)'
  <2>1. job'[o].attempts = job[o].attempts /\ (job[o].state = "sent" => job'[o].state = "sent")
    BY <1>3 DEF Enqueue, TypeOK, JobRows
  <2>2. UNCHANGED <<pc, cur>>
    BY <1>3 DEF Enqueue, runnerVars
  <2>3. QED
    BY <2>1, <2>2 DEF Spending, Holds
<1>4. ASSUME NEW r \in Runners,
             \/ BeginTick(r) \/ EndTick(r) \/ Check(r) \/ Finish(r) \/ Defer(r)
             \/ InsertLog(r) \/ InsertRefused(r)
      PROVE  Spending(o)'
  <2>1. pc[r] \notin {"send", "undo", "close", "bump"}
    BY <1>4 DEF BeginTick, EndTick, Check, Finish, Defer, InsertLog, InsertRefused
  <2>2. job[o].state = "sent"
    BY <1>1, <2>1 DEF Spending, Holds
  <2>3. job'[o].state = "sent"
    <3>1. Working(r) => cur[r].order # o
      BY <2>2 DEF ClaimInv, WorkIsCurrent
    <3>2. QED
      BY <1>4, <2>2, <3>1 DEF BeginTick, EndTick, Check, Finish, Defer, InsertLog,
            InsertRefused, dbVars, Working, TypeOK
  <2>4. QED
    BY <2>3 DEF Spending
<1>5. ASSUME NEW r \in Runners, MailAccepted(r) \/ MailRefused(r) \/ ReplyLost(r)
      PROVE  Spending(o)'
  <2>1. /\ job' = job /\ cur' = cur /\ Holds(r)' /\ pc[r] = "send"
    BY <1>5 DEF MailAccepted, MailRefused, ReplyLost, dbVars, Holds, TypeOK
  <2>2. QED
    BY <1>1, <2>1 DEF Spending
<1>6. ASSUME NEW r \in Runners, Undo(r) PROVE Spending(o)'
  <2>1. /\ job' = job /\ cur' = cur /\ pc'[r] = "bump" /\ pc[r] = "undo"
        /\ job[cur[r].order].attempts = cur[r].attempts
    BY <1>6 DEF Undo, ClaimInv, WorkIsCurrent, Working, TypeOK
  <2>2. QED
    BY <1>1, <2>1 DEF Spending
<1>7. ASSUME NEW r \in Runners, Bump(r)
      PROVE  Spending(o)' \/ job'[o].attempts > job[o].attempts
  <2>1. /\ pc[r] = "bump" /\ cur[r].order \in Orders /\ cur[r].attempts \in Nat
        /\ job[cur[r].order].state = "scheduled"
    BY <1>7, Counts DEF Bump, Working, ClaimInv, WorkIsCurrent
  <2>2. CASE o = cur[r].order
    <3>1. job[o].attempts = cur[r].attempts
      BY <1>1, <2>1, <2>2 DEF Spending, Holds
    <3>2. job'[o].attempts = cur[r].attempts + 1
      BY <1>7, <2>1, <2>2 DEF Bump, TypeOK, JobRows
    <3>3. QED
      BY <2>1, <3>1, <3>2
  <2>3. CASE o # cur[r].order
    <3>1. job[o].state = "sent"
      BY <1>1, <2>3 DEF Spending
    <3>2. job'[o] = job[o]
      BY <1>7, <2>1, <2>3 DEF Bump, TypeOK
    <3>3. QED
      BY <3>1, <3>2 DEF Spending
  <2>4. QED
    BY <2>2, <2>3
<1>8. ASSUME NEW r \in Runners, Close(r) PROVE Spending(o)'
  <2>1. cur[r].order \in Orders /\ pc[r] = "close"
    BY <1>8, Counts DEF Close, Working
  <2>2. o = cur[r].order \/ job[o].state = "sent"
    BY <1>1 DEF Spending
  <2>3. job'[o].state = "sent"
    BY <1>8, <2>1, <2>2 DEF Close, TypeOK, JobRows
  <2>4. QED
    BY <2>3 DEF Spending
<1>9. ASSUME NEW h \in Handlers, Reschedule(h)
      PROVE  Spending(o)' \/ job'[o].attempts > job[o].attempts
  <2>1. UNCHANGED <<pc, cur>>
    BY <1>9 DEF Reschedule, runnerVars
  <2>2. \/ job'[o] = job[o]
        \/ job'[o].attempts = job[o].attempts + 1
    BY <1>9 DEF Reschedule, TypeOK, JobRows
  <2>3. QED
    BY <2>1, <2>2, Counts DEF Spending, Holds
<1>10. CASE NextDay
  <2>1. job'[o].attempts = job[o].attempts /\ job'[o].state = job[o].state
    BY <1>10 DEF NextDay, TypeOK, JobRows
  <2>2. UNCHANGED <<pc, cur>>
    BY <1>10 DEF NextDay, runnerVars
  <2>3. QED
    BY <2>1, <2>2 DEF Spending, Holds
<1>11. \/ UNCHANGED <<job, pc, cur>>
       \/ \E q \in Orders : Enqueue(q)
       \/ \E r \in Runners : Tick(r)
       \/ \E h \in Handlers : Reschedule(h)
       \/ NextDay
       \/ faults' = faults + 1
  BY ZenonT(40)
     DEF Next, Webhook, vars, dbVars, runnerVars, FeedOrder, PostOrder, IntakeDies, Ripen,
         ServiceDelivers, ServiceGivesUp, SentCallback, Raises,
         RunnerDies, FailedCallback, ReadLog, ResetTimers, DeleteFailed, HandlerDies,
         OtherScenarioSends, OtherScenarioFails, SetMailable
<1>12. QED
  BY <1>2, <1>3, <1>4, <1>5, <1>6, <1>7, <1>8, <1>9, <1>10, <1>11 DEF Tick

LEMMA NextCostInv ==
    OneRunner /\ TypeOK /\ ClaimInv /\ CostInv /\ [Next]_vars => CostInv'
<1> SUFFICES ASSUME OneRunner, TypeOK, ClaimInv, CostInv, [Next]_vars PROVE CostInv'
  OBVIOUS
<1>1. \A o \in Orders : gens[o] \in Nat
  BY ConstantsAssumption DEF TypeOK
<1>2. faults' \in {faults, faults + 1}
  BY ZenonT(40)
     DEF Next, Tick, Webhook, vars, dbVars, countVars, FeedOrder, PostOrder, Enqueue, IntakeDies,
         Ripen, ServiceDelivers, ServiceGivesUp, SentCallback, BeginTick, EndTick, Check, Finish,
         Defer, InsertLog, InsertRefused, MailAccepted, MailRefused, ReplyLost, Undo, Bump, Close,
         Raises, RunnerDies, FailedCallback, ReadLog, ResetTimers, Reschedule, DeleteFailed,
         HandlerDies, OtherScenarioSends, OtherScenarioFails, SetMailable, NextDay
<1>3. CASE gens' = gens
  <2>1. RowsCost'
    <3>1. SUFFICES ASSUME NEW o \in Orders
                   PROVE  gens[o] <= job'[o].attempts + faults' + (IF Spending(o)' THEN 1 ELSE 0)
      BY <1>3 DEF RowsCost
    <3>2. gens[o] <= job[o].attempts + faults + (IF Spending(o) THEN 1 ELSE 0)
      BY DEF CostInv, RowsCost
    <3>3. job'[o].attempts \in Nat
      BY NextTypeOK DEF TypeOK, JobRows
    <3>4. job'[o].attempts >= job[o].attempts
      BY JobWrites
    <3>5. Spending(o) => \/ Spending(o)'
                         \/ job'[o].attempts > job[o].attempts
                         \/ faults' = faults + 1
      BY SpendingLasts
    <3>6. CASE Spending(o)'
      BY <1>1, <1>2, <3>2, <3>3, <3>4, <3>6, Counts
    <3>7. CASE ~Spending(o)'
      BY <1>1, <1>2, <3>2, <3>3, <3>4, <3>5, <3>7, Counts
    <3>8. QED
      BY <3>6, <3>7
  <2>2. LettersBounded'
    BY <1>1, <1>2, <1>3, Counts DEF CostInv, LettersBounded
  <2>3. QED
    BY <2>1, <2>2 DEF CostInv
<1>4. ASSUME NEW r \in Runners, InsertLog(r) PROVE CostInv'
  <2> DEFINE o == cur[r].order
  <2>1. \A s \in Runners : s = r
    BY DEF OneRunner
  <2>2. /\ o \in Orders /\ pc[r] = "insert" /\ job[o].state = "scheduled"
        /\ job[o].attempts < MaxAttempts
    BY <1>4, Counts DEF InsertLog, Working, ClaimInv, WorkIsCurrent
  <2>3. gens[o] <= job[o].attempts + faults
    <3>1. ~Spending(o)
      BY <2>1, <2>2 DEF Spending, Holds
    <3>2. gens[o] <= job[o].attempts + faults + 0
      BY <2>2, <3>1 DEF CostInv, RowsCost
    <3>3. QED
      BY <2>2, <3>2, Counts
  <2>4. /\ gens' = [gens EXCEPT ![o] = @ + 1] /\ job' = job /\ faults' = faults
        /\ pc'[r] = "send" /\ cur'[r].order = o
    BY <1>4 DEF InsertLog, TypeOK, countVars, Works
  <2>5. RowsCost'
    <3>1. \A q \in Orders : q = o => Spending(q)'
      BY <2>4 DEF Spending, Holds
    <3>2. \A q \in Orders : q # o => (Spending(q) <=> Spending(q)')
      BY <2>1, <2>2, <2>4 DEF Spending, Holds
    <3>3. \A q \in Orders : q # o => gens'[q] = gens[q]
      BY <2>4 DEF TypeOK
    <3>4. gens'[o] = gens[o] + 1
      BY <2>2, <2>4 DEF TypeOK
    <3>5. gens'[o] <= job[o].attempts + faults + 1
      BY <1>1, <2>2, <2>3, <3>4, Counts
    <3>6. QED
      BY <2>4, <3>1, <3>2, <3>3, <3>5 DEF CostInv, RowsCost
  <2>6. LettersBounded'
    BY <1>1, <2>2, <2>3, <2>4, Counts DEF CostInv, LettersBounded, TypeOK
  <2>7. QED
    BY <2>5, <2>6 DEF CostInv
<1>5. gens' = gens \/ \E r \in Runners : InsertLog(r)
  BY ZenonT(40)
     DEF Next, Tick, Webhook, vars, dbVars, FeedOrder, PostOrder, Enqueue, IntakeDies,
         Ripen, ServiceDelivers, ServiceGivesUp, SentCallback, BeginTick, EndTick, Check, Finish,
         Defer, InsertRefused, MailAccepted, MailRefused, ReplyLost, Undo, Bump, Close,
         Raises, RunnerDies, FailedCallback, ReadLog, ResetTimers, Reschedule, DeleteFailed,
         HandlerDies, OtherScenarioSends, OtherScenarioFails, SetMailable, NextDay
<1>6. QED
  BY <1>3, <1>4, <1>5

\* An address is written to at most MAX_ATTEMPTS times, and once more for each
\* process that died before it counted its attempt.
THEOREM TriesBounded == ASSUME OneRunner PROVE Spec => []LettersBounded
<1>1. Init => TypeOK /\ ClaimInv /\ CostInv
  BY InitTypeOK, InitClaimInv, InitCostInv
<1>2. TypeOK /\ ClaimInv /\ CostInv /\ [Next]_vars => (TypeOK /\ ClaimInv /\ CostInv)'
  BY NextTypeOK, NextClaimInv, NextCostInv
<1>3. CostInv => LettersBounded
  BY DEF CostInv
<1>4. QED
  BY <1>1, <1>2, <1>3, PTL DEF Spec

-----------------------------------------------------------------------------
(***************************************************************************)
(* One trigger a day, for the users to whom none of the mishaps of the     *)
(* model happened today.  The ticks of such a user are serialized in       *)
(* effect: at most one runner has decided to write to the user and has not *)
(* recorded it, so what the runner read in the timers is still true when   *)
(* the letter leaves.                                                      *)
(***************************************************************************)

\* letters handed over today are the user's own
OwnDay == \A u \in Users : \A l \in sentToday[u] : UserOf[l.order] = u

Closing(r, l) == pc[r] = "close" /\ cur[r].order = l.order /\ cur[r].gen = l.gen

\* a live one is what last_any_trigger_at records, or is about to be
DayIsMarked ==
    \A u \in Users \ mishaps : \A l \in sentToday[u] : Live(l.order, l.gen) =>
        \/ today[u] \in {l, OtherLetter}
        \/ \E r \in Runners : Closing(r, l)

\* one letter at a time is on its way to a user
OneInFlight ==
    \A u \in Users \ mishaps : \A r, s \in Runners : InFlight(r, u) /\ InFlight(s, u) => r = s

\* a runner that is about to send has no live letter of today before it
NoneBefore ==
    \A r \in Runners : pc[r] \in {"insert", "send"} /\ UserOf[cur[r].order] \notin mishaps =>
        \A l \in sentToday[UserOf[cur[r].order]] : ~Live(l.order, l.gen)

\* and one that has just sent has its own only
NoneBeside ==
    \A r \in Runners : pc[r] = "close" /\ UserOf[cur[r].order] \notin mishaps =>
        \A l \in sentToday[UserOf[cur[r].order]] : Live(l.order, l.gen) => Closing(r, l)

DayInv ==
    OwnDay /\ DayIsMarked /\ OneInFlight /\ NoneBefore /\ NoneBeside /\ SecondTriggerNeedsMishap

LEMMA InitDayInv == Init => DayInv
  BY ConstantsAssumption
     DEF Init, DayInv, OwnDay, DayIsMarked, OneInFlight, NoneBefore, NoneBeside, InFlight,
         SecondTriggerNeedsMishap

LEMMA DayFacts ==
    TypeOK => /\ \A u \in Users : \A l \in sentToday[u] :
                    l \in Letters /\ l.order \in Orders /\ l.gen \in Gen
              /\ \A r \in Runners : pc[r] \notin {"idle", "loop"} =>
                    cur[r].order \in Orders /\ UserOf[cur[r].order] \in Users
              /\ \A l \in Letters : l # NoLetter /\ l # OtherLetter
              /\ NoLetter # OtherLetter
  BY ConstantsAssumption DEF TypeOK, Letters, NoLetter, OtherLetter, Gen

\* A step that hands over and settles no letter keeps the invariant, if what
\* it leaves unrecorded is a mishap.
LEMMA QuietDay ==
    ASSUME TypeOK, DayInv, UNCHANGED <<sentToday, fate>>, mishaps \subseteq mishaps',
           \A u \in Users \ mishaps' : today'[u] \in {today[u], OtherLetter},
           \A r \in Runners :
              /\ pc'[r] = "close" => pc[r] = "close" /\ cur'[r] = cur[r]
              /\ pc[r] = "close" /\ UserOf[cur[r].order] \notin mishaps' =>
                    pc'[r] = "close" /\ cur'[r] = cur[r]
              /\ pc'[r] \in {"insert", "send"} =>
                    pc[r] \in {"insert", "send"} /\ cur'[r].order = cur[r].order
    PROVE  DayInv'
<1>1. OwnDay'
  BY DEF DayInv, OwnDay
<1>2. DayIsMarked'
  <2>1. SUFFICES ASSUME NEW u \in Users \ mishaps', NEW l \in sentToday[u],
                        Live(l.order, l.gen)
                 PROVE  \/ today'[u] \in {l, OtherLetter}
                        \/ \E r \in Runners : Closing(r, l)'
    BY DEF DayIsMarked, Live
  <2>2. \/ today[u] \in {l, OtherLetter}
        \/ \E r \in Runners : Closing(r, l)
    BY <2>1 DEF DayInv, DayIsMarked
  <2>3. UserOf[l.order] = u
    BY <2>1 DEF DayInv, OwnDay
  <2>4. QED
    BY <2>1, <2>2, <2>3 DEF Closing
<1>3. \A r \in Runners, u \in Users : InFlight(r, u)' => InFlight(r, u)
  BY DEF InFlight
<1>4. OneInFlight'
  BY <1>3 DEF DayInv, OneInFlight
<1>5. NoneBefore'
  BY DEF DayInv, NoneBefore, Live
<1>6. NoneBeside'
  BY DEF DayInv, NoneBeside, Live, Closing
<1>7. SecondTriggerNeedsMishap'
  BY DEF DayInv, SecondTriggerNeedsMishap, Live
<1>8. QED
  BY <1>1, <1>2, <1>4, <1>5, <1>6, <1>7 DEF DayInv

\* The service settles a letter.
LEMMA FateDay ==
    ASSUME TypeOK, DayInv, NEW o \in Orders, NEW g \in Gen, Live(o, g),
           NEW f \in {"sent", "failed"}, fate' = [fate EXCEPT ![o][g] = f],
           UNCHANGED <<sentToday, mishaps, today, pc, cur>>
    PROVE  DayInv'
<1>1. \A q \in Orders, k \in Gen : Live(q, k)' => Live(q, k)
  BY DEF Live, TypeOK
<1>2. OwnDay' /\ OneInFlight'
  BY DEF DayInv, OwnDay, OneInFlight, InFlight
<1>3. \A u \in Users : \A l \in sentToday[u] : Live(l.order, l.gen)' => Live(l.order, l.gen)
  BY <1>1, DayFacts
<1>4. DayIsMarked'
  BY <1>3 DEF DayInv, DayIsMarked, Closing
<1>5. NoneBefore'
  <2>1. SUFFICES ASSUME NEW r \in Runners, pc[r] \in {"insert", "send"},
                        UserOf[cur[r].order] \notin mishaps,
                        NEW l \in sentToday[UserOf[cur[r].order]]
                 PROVE  ~Live(l.order, l.gen)'
    BY DEF NoneBefore
  <2>2. ~Live(l.order, l.gen)
    BY <2>1 DEF DayInv, NoneBefore
  <2>3. QED
    BY <2>1, <2>2, <1>3, DayFacts
<1>6. NoneBeside'
  <2>1. SUFFICES ASSUME NEW r \in Runners, pc[r] = "close",
                        UserOf[cur[r].order] \notin mishaps,
                        NEW l \in sentToday[UserOf[cur[r].order]], Live(l.order, l.gen)'
                 PROVE  Closing(r, l)
    BY DEF NoneBeside, Closing
  <2>2. Live(l.order, l.gen)
    BY <2>1, <1>3, DayFacts
  <2>3. QED
    BY <2>1, <2>2 DEF DayInv, NoneBeside
<1>7. SecondTriggerNeedsMishap'
  BY <1>3 DEF DayInv, SecondTriggerNeedsMishap
<1>8. QED
  BY <1>2, <1>4, <1>5, <1>6, <1>7 DEF DayInv

\* A tick that decides for a letter has found the timers free, and nobody else
\* is about to write to the user, or it is a mishap.
LEMMA CheckDay ==
    ASSUME TypeOK, DayInv, NEW r \in Runners, Check(r)
    PROVE  DayInv'
<1>0. PICK j \in todo[r] : \E v \in Verdicts(j) :
          /\ cur' = [cur EXCEPT ![r] =
                        [order |-> j.order, attempts |-> j.attempts, gen |-> 0]]
          /\ pc' = [pc EXCEPT ![r] = v]
          /\ mishaps' = mishaps \union
                {u \in {UserOf[j.order]} : v = "insert" /\ \E s \in Runners : InFlight(s, u)}
  BY DEF Check
<1>1. PICK v \in Verdicts(j) :
          /\ cur' = [cur EXCEPT ![r] =
                        [order |-> j.order, attempts |-> j.attempts, gen |-> 0]]
          /\ pc' = [pc EXCEPT ![r] = v]
          /\ mishaps' = mishaps \union
                {u \in {UserOf[j.order]} : v = "insert" /\ \E s \in Runners : InFlight(s, u)}
  BY <1>0
<1> DEFINE w == UserOf[j.order]
<1>2. /\ UNCHANGED <<sentToday, fate, today>> /\ pc[r] = "loop"
      /\ cur'[r].order = j.order /\ j.order \in Orders /\ w \in Users
      /\ \A s \in Runners : s # r => pc'[s] = pc[s] /\ cur'[s] = cur[s]
      /\ pc'[r] = v /\ mishaps \subseteq mishaps'
  BY <1>1, ConstantsAssumption DEF Check, TypeOK, dbVars
<1>3. v \in {"fail", "cancel", "defer", "insert"}
  BY DEF Verdicts
<1>4. CASE v # "insert"
  BY <1>2, <1>3, <1>4, QuietDay
<1>5. CASE v = "insert"
  <2>1. today[w] = NoLetter
    <3>1. j.attempts \in Nat /\ MaxAttempts \in Nat
      BY ConstantsAssumption DEF TypeOK
    <3>2. QED
      BY <3>1, <1>5 DEF Verdicts
  <2>2. w \notin mishaps' => w \notin mishaps /\ \A s \in Runners : ~InFlight(s, w)
    BY <1>1, <1>2, <1>5
  <2>3. w \notin mishaps' => \A l \in sentToday[w] : ~Live(l.order, l.gen)
    <3>1. SUFFICES ASSUME w \notin mishaps', NEW l \in sentToday[w], Live(l.order, l.gen)
                   PROVE  FALSE
      OBVIOUS
    <3>2. today[w] \notin {l, OtherLetter}
      BY <2>1, <3>1, <1>2, DayFacts
    <3>3. PICK s \in Runners : Closing(s, l)
      BY <3>1, <3>2, <2>2, <1>2 DEF DayInv, DayIsMarked
    <3>4. InFlight(s, w)
      BY <3>1, <3>3, <1>2 DEF DayInv, OwnDay, Closing, InFlight
    <3>5. QED
      BY <3>1, <3>4, <2>2
  <2>4. OwnDay' /\ SecondTriggerNeedsMishap'
    BY <1>2 DEF DayInv, OwnDay, SecondTriggerNeedsMishap, Live
  <2>5. DayIsMarked'
    <3>1. \A l \in Letters, s \in Runners : Closing(s, l) => Closing(s, l)'
      BY <1>2 DEF Closing
    <3>2. SUFFICES ASSUME NEW u \in Users \ mishaps', NEW l \in sentToday[u],
                          Live(l.order, l.gen)
                   PROVE  \/ today[u] \in {l, OtherLetter}
                          \/ \E s \in Runners : Closing(s, l)'
      BY <1>2 DEF DayIsMarked, Live
    <3>3. \/ today[u] \in {l, OtherLetter}
          \/ \E s \in Runners : Closing(s, l)
      BY <3>2, <1>2 DEF DayInv, DayIsMarked
    <3>4. QED
      BY <3>1, <3>2, <3>3, DayFacts
  <2>6. OneInFlight'
    <3>1. SUFFICES ASSUME NEW u \in Users \ mishaps', NEW s \in Runners, NEW t \in Runners,
                          InFlight(s, u)', InFlight(t, u)'
                   PROVE  s = t
      BY DEF OneInFlight
    <3>2. \A q \in Runners : q # r /\ InFlight(q, u)' => InFlight(q, u)
      BY <1>2 DEF InFlight
    <3>3. InFlight(r, u)' => u = w
      BY <1>2 DEF InFlight
    <3>4. u \notin mishaps
      BY <1>2
    <3>5. QED
      BY <3>1, <3>2, <3>3, <3>4, <2>2 DEF DayInv, OneInFlight
  <2>7. NoneBefore'
    <3>1. SUFFICES ASSUME NEW s \in Runners, pc'[s] \in {"insert", "send"},
                          UserOf[cur'[s].order] \notin mishaps',
                          NEW l \in sentToday[UserOf[cur'[s].order]]
                   PROVE  ~Live(l.order, l.gen)
      BY <1>2 DEF NoneBefore, Live
    <3>2. CASE s = r
      BY <3>1, <3>2, <2>3, <1>2
    <3>3. CASE s # r
      BY <3>1, <3>3, <1>2 DEF DayInv, NoneBefore
    <3>4. QED
      BY <3>2, <3>3
  <2>8. NoneBeside'
    BY <1>2, <1>5 DEF DayInv, NoneBeside, Live, Closing
  <2>9. QED
    BY <2>4, <2>5, <2>6, <2>7, <2>8 DEF DayInv
<1>6. QED
  BY <1>4, <1>5

\* A letter is taken by the service: its user, of whom the timers know nothing
\* yet, is held by this runner alone; or the answer is lost, a mishap.
LEMMA AcceptDay ==
    ASSUME TypeOK, DayInv, NEW r \in Runners, MailAccepted(r) \/ ReplyLost(r)
    PROVE  DayInv'
<1> DEFINE o == cur[r].order
           g == cur[r].gen
           u == UserOf[o]
<1>1. pc[r] = "send" /\ o \in Orders /\ g \in Gen /\ u \in Users
  BY DayFacts DEF MailAccepted, ReplyLost, TypeOK
<1>2. /\ sentToday'[u] = sentToday[u] \union {[order |-> o, gen |-> g]}
      /\ \A v \in Users : v # u => sentToday'[v] = sentToday[v]
      /\ \A q \in Orders, k \in Gen : <<q, k>> # <<o, g>> => fate'[q][k] = fate[q][k]
      /\ \A s \in Runners : s # r => pc'[s] = pc[s]
      /\ cur' = cur /\ today' = today /\ mishaps \subseteq mishaps'
  BY <1>1 DEF MailAccepted, ReplyLost, TypeOK, dbVars, countVars
<1>3. u \notin mishaps' => pc'[r] = "close"
  BY <1>1 DEF MailAccepted, ReplyLost, TypeOK
<1>4. pc'[r] \in {"close", "undo"}
  BY <1>1 DEF MailAccepted, ReplyLost, TypeOK
<1>5. OwnDay'
  BY <1>1, <1>2 DEF DayInv, OwnDay
<1>6. \A v \in Users : \A l \in sentToday[v] :
         v # u => Live(l.order, l.gen)' = Live(l.order, l.gen)
  BY <1>1, <1>2, DayFacts DEF DayInv, OwnDay, Live
<1>7. u \notin mishaps' =>
         \A l \in sentToday'[u] : Live(l.order, l.gen)' => l.order = o /\ l.gen = g
  <2>1. SUFFICES ASSUME u \notin mishaps', NEW l \in sentToday[u],
                        <<l.order, l.gen>> # <<o, g>>
                 PROVE  ~Live(l.order, l.gen)'
    BY <1>2
  <2>2. ~Live(l.order, l.gen)
    BY <2>1, <1>1, <1>2 DEF DayInv, NoneBefore
  <2>3. QED
    BY <2>1, <2>2, <1>1, <1>2, DayFacts DEF Live
<1>8. u \notin mishaps' => \A s \in Runners : s # r => ~InFlight(s, u)
  <2>1. InFlight(r, u)
    BY <1>1 DEF InFlight
  <2>2. QED
    BY <2>1, <1>1, <1>2 DEF DayInv, OneInFlight
<1>9. DayIsMarked'
  <2>1. SUFFICES ASSUME NEW v \in Users \ mishaps', NEW l \in sentToday'[v],
                        Live(l.order, l.gen)'
                 PROVE  \/ today[v] \in {l, OtherLetter}
                        \/ \E s \in Runners : Closing(s, l)'
    BY <1>2 DEF DayIsMarked
  <2>2. CASE v = u
    BY <2>1, <2>2, <1>2, <1>3, <1>7 DEF Closing
  <2>3. CASE v # u
    <3>1. l \in sentToday[v] /\ Live(l.order, l.gen)
      BY <2>1, <2>3, <1>2, <1>6
    <3>2. \/ today[v] \in {l, OtherLetter}
          \/ \E s \in Runners : Closing(s, l)
      BY <2>1, <3>1, <1>2 DEF DayInv, DayIsMarked
    <3>3. \A s \in Runners : Closing(s, l) => Closing(s, l)'
      BY <1>1, <1>2 DEF Closing
    <3>4. QED
      BY <3>2, <3>3
  <2>4. QED
    BY <2>2, <2>3
<1>10. OneInFlight'
  <2>1. \A s \in Runners, v \in Users : InFlight(s, v)' => InFlight(s, v)
    BY <1>1, <1>2 DEF InFlight
  <2>2. QED
    BY <2>1, <1>2 DEF DayInv, OneInFlight
<1>11. NoneBefore'
  <2>1. SUFFICES ASSUME NEW s \in Runners, pc'[s] \in {"insert", "send"},
                        UserOf[cur[s].order] \notin mishaps',
                        NEW l \in sentToday'[UserOf[cur[s].order]]
                 PROVE  ~Live(l.order, l.gen)'
    BY <1>2 DEF NoneBefore
  <2>2. s # r /\ pc[s] \in {"insert", "send"} /\ UserOf[cur[s].order] \in Users
    BY <2>1, <1>2, <1>4, DayFacts
  <2>3. UserOf[cur[s].order] # u
    BY <2>1, <2>2, <1>8 DEF InFlight
  <2>4. ~Live(l.order, l.gen) /\ l \in sentToday[UserOf[cur[s].order]]
    BY <2>1, <2>2, <2>3, <1>2 DEF DayInv, NoneBefore
  <2>5. QED
    BY <2>2, <2>3, <2>4, <1>6
<1>12. NoneBeside'
  <2>1. SUFFICES ASSUME NEW s \in Runners, pc'[s] = "close",
                        UserOf[cur[s].order] \notin mishaps',
                        NEW l \in sentToday'[UserOf[cur[s].order]], Live(l.order, l.gen)'
                 PROVE  Closing(s, l)'
    BY <1>2 DEF NoneBeside
  <2>2. CASE s = r
    BY <2>1, <2>2, <1>2, <1>7 DEF Closing
  <2>3. CASE s # r
    <3>1. pc[s] = "close" /\ UserOf[cur[s].order] \in Users
      BY <2>1, <2>3, <1>2, DayFacts
    <3>2. UserOf[cur[s].order] # u
      BY <2>1, <2>3, <3>1, <1>8 DEF InFlight
    <3>3. Live(l.order, l.gen) /\ l \in sentToday[UserOf[cur[s].order]]
      BY <2>1, <3>1, <3>2, <1>2, <1>6
    <3>4. Closing(s, l)
      BY <2>1, <3>1, <3>3, <1>2 DEF DayInv, NoneBeside
    <3>5. QED
      BY <2>1, <3>4, <1>2 DEF Closing
  <2>4. QED
    BY <2>2, <2>3
<1>13. SecondTriggerNeedsMishap'
  <2>1. SUFFICES ASSUME NEW v \in Users \ mishaps', NEW l1 \in sentToday'[v],
                        NEW l2 \in sentToday'[v],
                        Live(l1.order, l1.gen)', Live(l2.order, l2.gen)'
                 PROVE  l1 = l2
    BY DEF SecondTriggerNeedsMishap
  <2>2. l1 \in Letters /\ l2 \in Letters
    <3>1. [order |-> o, gen |-> g] \in Letters /\ sentToday[v] \subseteq Letters
      BY <1>1, DayFacts DEF Letters
    <3>2. QED
      BY <3>1, <1>2
  <2>3. CASE v = u
    BY <2>1, <2>2, <2>3, <1>7 DEF Letters
  <2>4. CASE v # u
    <3>1. /\ l1 \in sentToday[v] /\ l2 \in sentToday[v]
          /\ Live(l1.order, l1.gen) /\ Live(l2.order, l2.gen)
      BY <2>1, <2>4, <1>2, <1>6
    <3>2. QED
      BY <3>1, <1>2 DEF DayInv, SecondTriggerNeedsMishap
  <2>5. QED
    BY <2>3, <2>4
<1>14. QED
  BY <1>5, <1>9, <1>10, <1>11, <1>12, <1>13 DEF DayInv

\* The closing transaction records the letter it closes.
LEMMA CloseDay ==
    ASSUME TypeOK, DayInv, NEW r \in Runners, Close(r)
    PROVE  DayInv'
<1> DEFINE o == cur[r].order
           g == cur[r].gen
           u == UserOf[o]
<1>1. pc[r] = "close" /\ o \in Orders /\ g \in Gen /\ u \in Users
  BY DayFacts DEF Close, TypeOK
<1>2. /\ today'[u] = [order |-> o, gen |-> g]
      /\ \A v \in Users : v # u => today'[v] = today[v]
      /\ UNCHANGED <<sentToday, fate, mishaps>> /\ pc'[r] = "loop"
      /\ \A s \in Runners : s # r => pc'[s] = pc[s] /\ cur'[s] = cur[s]
  BY <1>1 DEF Close, TypeOK, countVars
<1>3. OwnDay' /\ SecondTriggerNeedsMishap'
  BY <1>2 DEF DayInv, OwnDay, SecondTriggerNeedsMishap, Live
<1>4. DayIsMarked'
  <2>1. SUFFICES ASSUME NEW v \in Users \ mishaps, NEW l \in sentToday[v], Live(l.order, l.gen)
                 PROVE  \/ today'[v] \in {l, OtherLetter}
                        \/ \E s \in Runners : Closing(s, l)'
    BY <1>2 DEF DayIsMarked, Live
  <2>2. l \in Letters /\ UserOf[l.order] = v
    BY <2>1, DayFacts DEF DayInv, OwnDay
  <2>3. CASE v = u
    <3>1. l.order = o /\ l.gen = g
      BY <2>1, <2>3, <1>1 DEF DayInv, NoneBeside, Closing
    <3>2. l = [order |-> o, gen |-> g]
      BY <2>2, <3>1 DEF Letters
    <3>3. QED
      BY <3>2, <2>3, <1>2
  <2>4. CASE v # u
    <3>1. l.order # o
      BY <2>2, <2>4
    <3>2. \A s \in Runners : Closing(s, l) => Closing(s, l)'
      BY <3>1, <1>2 DEF Closing
    <3>3. \/ today[v] \in {l, OtherLetter}
          \/ \E s \in Runners : Closing(s, l)
      BY <2>1 DEF DayInv, DayIsMarked
    <3>4. QED
      BY <2>1, <2>4, <3>2, <3>3, <1>2
  <2>5. QED
    BY <2>3, <2>4
<1>5. OneInFlight' /\ NoneBefore' /\ NoneBeside'
  <2>1. \A s \in Runners, v \in Users : InFlight(s, v)' => InFlight(s, v)
    BY <1>2 DEF InFlight
  <2>2. OneInFlight'
    BY <2>1, <1>2 DEF DayInv, OneInFlight
  <2>3. NoneBefore' /\ NoneBeside'
    BY <1>2 DEF DayInv, NoneBefore, NoneBeside, Live, Closing
  <2>4. QED
    BY <2>2, <2>3
<1>6. QED
  BY <1>3, <1>4, <1>5 DEF DayInv

\* The timers are reset for a failed letter only, so no live one loses them.
LEMMA ResetDay ==
    ASSUME TypeOK, DayInv, TakesBackFailed, NEW h \in Handlers, ResetTimers(h)
    PROVE  DayInv'
<1> DEFINE l == hletter[h]
<1>1. l \in Letters /\ l.order \in Orders /\ ~Live(l.order, l.gen)
  BY DEF ResetTimers, TypeOK, TakesBackFailed, Letters, Live
<1>2. /\ UNCHANGED <<sentToday, fate, mishaps, pc, cur>>
      /\ \A v \in Users : \/ today'[v] = today[v]
                          \/ today[v] = l
  BY <1>1 DEF ResetTimers, TypeOK, runnerVars, countVars
<1>3. OwnDay' /\ OneInFlight' /\ NoneBefore' /\ NoneBeside' /\ SecondTriggerNeedsMishap'
  BY <1>2
     DEF DayInv, OwnDay, OneInFlight, InFlight, NoneBefore, NoneBeside, Closing,
         SecondTriggerNeedsMishap, Live
<1>4. DayIsMarked'
  <2>1. SUFFICES ASSUME NEW v \in Users \ mishaps, NEW k \in sentToday[v], Live(k.order, k.gen)
                 PROVE  \/ today'[v] \in {k, OtherLetter}
                        \/ \E r \in Runners : Closing(r, k)
    BY <1>2 DEF DayIsMarked, Live, Closing
  <2>2. today[v] \in {k, OtherLetter} => today[v] # l
    BY <2>1, <1>1, DayFacts
  <2>3. QED
    BY <2>1, <2>2, <1>2 DEF DayInv, DayIsMarked
<1>5. QED
  BY <1>3, <1>4 DEF DayInv

\* A letter of another scenario fails and takes the timers with it.
LEMMA OtherFailsDay ==
    ASSUME TypeOK, DayInv, NEW u \in Users, OtherScenarioFails(u)
    PROVE  DayInv'
<1>1. /\ UNCHANGED <<sentToday, fate, pc, cur>> /\ mishaps \subseteq mishaps'
      /\ \A v \in Users : v # u => today'[v] = today[v]
      /\ u \notin mishaps' => \A l \in sentToday[u] : ~Live(l.order, l.gen)
  BY DEF OtherScenarioFails, TypeOK, runnerVars
<1>2. OwnDay' /\ OneInFlight' /\ NoneBefore' /\ NoneBeside' /\ SecondTriggerNeedsMishap'
  BY <1>1
     DEF DayInv, OwnDay, OneInFlight, InFlight, NoneBefore, NoneBeside, Closing,
         SecondTriggerNeedsMishap, Live
<1>3. DayIsMarked'
  BY <1>1 DEF DayInv, DayIsMarked, Live, Closing
<1>4. QED
  BY <1>2, <1>3 DEF DayInv

\* Midnight: nothing was sent yet today, and two runners that write to one user
\* remain a mishap.
LEMMA MidnightDay == ASSUME TypeOK, DayInv, NextDay PROVE DayInv'
<1>1. /\ sentToday' = [u \in Users |-> {}] /\ UNCHANGED <<pc, cur>>
      /\ UserOf \in [Orders -> Users]
  BY ConstantsAssumption DEF NextDay, runnerVars
<1>2. \A r \in Runners : pc'[r] \in {"insert", "send", "close"} =>
            cur'[r].order \in Orders /\ UserOf[cur'[r].order] \in Users
  BY <1>1, DayFacts
<1>3. OwnDay' /\ DayIsMarked' /\ NoneBefore' /\ NoneBeside' /\ SecondTriggerNeedsMishap'
  BY <1>1, <1>2 DEF OwnDay, DayIsMarked, NoneBefore, NoneBeside, SecondTriggerNeedsMishap
<1>4. OneInFlight'
  <2>1. SUFFICES ASSUME NEW u \in Users \ mishaps', NEW r \in Runners, NEW s \in Runners,
                        InFlight(r, u), InFlight(s, u)
                 PROVE  r = s
    BY <1>1 DEF OneInFlight, InFlight
  <2>2. CASE u \in mishaps
    BY <2>1, <2>2 DEF NextDay
  <2>3. CASE u \notin mishaps
    BY <2>1, <2>3 DEF DayInv, OneInFlight
  <2>4. QED
    BY <2>2, <2>3
<1>5. QED
  BY <1>3, <1>4 DEF DayInv

LEMMA NextDayInv == TypeOK /\ TakesBackFailed /\ DayInv /\ [Next]_vars => DayInv'
<1> SUFFICES ASSUME TypeOK, TakesBackFailed, DayInv, [Next]_vars
             PROVE  DayInv'
  OBVIOUS
<1>1. ASSUME NEW o \in Orders, NEW s \in {"open", "cancelled"}, FeedOrder(o, s) PROVE DayInv'
  BY <1>1, QuietDay DEF FeedOrder, runnerVars, countVars
<1>2. ASSUME NEW o \in Orders, PostOrder(o) PROVE DayInv'
  BY <1>2, QuietDay DEF PostOrder, runnerVars, countVars
<1>3. ASSUME NEW o \in Orders, Enqueue(o) PROVE DayInv'
  BY <1>3, QuietDay DEF Enqueue, runnerVars, countVars
<1>4. ASSUME NEW o \in Orders, IntakeDies(o) PROVE DayInv'
  BY <1>4, QuietDay DEF IntakeDies, runnerVars
<1>5. ASSUME NEW o \in Orders, Ripen(o) PROVE DayInv'
  BY <1>5, QuietDay DEF Ripen, runnerVars, countVars
<1>6. ASSUME NEW o \in Orders, NEW g \in Gen, ServiceDelivers(o, g) PROVE DayInv'
  <2>1. /\ Live(o, g) /\ fate' = [fate EXCEPT ![o][g] = "sent"]
        /\ UNCHANGED <<sentToday, mishaps, today, pc, cur>>
    BY <1>6 DEF ServiceDelivers, Live, dbVars, runnerVars, countVars
  <2>2. QED
    BY <2>1, FateDay
<1>7. ASSUME NEW o \in Orders, NEW g \in Gen, ServiceGivesUp(o, g) PROVE DayInv'
  <2>1. /\ Live(o, g) /\ fate' = [fate EXCEPT ![o][g] = "failed"]
        /\ UNCHANGED <<sentToday, mishaps, today, pc, cur>>
    BY <1>7 DEF ServiceGivesUp, Live, dbVars, runnerVars, countVars
  <2>2. QED
    BY <2>1, FateDay
<1>8. ASSUME NEW o \in Orders, NEW g \in Gen, SentCallback(o, g) PROVE DayInv'
  BY <1>8, QuietDay DEF SentCallback, runnerVars, countVars
<1>9. ASSUME NEW r \in Runners, BeginTick(r) PROVE DayInv'
  BY <1>9, QuietDay DEF BeginTick, TypeOK, dbVars, countVars
<1>10. ASSUME NEW r \in Runners, EndTick(r) PROVE DayInv'
  BY <1>10, QuietDay DEF EndTick, TypeOK, dbVars, countVars
<1>11. ASSUME NEW r \in Runners, Check(r) PROVE DayInv'
  BY <1>11, CheckDay
<1>12. ASSUME NEW r \in Runners, Finish(r) PROVE DayInv'
  BY <1>12, QuietDay DEF Finish, TypeOK, countVars
<1>13. ASSUME NEW r \in Runners, Defer(r) PROVE DayInv'
  BY <1>13, QuietDay DEF Defer, TypeOK, countVars
<1>14. ASSUME NEW r \in Runners, InsertLog(r) PROVE DayInv'
  <2>1. cur'[r].order = cur[r].order
    BY <1>14 DEF InsertLog, TypeOK, Works
  <2>2. QED
    BY <1>14, <2>1, QuietDay DEF InsertLog, TypeOK, countVars
<1>15. ASSUME NEW r \in Runners, InsertRefused(r) PROVE DayInv'
  BY <1>15, QuietDay DEF InsertRefused, TypeOK, dbVars, countVars
<1>16. ASSUME NEW r \in Runners, MailAccepted(r) \/ ReplyLost(r) PROVE DayInv'
  BY <1>16, AcceptDay
<1>17. ASSUME NEW r \in Runners, MailRefused(r) PROVE DayInv'
  BY <1>17, QuietDay DEF MailRefused, TypeOK, dbVars, countVars
<1>18. ASSUME NEW r \in Runners, Undo(r) PROVE DayInv'
  BY <1>18, QuietDay DEF Undo, TypeOK, countVars
<1>19. ASSUME NEW r \in Runners, Bump(r) PROVE DayInv'
  <2>1. /\ pc[r] = "bump" /\ pc'[r] \in {"fail", "loop"}
        /\ \A s \in Runners : s # r => pc'[s] = pc[s] /\ cur'[s] = cur[s]
    BY <1>19 DEF Bump, TypeOK
  <2>2. QED
    BY <1>19, <2>1, QuietDay DEF Bump, countVars
<1>20. ASSUME NEW r \in Runners, Close(r) PROVE DayInv'
  BY <1>20, CloseDay
<1>21. ASSUME NEW h \in Handlers, FailedCallback(h) PROVE DayInv'
  BY <1>21, QuietDay DEF FailedCallback, runnerVars, countVars
<1>22. ASSUME NEW h \in Handlers, ReadLog(h) PROVE DayInv'
  BY <1>22, QuietDay DEF ReadLog, dbVars, runnerVars, countVars
<1>23. ASSUME NEW h \in Handlers, ResetTimers(h) PROVE DayInv'
  BY <1>23, ResetDay
<1>24. ASSUME NEW h \in Handlers, Reschedule(h) PROVE DayInv'
  BY <1>24, QuietDay DEF Reschedule, runnerVars, countVars
<1>25. ASSUME NEW h \in Handlers, DeleteFailed(h) PROVE DayInv'
  BY <1>25, QuietDay DEF DeleteFailed, runnerVars, countVars
<1>26. ASSUME NEW u \in Users, OtherScenarioSends(u) PROVE DayInv'
  BY <1>26, QuietDay DEF OtherScenarioSends, runnerVars, TypeOK, countVars
<1>27. ASSUME NEW u \in Users, NEW m \in BOOLEAN, SetMailable(u, m) PROVE DayInv'
  BY <1>27, QuietDay DEF SetMailable, runnerVars, countVars
<1>28. CASE NextDay
  BY <1>28, MidnightDay
<1>29. CASE UNCHANGED vars
  BY <1>29, QuietDay DEF vars, dbVars, runnerVars, countVars
<1>30. ASSUME NEW r \in Runners, Raises(r) \/ RunnerDies(r) PROVE DayInv'
  <2>1. /\ UNCHANGED <<sentToday, fate, today>> /\ mishaps' = mishaps \union Unrecorded(r)
        /\ pc'[r] \in {"bump", "idle"}
        /\ \A s \in Runners : s # r => pc'[s] = pc[s] /\ cur'[s] = cur[s]
    BY <1>30 DEF Raises, RunnerDies, TypeOK, dbVars
  <2>2. pc[r] = "close" => UserOf[cur[r].order] \in mishaps'
    BY <2>1, DayFacts DEF Unrecorded, InFlight
  <2>3. QED
    BY <2>1, <2>2, QuietDay
<1>31. ASSUME NEW h \in Handlers, HandlerDies(h) PROVE DayInv'
  BY <1>31, QuietDay DEF HandlerDies, dbVars, runnerVars
<1>32. ASSUME NEW u \in Users, OtherScenarioFails(u) PROVE DayInv'
  BY <1>32, OtherFailsDay
<1>33. QED
  BY <1>1, <1>2, <1>3, <1>4, <1>5, <1>6, <1>7, <1>8, <1>9, <1>10, <1>11, <1>12,
     <1>13, <1>14, <1>15, <1>16, <1>17, <1>18, <1>19, <1>20, <1>21, <1>22, <1>23,
     <1>24, <1>25, <1>26, <1>27, <1>28, <1>29, <1>30, <1>31, <1>32
     DEF Next, Tick, Webhook

\* A second letter of one day, for any number of processes that tick at once,
\* any faults and any lost replies: whatever the callbacks take back and
\* whenever the days pass, it takes one of the mishaps of the model.  With
\* none of them, the daily limit of the code holds.
THEOREM SecondTriggerADay == Spec => []SecondTriggerNeedsMishap
<1>1. Init => TypeOK /\ ClosingInv /\ DayInv
  BY InitTypeOK, InitClosingInv, InitDayInv
<1>2. TypeOK /\ ClosingInv /\ DayInv /\ [Next]_vars => (TypeOK /\ ClosingInv /\ DayInv)'
  <2>1. ClosingInv => TakesBackFailed
    BY DEF ClosingInv
  <2>2. QED
    BY <2>1, NextTypeOK, NextClosingInv, NextDayInv
<1>3. DayInv => SecondTriggerNeedsMishap
  BY DEF DayInv
<1>4. QED
  BY <1>1, <1>2, <1>3, PTL DEF Spec

=============================================================================
