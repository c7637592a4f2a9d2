------------------------- MODULE CartRecoveryProofs -------------------------
(***************************************************************************)
(* Proofs about CartRecovery, for any number of sessions, subscribers,     *)
(* letters, webhook calls and faults: types, that a buyer gets no letter   *)
(* where the orders table decides, and the cap of one letter per cooldown  *)
(* period where ticks do not overlap.                                      *)
(***************************************************************************)
EXTENDS CartRecovery, FiniteSetTheorems, TLAPS

(***************************************************************************)
(* Types.                                                                  *)
(***************************************************************************)

SessionRows == [state : SessionStates, items : BOOLEAN]

\* Rewriting the state of a session row leaves a session row.
LEMMA SessionUpdates ==
  \A w \in SessionRows :
    \A x \in SessionStates : /\ [w EXCEPT !.state = x] \in SessionRows
                             /\ [w EXCEPT !.state = x].state = x
                             /\ [w EXCEPT !.state = x].items = w.items
  BY DEF SessionRows

\* Numbering the log row of the session in work changes nothing else of it.
LEMMA WorkUpdates ==
  ASSUME NEW w \in Works, NEW n \in Letters
  PROVE  /\ [w EXCEPT !.letter = n] \in Works
         /\ [w EXCEPT !.letter = n].letter = n
         /\ [w EXCEPT !.letter = n].sess = w.sess
         /\ [w EXCEPT !.letter = n].ordered = w.ordered
  BY DEF Works

LEMMA InitTypeOK == Init => TypeOK
<1> SUFFICES ASSUME Init PROVE TypeOK
  OBVIOUS
<1>1. addressee \in [Letters -> Users]
  BY CartAssumption DEF Init
<1>2. sess \in [Sessions -> [state : SessionStates, items : BOOLEAN]]
  BY DEF Init, SessionStates
<1>3. reports \in [Letters -> 0 .. MaxReports]
  BY CartAssumption DEF Init
<1>4. /\ pings \in 0 .. MaxPings /\ failures \in 0 .. MaxFailures
      /\ faults \in 0 .. MaxFaults /\ overlaps \in 0 .. MaxFaults
  BY CartAssumption DEF Init
<1>5. /\ cur \in [Runners -> Works \union {Nothing}]
      /\ todo \in [Runners -> SUBSET Items]
      /\ recent \in [Users -> SUBSET Letters]
  BY DEF Init
<1>6. /\ due \in [Sessions -> BOOLEAN] /\ known \in [Sessions -> BOOLEAN]
      /\ afresh \in [Sessions -> BOOLEAN] /\ mailable \in [Users -> BOOLEAN]
      /\ closed \in [Letters -> BOOLEAN]
      /\ cooling \in [Users -> Letters \union {0}] /\ hletter \in [Handlers -> Letters \union {0}]
  BY DEF Init
<1>7. /\ bought \in [Sessions -> {"no", "yes", "cancelled"}]
      /\ buying \in [Users -> {"idle", "insert"}]
      /\ fate \in [Letters -> {"none", "queued", "sent", "failed"}]
      /\ hpc \in [Handlers -> {"idle", "timers", "reopen"}]
  BY DEF Init
<1>8. /\ pc \in [Runners -> {"idle", "select", "loop", "recheck", "insert", "send", "close",
                            "converted", "sent"}]
      /\ \A r \in Runners : pc[r] = "idle"
      /\ \A h \in Handlers : hpc[h] = "idle"
  BY DEF Init
<1>9. QED
  BY <1>1, <1>2, <1>3, <1>4, <1>5, <1>6, <1>7, <1>8 DEF TypeOK

\* The actions of the shop and the clock touch neither letters nor runners nor
\* handlers (the clock of a cooldown apart).
LEMMA OutsideTypeOK ==
  ASSUME TypeOK,
         \/ \E s \in Sessions : TimeoutPasses(s)
         \/ \E s \in Sessions : \E some, refill \in BOOLEAN : Ping(s, some, refill)
         \/ \E u \in Users : \/ ReportOrder(u) \/ InsertOrder(u) \/ OrderRequestDies(u)
                             \/ FeedOrder(u) \/ FeedCancel(u) \/ OneCLearns(u)
                             \/ CooldownPasses(u) \/ \E m \in BOOLEAN : SetMailable(u, m)
  PROVE  TypeOK'
<1> USE CartAssumption DEF sessionVars, letterVars, runnerVars, handlerVars, countVars
<1>1. ASSUME NEW s \in Sessions, TimeoutPasses(s) PROVE TypeOK'
  BY <1>1 DEF TimeoutPasses, TypeOK
<1>2. ASSUME NEW s \in Sessions, NEW some \in BOOLEAN, NEW refill \in BOOLEAN,
             Ping(s, some, refill)
      PROVE  TypeOK'
  <2>1. [state |-> "active", items |-> some] \in [state : SessionStates, items : BOOLEAN]
    BY DEF SessionStates
  <2>2. sess' \in [Sessions -> [state : SessionStates, items : BOOLEAN]]
    BY <1>2, <2>1 DEF Ping, TypeOK
  <2>3. pings' \in 0 .. MaxPings
    BY <1>2 DEF Ping, TypeOK
  <2>4. QED
    BY <1>2, <2>2, <2>3 DEF Ping, TypeOK
<1>3. ASSUME NEW u \in Users, ReportOrder(u) PROVE TypeOK'
  <2>1. \A s \in Sessions : sess[s] \in SessionRows /\ "converted" \in SessionStates
    BY DEF TypeOK, SessionRows, SessionStates
  <2>2. \A s \in Sessions : [sess[s] EXCEPT !.state = "converted"] \in SessionRows
    BY <2>1, SessionUpdates
  <2>3. sess' \in [Sessions -> SessionRows]
    BY <1>3, <2>1, <2>2 DEF ReportOrder
  <2>4. due' \in [Sessions -> BOOLEAN]
    BY <1>3 DEF ReportOrder, TypeOK
  <2>5. QED
    BY <1>3, <2>3, <2>4 DEF ReportOrder, TypeOK, SessionRows
<1>4. ASSUME NEW u \in Users, OrderRecorded(u)
      PROVE  /\ bought' \in [Sessions -> {"no", "yes", "cancelled"}]
             /\ afresh' \in [Sessions -> BOOLEAN]
  BY <1>4 DEF OrderRecorded, TypeOK
<1>5. ASSUME NEW u \in Users, InsertOrder(u) PROVE TypeOK'
  BY <1>5, <1>4 DEF InsertOrder, TypeOK
<1>6. ASSUME NEW u \in Users, OrderRequestDies(u) PROVE TypeOK'
  BY <1>6 DEF OrderRequestDies, Fault, TypeOK
<1>7. ASSUME NEW u \in Users, FeedOrder(u) PROVE TypeOK'
  BY <1>7, <1>4 DEF FeedOrder, TypeOK
<1>8. ASSUME NEW u \in Users, FeedCancel(u) PROVE TypeOK'
  BY <1>8 DEF FeedCancel, TypeOK
<1>9. ASSUME NEW u \in Users, OneCLearns(u) PROVE TypeOK'
  BY <1>9 DEF OneCLearns, TypeOK
<1>10. ASSUME NEW u \in Users, CooldownPasses(u) PROVE TypeOK'
  BY <1>10 DEF CooldownPasses, TypeOK
<1>11. ASSUME NEW u \in Users, NEW m \in BOOLEAN, SetMailable(u, m) PROVE TypeOK'
  BY <1>11 DEF SetMailable, TypeOK
<1>12. QED
  BY <1>1, <1>2, <1>3, <1>5, <1>6, <1>7, <1>8, <1>9, <1>10, <1>11

LEMMA TickTypeOK ==
  ASSUME TypeOK, NEW r \in Runners, Tick(r) \/ ReplyLost(r) \/ Raises(r) \/ RunnerDies(r)
  PROVE  TypeOK'
<1> USE CartAssumption DEF sessionVars, letterVars, runnerVars, handlerVars, countVars
<1>0. /\ \A s \in Sessions : sess[s] \in SessionRows
      /\ \A q \in Runners : cur[q] \in Works \union {Nothing}
      /\ pc[r] \notin {"idle", "select", "loop"} => cur[r] \in Works
      /\ \A w \in Works : w.sess \in Sessions /\ w.letter \in Letters \union {0}
      /\ UserOf \in [Sessions -> Users]
  BY DEF TypeOK, SessionRows, Works
<1>1. CASE BeginTick(r)
  <2>1. \A s \in Sessions : [sess[s] EXCEPT !.state = "departed"] \in SessionRows
    BY <1>0, SessionUpdates DEF SessionStates
  <2>2. sess' \in [Sessions -> SessionRows]
    BY <1>1, <1>0, <2>1 DEF BeginTick
  <2>3. /\ due' \in [Sessions -> BOOLEAN]
        /\ pings' \in 0 .. MaxPings /\ failures' \in 0 .. MaxFailures
        /\ faults' \in 0 .. MaxFaults /\ overlaps' \in 0 .. MaxFaults
    BY <1>1 DEF BeginTick, Overlap, TypeOK
  <2>4. QED
    BY <1>1, <2>2, <2>3 DEF BeginTick, TypeOK, SessionRows
<1>2. CASE Select(r)
  <2>1. \A s \in Sessions :
          [sess |-> s, items |-> sess[s].items, ordered |-> bought[s] = "yes",
           refilled |-> afresh[s]] \in Items
    BY <1>0 DEF SessionRows, Items, TypeOK
  <2>2. todo' \in [Runners -> SUBSET Items]
    <3>1. {[sess |-> s, items |-> sess[s].items, ordered |-> bought[s] = "yes",
            refilled |-> afresh[s]] : s \in Gone} \subseteq Items
      BY <2>1 DEF Gone
    <3>2. QED
      BY <1>2, <3>1 DEF Select, TypeOK
  <2>3. QED
    BY <1>2, <2>2 DEF Select, TypeOK
<1>3. CASE EndTick(r)
  BY <1>3 DEF EndTick, TypeOK
<1>4. CASE Gate(r)
  <2>1. PICK j \in todo[r] :
          /\ todo' = [todo EXCEPT ![r] = @ \ {j}]
          /\ cur' = [cur EXCEPT ![r] = [sess |-> j.sess, letter |-> 0, ordered |-> j.ordered,
                                        refilled |-> j.refilled]]
          /\ \E ordered \in OrderPlaced(j.sess) :
                \E v \in Verdicts(j, ordered) : pc' = [pc EXCEPT ![r] = v]
    BY <1>4 DEF Gate
  <2>2. [sess |-> j.sess, letter |-> 0, ordered |-> j.ordered, refilled |-> j.refilled] \in Works
    BY DEF TypeOK, Items, Works
  <2>3. PICK v \in {"sent", "converted", "recheck"} : pc' = [pc EXCEPT ![r] = v]
    BY <2>1 DEF Verdicts
  <2>4. /\ cur' \in [Runners -> Works \union {Nothing}] /\ cur'[r] \in Works
        /\ todo' \in [Runners -> SUBSET Items]
    BY <2>1, <2>2 DEF TypeOK
  <2>5. \A q \in Runners \ {r} : cur'[q] = cur[q] /\ pc'[q] = pc[q]
    BY <2>1, <2>3 DEF TypeOK
  <2>6. QED
    BY <1>4, <2>3, <2>4, <2>5 DEF Gate, TypeOK
<1>5. ASSUME BackToLoop(r)
      PROVE  /\ cur' \in [Runners -> Works \union {Nothing}]
             /\ todo' \in [Runners -> SUBSET Items]
             /\ pc' \in [Runners -> {"idle", "select", "loop", "recheck", "insert", "send",
                                     "close", "converted", "sent"}]
             /\ \A q \in Runners : pc'[q] \notin {"idle", "select", "loop"} => cur'[q] \in Works
             /\ \A q \in Runners : pc'[q] \in {"send", "close"} => cur'[q].letter \in Letters
  BY <1>5 DEF BackToLoop, TypeOK
<1>6. ASSUME NEW s \in Sessions, NEW x \in SessionStates, CloseSession(s, x)
      PROVE  /\ sess' \in [Sessions -> SessionRows] /\ due' \in [Sessions -> BOOLEAN]
             /\ UNCHANGED <<bought, known, afresh, buying>>
  <2>1. [sess[s] EXCEPT !.state = x] \in SessionRows
    BY <1>0, SessionUpdates
  <2>2. QED
    BY <1>6, <2>1 DEF CloseSession, TypeOK, SessionRows
<1>7. CASE Skip(r)
  <2>1. cur[r].sess \in Sessions /\ pc[r] \in SessionStates
    BY <1>7, <1>0 DEF Skip, SessionStates
  <2>2. QED
    BY <1>7, <1>5, <1>6, <2>1 DEF Skip, TypeOK, SessionRows
<1>8. CASE Recheck(r)
  BY <1>8 DEF Recheck, TypeOK
<1>9. CASE InsertLog(r)
  <2>1. PICK n \in Letters :
          /\ cur' = [cur EXCEPT ![r].letter = n]
          /\ fate' = [fate EXCEPT ![n] = "none"]
          /\ closed' = [closed EXCEPT ![n] = FALSE]
          /\ addressee' = [addressee EXCEPT ![n] = UserOf[cur[r].sess]]
          /\ reports' = [reports EXCEPT ![n] = 0]
    BY <1>9 DEF InsertLog, Free
  <2>2. cur[r] \in Works /\ cur[r].sess \in Sessions /\ UserOf[cur[r].sess] \in Users
    BY <1>9, <1>0 DEF InsertLog
  <2>3. [cur[r] EXCEPT !.letter = n] \in Works /\ [cur[r] EXCEPT !.letter = n].letter = n
    BY <2>2, WorkUpdates
  <2>4. /\ cur' \in [Runners -> Works \union {Nothing}]
        /\ cur'[r] \in Works /\ cur'[r].letter = n
        /\ \A q \in Runners \ {r} : cur'[q] = cur[q]
    BY <2>1, <2>3 DEF TypeOK
  <2>5. /\ fate' \in [Letters -> {"none", "queued", "sent", "failed"}]
        /\ closed' \in [Letters -> BOOLEAN]
        /\ addressee' \in [Letters -> Users]
        /\ reports' \in [Letters -> 0 .. MaxReports]
    BY <2>1, <2>2 DEF TypeOK
  <2>6. /\ pc' = [pc EXCEPT ![r] = "send"]
        /\ UNCHANGED <<sess, due, bought, known, afresh, buying, mailable, cooling, recent, todo,
                       hpc, hletter, pings, failures, faults, overlaps>>
    BY <1>9 DEF InsertLog
  <2>7. QED
    BY <2>4, <2>5, <2>6 DEF TypeOK
<1>10. ASSUME pc[r] = "send", HandedOver(cur[r].letter, UserOf[cur[r].sess])
       PROVE  /\ fate' \in [Letters -> {"none", "queued", "sent", "failed"}]
              /\ recent' \in [Users -> SUBSET Letters]
              /\ UNCHANGED <<closed, addressee, reports>>
  <2>1. cur[r].letter \in Letters /\ UserOf[cur[r].sess] \in Users
    BY <1>10, <1>0 DEF TypeOK
  <2>2. QED
    BY <1>10, <2>1 DEF HandedOver, TypeOK
<1>11. CASE MailAccepted(r)
  BY <1>11, <1>10 DEF MailAccepted, TypeOK
<1>12. CASE MailRefused(r)
  BY <1>12, <1>5 DEF MailRefused, TypeOK
<1>13. CASE ReplyLost(r)
  <2>1. faults' \in 0 .. MaxFaults
    BY <1>13 DEF ReplyLost, Fault, TypeOK
  <2>2. QED
    BY <1>13, <1>10, <1>5, <2>1 DEF ReplyLost, Fault, TypeOK
<1>14. CASE Close(r)
  <2>1. cur[r].sess \in Sessions /\ cur[r].letter \in Letters /\ "sent" \in SessionStates
    BY <1>14, <1>0 DEF Close, TypeOK, SessionStates
  <2>2. /\ cooling' \in [Users -> Letters \union {0}]
        /\ closed' \in [Letters -> BOOLEAN]
    BY <1>14, <1>0, <2>1 DEF Close, TypeOK
  <2>3. QED
    BY <1>14, <1>5, <1>6, <2>1, <2>2 DEF Close, TypeOK, SessionRows
<1>15. CASE Raises(r)
  <2>1. faults' \in 0 .. MaxFaults
    BY <1>15 DEF Raises, Fault, TypeOK
  <2>2. QED
    BY <1>15, <1>5, <2>1 DEF Raises, Fault, TypeOK
<1>16. CASE RunnerDies(r)
  BY <1>16 DEF RunnerDies, Fault, TypeOK
<1>17. QED
  BY <1>1, <1>2, <1>3, <1>4, <1>7, <1>8, <1>9, <1>11, <1>12, <1>13, <1>14, <1>15, <1>16 DEF Tick

LEMMA ServiceTypeOK ==
  ASSUME TypeOK,
         \/ \E n \in Letters : ServiceDelivers(n) \/ ServiceGivesUp(n)
         \/ \E h \in Handlers : Webhook(h) \/ HandlerDies(h)
  PROVE  TypeOK'
<1> USE CartAssumption DEF sessionVars, letterVars, runnerVars, handlerVars, countVars
<1>1. ASSUME NEW n \in Letters, ServiceDelivers(n) \/ ServiceGivesUp(n) PROVE TypeOK'
  <2>1. CASE ServiceDelivers(n)
    BY <2>1 DEF ServiceDelivers, TypeOK
  <2>2. CASE ServiceGivesUp(n)
    BY <2>2 DEF ServiceGivesUp, TypeOK
  <2>3. QED
    BY <1>1, <2>1, <2>2
<1>2. ASSUME NEW h \in Handlers, FailedCallback(h) PROVE TypeOK'
  <2>1. PICK n \in Letters :
          /\ reports[n] < MaxReports
          /\ reports' = [reports EXCEPT ![n] = @ + 1]
          /\ \/ hpc' = [hpc EXCEPT ![h] = "timers"] /\ hletter' = [hletter EXCEPT ![h] = n]
             \/ UNCHANGED handlerVars
    BY <1>2 DEF FailedCallback
  <2>2. reports' \in [Letters -> 0 .. MaxReports]
    BY <2>1 DEF TypeOK
  <2>3. CASE hpc' = [hpc EXCEPT ![h] = "timers"] /\ hletter' = [hletter EXCEPT ![h] = n]
    BY <1>2, <2>2, <2>3 DEF FailedCallback, TypeOK
  <2>4. CASE UNCHANGED handlerVars
    BY <1>2, <2>2, <2>4 DEF FailedCallback, TypeOK
  <2>5. QED
    BY <2>1, <2>3, <2>4
<1>3. ASSUME NEW h \in Handlers, ResetTimers(h) PROVE TypeOK'
  BY <1>3 DEF ResetTimers, TypeOK
<1>4. ASSUME NEW h \in Handlers, Reopen(h) PROVE TypeOK'
  <2>1. \A s \in Sessions : sess[s] \in SessionRows
                            /\ [sess[s] EXCEPT !.state = "departed"] \in SessionRows
    <3>1. \A s \in Sessions : sess[s] \in SessionRows /\ "departed" \in SessionStates
      BY DEF TypeOK, SessionRows, SessionStates
    <3>2. QED
      BY <3>1, SessionUpdates
  <2>2. sess' \in [Sessions -> SessionRows]
    BY <1>4, <2>1 DEF Reopen
  <2>3. due' \in [Sessions -> BOOLEAN]
    BY <1>4 DEF Reopen, TypeOK
  <2>4. QED
    BY <1>4, <2>2, <2>3 DEF Reopen, TypeOK, SessionRows
<1>5. ASSUME NEW h \in Handlers, HandlerDies(h) PROVE TypeOK'
  BY <1>5 DEF HandlerDies, Fault, TypeOK
<1>6. QED
  BY <1>1, <1>2, <1>3, <1>4, <1>5 DEF Webhook

LEMMA NextTypeOK == TypeOK /\ [Next]_vars => TypeOK'
<1>1. ASSUME TypeOK, UNCHANGED vars PROVE TypeOK'
  BY <1>1 DEF vars, sessionVars, letterVars, runnerVars, handlerVars, countVars, TypeOK
<1>2. ASSUME TypeOK, Next PROVE TypeOK'
  BY <1>2, OutsideTypeOK, TickTypeOK, ServiceTypeOK DEF Next
<1>3. QED
  BY <1>1, <1>2

\* Every behaviour is well typed, whatever the numbers of sessions, letters and
\* runners; in particular a runner past its loop has a session at hand, one
\* about to send or close has its log row, and a webhook call has its letter.
THEOREM CartTypeCorrect == Spec => []TypeOK
  BY InitTypeOK, NextTypeOK, PTL DEF Spec

(***************************************************************************)
(* No letter to a buyer.  An order never becomes unknown again, only       *)
(* cancelled; so a session that was ordered when it was selected and       *)
(* passes the gate has a cancelled order, and keeps it.                    *)
(***************************************************************************)

RecordedWhenSelected ==
    \A r \in Runners : \A j \in todo[r] : j.ordered => bought[j.sess] # "no"

CancelledIfWritten ==
    \A r \in Runners :
        pc[r] \in {"recheck", "insert", "send"} /\ cur[r].ordered => bought[cur[r].sess] = "cancelled"

BuyerInv == TypeOK /\ RecordedWhenSelected /\ CancelledIfWritten

LEMMA InitBuyerInv == Init => BuyerInv
<1> SUFFICES ASSUME Init PROVE BuyerInv
  OBVIOUS
<1>1. RecordedWhenSelected /\ CancelledIfWritten
  BY DEF Init, RecordedWhenSelected, CancelledIfWritten
<1>2. QED
  BY <1>1, InitTypeOK DEF BuyerInv

\* What the orders table forgets: nothing.
LEMMA OrdersStay ==
  ASSUME TypeOK, NEW u \in Users, OrderRecorded(u) \/ FeedCancel(u)
  PROVE  \A s \in Sessions : /\ bought[s] # "no" => bought'[s] # "no"
                             /\ bought[s] = "cancelled" => bought'[s] = "cancelled"
  BY DEF TypeOK, OrderRecorded, FeedCancel

\* Outside the ticks, orders stay and no runner moves.
LEMMA OutsideBuyerInv ==
  ASSUME BuyerInv, TypeOK', UNCHANGED runnerVars,
         \/ UNCHANGED bought
         \/ \E u \in Users : OrderRecorded(u) \/ FeedCancel(u)
  PROVE  BuyerInv'
<1>1. \A s \in Sessions : /\ bought[s] # "no" => bought'[s] # "no"
                          /\ bought[s] = "cancelled" => bought'[s] = "cancelled"
  BY OrdersStay DEF BuyerInv
<1>2. \A r \in Runners : \A j \in todo[r] : j.sess \in Sessions
  BY DEF BuyerInv, TypeOK, Items
<1>3. \A r \in Runners : pc[r] \in {"recheck", "insert", "send"} => cur[r].sess \in Sessions
  BY DEF BuyerInv, TypeOK, Works
<1>4. RecordedWhenSelected'
  BY <1>1, <1>2 DEF BuyerInv, RecordedWhenSelected, runnerVars
<1>5. CancelledIfWritten'
  BY <1>1, <1>3 DEF BuyerInv, CancelledIfWritten, runnerVars
<1>6. QED
  BY <1>4, <1>5 DEF BuyerInv

\* A runner that writes no letter after the step, and took on nothing, keeps it.
LEMMA LeavingBuyerInv ==
  ASSUME BuyerInv, TypeOK', NEW r \in Runners, UNCHANGED bought,
         \A q \in Runners : todo'[q] \subseteq todo[q],
         \A q \in Runners \ {r} : pc'[q] = pc[q] /\ cur'[q] = cur[q],
         pc'[r] \notin {"recheck", "insert", "send"}
  PROVE  BuyerInv'
  BY DEF BuyerInv, RecordedWhenSelected, CancelledIfWritten

LEMMA TickBuyerInv ==
  ASSUME OneC = FALSE, BuyerInv, TypeOK', NEW r \in Runners,
         Tick(r) \/ ReplyLost(r) \/ Raises(r) \/ RunnerDies(r)
  PROVE  BuyerInv'
<1> USE DEF sessionVars
<1>t. /\ TypeOK /\ RecordedWhenSelected /\ CancelledIfWritten
      /\ pc \in [Runners -> {"idle", "select", "loop", "recheck", "insert", "send", "close",
                             "converted", "sent"}]
      /\ todo \in [Runners -> SUBSET Items]
      /\ cur \in [Runners -> Works \union {Nothing}]
  BY DEF BuyerInv, TypeOK
<1>a. OrderPlaced(cur[r].sess) = {bought[cur[r].sess] = "yes"}
  BY DEF OrderPlaced
<1>1. CASE BeginTick(r) \/ EndTick(r) \/ MailAccepted(r) \/ RunnerDies(r)
  <2>1. /\ \A q \in Runners : todo'[q] \subseteq todo[q]
        /\ \A q \in Runners \ {r} : pc'[q] = pc[q] /\ cur'[q] = cur[q]
        /\ pc'[r] \notin {"recheck", "insert", "send"}
        /\ UNCHANGED bought
    BY <1>1, <1>t DEF BeginTick, EndTick, MailAccepted, RunnerDies
  <2>2. QED
    BY <2>1, LeavingBuyerInv
<1>2. CASE Skip(r) \/ MailRefused(r) \/ ReplyLost(r) \/ Close(r) \/ Raises(r)
  <2>1. BackToLoop(r) /\ UNCHANGED bought
    BY <1>2 DEF Skip, MailRefused, ReplyLost, Close, Raises, CloseSession
  <2>2. /\ \A q \in Runners : todo'[q] \subseteq todo[q]
        /\ \A q \in Runners \ {r} : pc'[q] = pc[q] /\ cur'[q] = cur[q]
        /\ pc'[r] \notin {"recheck", "insert", "send"}
    BY <2>1, <1>t DEF BackToLoop
  <2>3. QED
    BY <2>1, <2>2, LeavingBuyerInv
<1>3. CASE Select(r)
  <2>1. /\ todo' = [todo EXCEPT ![r] =
                      {[sess |-> s, items |-> sess[s].items, ordered |-> bought[s] = "yes",
                        refilled |-> afresh[s]] : s \in Gone}]
        /\ UNCHANGED <<bought, cur>>
        /\ \A q \in Runners \ {r} : pc'[q] = pc[q]
        /\ pc'[r] \in {"idle", "loop"}
    BY <1>3, <1>t DEF Select
  <2>2. ASSUME NEW j \in todo'[r], j.ordered PROVE bought[j.sess] = "yes"
    <3>1. PICK s \in Gone :
            j = [sess |-> s, items |-> sess[s].items, ordered |-> bought[s] = "yes",
                 refilled |-> afresh[s]]
      BY <2>1, <1>t
    <3>2. j.sess = s /\ (j.ordered <=> bought[s] = "yes")
      BY <3>1
    <3>3. QED
      BY <2>2, <3>2
  <2>3. \A q \in Runners \ {r} : todo'[q] = todo[q]
    BY <2>1, <1>t
  <2>4. RecordedWhenSelected'
    BY <2>1, <2>2, <2>3, <1>t DEF RecordedWhenSelected
  <2>5. CancelledIfWritten'
    BY <2>1, <1>t DEF CancelledIfWritten
  <2>6. QED
    BY <2>4, <2>5 DEF BuyerInv
<1>4. CASE Gate(r)
  <2>1. PICK j \in todo[r] :
          /\ todo' = [todo EXCEPT ![r] = @ \ {j}]
          /\ cur' = [cur EXCEPT ![r] = [sess |-> j.sess, letter |-> 0, ordered |-> j.ordered,
                                        refilled |-> j.refilled]]
          /\ \E ordered \in OrderPlaced(j.sess) :
                \E v \in Verdicts(j, ordered) : pc' = [pc EXCEPT ![r] = v]
    BY <1>4 DEF Gate
  <2>2. PICK v \in Verdicts(j, bought[j.sess] = "yes") : pc' = [pc EXCEPT ![r] = v]
    BY <2>1 DEF OrderPlaced
  <2>3. v = "recheck" => bought[j.sess] # "yes"
    BY DEF Verdicts
  <2>4. j.sess \in Sessions /\ (j.ordered => bought[j.sess] # "no")
    BY <1>t DEF RecordedWhenSelected, Items
  <2>5. bought[j.sess] \in {"no", "yes", "cancelled"}
    BY <1>t, <2>4 DEF TypeOK
  <2>6. v = "recheck" /\ j.ordered => bought[j.sess] = "cancelled"
    BY <2>3, <2>4, <2>5
  <2>7. v \in {"sent", "converted", "recheck"}
    BY DEF Verdicts
  <2>8. UNCHANGED bought
    BY <1>4 DEF Gate
  <2>9. /\ cur'[r].sess = j.sess /\ cur'[r].ordered = j.ordered /\ pc'[r] = v
        /\ \A q \in Runners \ {r} : pc'[q] = pc[q] /\ cur'[q] = cur[q]
        /\ \A q \in Runners : todo'[q] \subseteq todo[q]
    BY <2>1, <2>2, <1>t
  <2>10. RecordedWhenSelected'
    BY <2>8, <2>9, <1>t DEF RecordedWhenSelected
  <2>11. CancelledIfWritten'
    BY <2>6, <2>7, <2>8, <2>9, <1>t DEF CancelledIfWritten
  <2>12. QED
    BY <2>10, <2>11 DEF BuyerInv
<1>5. CASE Recheck(r) \/ InsertLog(r)
  <2>1. /\ \A q \in Runners \ {r} : pc'[q] = pc[q] /\ cur'[q] = cur[q]
        /\ pc[r] \in {"recheck", "insert"}
        /\ UNCHANGED <<todo, bought>>
    BY <1>5, <1>t DEF Recheck, InsertLog
  <2>2. cur'[r].sess = cur[r].sess /\ cur'[r].ordered = cur[r].ordered
    <3>1. CASE Recheck(r)
      BY <3>1 DEF Recheck
    <3>2. CASE InsertLog(r)
      <4>1. PICK n \in Letters : cur' = [cur EXCEPT ![r].letter = n]
        BY <3>2 DEF InsertLog, Free
      <4>2. cur[r] \in Works
        BY <3>2, <1>t DEF InsertLog, TypeOK
      <4>3. QED
        BY <4>1, <4>2, <1>t, WorkUpdates
    <3>3. QED
      BY <1>5, <3>1, <3>2
  <2>3. RecordedWhenSelected'
    BY <2>1, <1>t DEF RecordedWhenSelected
  <2>4. CancelledIfWritten'
    BY <2>1, <2>2, <1>t DEF CancelledIfWritten
  <2>5. QED
    BY <2>3, <2>4 DEF BuyerInv
<1>6. QED
  BY <1>1, <1>2, <1>3, <1>4, <1>5 DEF Tick

LEMMA NextBuyerInv == OneC = FALSE /\ BuyerInv /\ [Next]_vars => BuyerInv'
<1> SUFFICES ASSUME OneC = FALSE, BuyerInv, [Next]_vars PROVE BuyerInv'
  OBVIOUS
<1> USE DEF sessionVars, runnerVars
<1>t. TypeOK'
  BY NextTypeOK DEF BuyerInv
<1>1. ASSUME NEW u \in Users, InsertOrder(u) \/ FeedOrder(u) \/ FeedCancel(u) PROVE BuyerInv'
  <2>1. UNCHANGED runnerVars /\ (OrderRecorded(u) \/ FeedCancel(u))
    BY <1>1 DEF InsertOrder, FeedOrder, FeedCancel
  <2>2. QED
    BY <1>t, <2>1, OutsideBuyerInv
<1>2. ASSUME UNCHANGED runnerVars, UNCHANGED bought PROVE BuyerInv'
  BY <1>t, <1>2, OutsideBuyerInv
<1>3. ASSUME NEW u \in Users,
             ReportOrder(u) \/ OrderRequestDies(u) \/ OneCLearns(u) \/ CooldownPasses(u)
             \/ \E m \in BOOLEAN : SetMailable(u, m)
      PROVE  BuyerInv'
  BY <1>2, <1>3 DEF ReportOrder, OrderRequestDies, OneCLearns, CooldownPasses, SetMailable
<1>4. ASSUME NEW s \in Sessions,
             TimeoutPasses(s) \/ \E some, refill \in BOOLEAN : Ping(s, some, refill)
      PROVE  BuyerInv'
  BY <1>2, <1>4 DEF TimeoutPasses, Ping
<1>5. ASSUME NEW n \in Letters, ServiceDelivers(n) \/ ServiceGivesUp(n) PROVE BuyerInv'
  BY <1>2, <1>5 DEF ServiceDelivers, ServiceGivesUp
<1>6. ASSUME NEW h \in Handlers, Webhook(h) \/ HandlerDies(h) PROVE BuyerInv'
  BY <1>2, <1>6 DEF Webhook, FailedCallback, ResetTimers, Reopen, HandlerDies
<1>7. ASSUME NEW r \in Runners, Tick(r) \/ ReplyLost(r) \/ Raises(r) \/ RunnerDies(r)
      PROVE  BuyerInv'
  BY <1>t, <1>7, TickBuyerInv
<1>8. CASE UNCHANGED vars
  BY <1>2, <1>8 DEF vars
<1>9. QED
  BY <1>1, <1>3, <1>4, <1>5, <1>6, <1>7, <1>8 DEF Next

\* Without 1C the orders table decides, and a customer whose order was on record
\* when the tick selected the session gets no letter for it: not by a late ping,
\* nor by the rollback of a failed letter, nor by overlapping ticks.  With 1C
\* configured the property does not hold.
THEOREM BuyersAreSpared ==
  ASSUME OneC = FALSE
  PROVE  Spec => []BuyerGetsNoLetter
<1>1. BuyerInv => BuyerGetsNoLetter
  BY DEF BuyerInv, CancelledIfWritten, BuyerGetsNoLetter
<1>2. BuyerInv /\ [Next]_vars => BuyerInv'
  BY NextBuyerInv
<1>3. QED
  BY <1>1, <1>2, InitBuyerInv, PTL DEF Spec

(***************************************************************************)
(* One letter per cooldown period.  A live letter of the current period is *)
(* covered by the cooldown it started, or by the runner about to start it. *)
(* While a runner writes to a customer no cooldown runs, so at most one    *)
(* letter is covered at a time; every other one is paid for by a fault.    *)
(***************************************************************************)

OneRunner == \A q, r \in Runners : q = r

LiveRecent(u) == {n \in recent[u] : Live(n)}

Closing(n, u) ==
    \E r \in Runners : pc[r] = "close" /\ cur[r].letter = n /\ UserOf[cur[r].sess] = u

Uncovered(u) == {n \in LiveRecent(u) : n # cooling[u] /\ ~Closing(n, u)}

NoCooldownWhileWriting ==
    \A r \in Runners :
        pc[r] \in {"recheck", "insert", "send", "close"} => cooling[UserOf[cur[r].sess]] = 0

UnsentIsFresh ==
    \A r \in Runners :
        pc[r] = "send" => /\ fate[cur[r].letter] = "none"
                          /\ \A u \in Users : cur[r].letter \notin recent[u]

HandlesFailed == \A h \in Handlers : hpc[h] # "idle" => fate[hletter[h]] = "failed"

UncoveredPaid == \A u \in Users : Cardinality(Uncovered(u)) <= faults

CapInv == TypeOK /\ NoCooldownWhileWriting /\ UnsentIsFresh /\ HandlesFailed /\ UncoveredPaid

\* The letters of a period are finitely many.
LEMMA LettersFinite ==
  ASSUME NEW S \in SUBSET Letters
  PROVE  IsFiniteSet(S) /\ Cardinality(S) \in Nat
<1>1. IsFiniteSet(Letters)
  BY FS_Interval, CartAssumption DEF Letters
<1>2. QED
  BY <1>1, FS_Subset, FS_CardinalityType

LEMMA LiveRecentType ==
  ASSUME TypeOK, NEW u \in Users
  PROVE  /\ LiveRecent(u) \in SUBSET Letters /\ Uncovered(u) \in SUBSET Letters
         /\ 0 \notin Letters
  BY CartAssumption DEF TypeOK, LiveRecent, Uncovered, Letters

\* No more letters uncovered than before, or one more and a fault for it.
LEMMA StillPaid ==
  ASSUME TypeOK, TypeOK', UncoveredPaid, NEW u \in Users,
         \/ Uncovered(u)' \subseteq Uncovered(u) /\ faults' >= faults
         \/ /\ \E n \in Letters : Uncovered(u)' \subseteq Uncovered(u) \union {n}
            /\ faults' = faults + 1
  PROVE  Cardinality(Uncovered(u)') <= faults'
<1>1. /\ IsFiniteSet(Uncovered(u)) /\ Cardinality(Uncovered(u)) \in Nat
      /\ Cardinality(Uncovered(u)) <= faults /\ faults \in Nat /\ faults' \in Nat
  BY LiveRecentType, LettersFinite, CartAssumption DEF UncoveredPaid, TypeOK
<1>2. CASE Uncovered(u)' \subseteq Uncovered(u) /\ faults' >= faults
  <2>1. Cardinality(Uncovered(u)') <= Cardinality(Uncovered(u)) /\ Cardinality(Uncovered(u)') \in Nat
    BY <1>1, <1>2, FS_Subset, FS_CardinalityType
  <2>2. QED
    BY <1>1, <1>2, <2>1
<1>3. ASSUME NEW n \in Letters, Uncovered(u)' \subseteq Uncovered(u) \union {n},
             faults' = faults + 1
      PROVE  Cardinality(Uncovered(u)') <= faults'
  <2>1. /\ IsFiniteSet(Uncovered(u) \union {n})
        /\ Cardinality(Uncovered(u) \union {n}) <= Cardinality(Uncovered(u)) + 1
        /\ Cardinality(Uncovered(u) \union {n}) \in Nat
    <3>1. CASE n \in Uncovered(u)
      <4>1. Uncovered(u) \union {n} = Uncovered(u)
        BY <3>1
      <4>2. Cardinality(Uncovered(u)) <= Cardinality(Uncovered(u)) + 1
        BY <1>1
      <4>3. QED
        BY <1>1, <4>1, <4>2
    <3>2. CASE n \notin Uncovered(u)
      <4>1. /\ IsFiniteSet(Uncovered(u) \union {n})
            /\ Cardinality(Uncovered(u) \union {n}) = Cardinality(Uncovered(u)) + 1
        BY <1>1, <3>2, FS_AddElement
      <4>2. QED
        BY <1>1, <4>1
    <3>3. QED
      BY <3>1, <3>2
  <2>2. /\ Cardinality(Uncovered(u)') <= Cardinality(Uncovered(u) \union {n})
        /\ Cardinality(Uncovered(u)') \in Nat
    BY <1>3, <2>1, FS_Subset, FS_CardinalityType
  <2>3. QED
    BY <1>1, <1>3, <2>1, <2>2
<1>4. QED
  BY <1>2, <1>3

LEMMA InitCapInv == Init => CapInv
<1> SUFFICES ASSUME Init PROVE CapInv
  OBVIOUS
<1>1. NoCooldownWhileWriting /\ UnsentIsFresh /\ HandlesFailed
  BY DEF Init, NoCooldownWhileWriting, UnsentIsFresh, HandlesFailed
<1>2. ASSUME NEW u \in Users PROVE Cardinality(Uncovered(u)) <= faults
  <2>1. Uncovered(u) = {}
    BY DEF Init, Uncovered, LiveRecent
  <2>2. QED
    BY <2>1, FS_EmptySet DEF Init
<1>3. QED
  BY <1>1, <1>2, InitTypeOK DEF CapInv, UncoveredPaid

\* A step that leaves the letters, the cooldowns, the runners and the handlers
\* alone leaves the invariant alone.
LEMMA QuietCapInv ==
  ASSUME CapInv, TypeOK', faults' >= faults,
         UNCHANGED <<letterVars, cooling, runnerVars, handlerVars>>
  PROVE  CapInv'
<1> USE DEF letterVars, runnerVars, handlerVars
<1>1. \A u \in Users : Uncovered(u)' = Uncovered(u)
  BY DEF Uncovered, LiveRecent, Live, Closing
<1>2. NoCooldownWhileWriting' /\ UnsentIsFresh' /\ HandlesFailed'
  BY DEF CapInv, NoCooldownWhileWriting, UnsentIsFresh, HandlesFailed
<1>3. UncoveredPaid'
  BY <1>1, StillPaid DEF CapInv, UncoveredPaid
<1>4. QED
  BY <1>2, <1>3 DEF CapInv

LEMMA OutsideCapInv ==
  ASSUME CapInv, TypeOK',
         \/ \E s \in Sessions : TimeoutPasses(s)
         \/ \E s \in Sessions : \E some, refill \in BOOLEAN : Ping(s, some, refill)
         \/ \E u \in Users : \/ ReportOrder(u) \/ InsertOrder(u) \/ OrderRequestDies(u)
                             \/ FeedOrder(u) \/ FeedCancel(u) \/ OneCLearns(u)
                             \/ CooldownPasses(u) \/ \E m \in BOOLEAN : SetMailable(u, m)
  PROVE  CapInv'
<1> USE DEF countVars
<1>0. faults \in Nat
  BY CartAssumption DEF CapInv, TypeOK
<1>1. ASSUME faults' >= faults, UNCHANGED <<letterVars, cooling, runnerVars, handlerVars>>
      PROVE  CapInv'
  BY <1>1, QuietCapInv
<1>2. ASSUME NEW s \in Sessions,
             TimeoutPasses(s) \/ \E some, refill \in BOOLEAN : Ping(s, some, refill)
      PROVE  CapInv'
  BY <1>0, <1>1, <1>2 DEF TimeoutPasses, Ping
<1>3. ASSUME NEW u \in Users,
             \/ ReportOrder(u) \/ InsertOrder(u) \/ OrderRequestDies(u)
             \/ FeedOrder(u) \/ FeedCancel(u) \/ OneCLearns(u)
             \/ \E m \in BOOLEAN : SetMailable(u, m)
      PROVE  CapInv'
  BY <1>0, <1>1, <1>3 DEF ReportOrder, InsertOrder, OrderRequestDies, FeedOrder, FeedCancel,
                          OneCLearns, SetMailable, Fault
<1>4. ASSUME NEW u \in Users, CooldownPasses(u) PROVE CapInv'
  <2>1. /\ cooling' = [cooling EXCEPT ![u] = 0]
        /\ recent' = [recent EXCEPT ![u] = {}]
        /\ \A r \in Runners : pc[r] = "idle"
        /\ UNCHANGED <<fate, pc, cur, hpc, hletter, faults>>
    BY <1>4 DEF CooldownPasses, runnerVars, handlerVars
  <2>2. NoCooldownWhileWriting' /\ UnsentIsFresh' /\ HandlesFailed'
    BY <2>1 DEF CapInv, NoCooldownWhileWriting, UnsentIsFresh, HandlesFailed
  <2>3. \A v \in Users : Uncovered(v)' \subseteq Uncovered(v)
    BY <2>1 DEF CapInv, TypeOK, Uncovered, LiveRecent, Live, Closing
  <2>4. UncoveredPaid'
    BY <1>0, <2>1, <2>3, StillPaid DEF CapInv, UncoveredPaid
  <2>5. QED
    BY <2>2, <2>4 DEF CapInv
<1>5. QED
  BY <1>2, <1>3, <1>4

LEMMA ServiceCapInv ==
  ASSUME CapInv, TypeOK',
         \/ \E n \in Letters : ServiceDelivers(n) \/ ServiceGivesUp(n)
         \/ \E h \in Handlers : Webhook(h) \/ HandlerDies(h)
  PROVE  CapInv'
<1> USE DEF runnerVars, handlerVars, countVars
<1>0. /\ faults \in Nat
      /\ fate \in [Letters -> {"none", "queued", "sent", "failed"}]
      /\ hpc \in [Handlers -> {"idle", "timers", "reopen"}]
      /\ hletter \in [Handlers -> Letters \union {0}]
      /\ cooling \in [Users -> Letters \union {0}]
      /\ recent \in [Users -> SUBSET Letters]
      /\ \A r \in Runners : pc[r] = "send" => cur[r].letter \in Letters
      /\ \A h \in Handlers : hpc[h] # "idle" => hletter[h] \in Letters
      /\ NoCooldownWhileWriting /\ UnsentIsFresh /\ HandlesFailed /\ UncoveredPaid
  BY CartAssumption DEF CapInv, TypeOK
<1>w. \A r \in Runners :
        pc[r] \in {"recheck", "insert", "send", "close"} => UserOf[cur[r].sess] \in Users
  <2>1. \A r \in Runners :
          pc[r] \in {"recheck", "insert", "send", "close"} => cur[r] \in Works
    BY DEF CapInv, TypeOK
  <2>2. \A w \in Works : UserOf[w.sess] \in Users
    BY CartAssumption DEF Works
  <2>3. QED
    BY <2>1, <2>2
<1>1. ASSUME NEW n \in Letters, ServiceDelivers(n) \/ ServiceGivesUp(n) PROVE CapInv'
  <2>1. /\ fate[n] = "queued"
        /\ fate' = [fate EXCEPT ![n] = "sent"] \/ fate' = [fate EXCEPT ![n] = "failed"]
        /\ UNCHANGED <<cooling, recent, pc, cur, hpc, hletter, faults>>
    BY <1>1 DEF ServiceDelivers, ServiceGivesUp
  <2>2. NoCooldownWhileWriting' /\ UnsentIsFresh' /\ HandlesFailed'
    <3>1. NoCooldownWhileWriting'
      BY <1>0, <2>1 DEF NoCooldownWhileWriting
    <3>2. UnsentIsFresh'
      BY <1>0, <2>1 DEF UnsentIsFresh
    <3>3. HandlesFailed'
      BY <1>0, <2>1 DEF HandlesFailed
    <3>4. QED
      BY <3>1, <3>2, <3>3
  <2>3. \A v \in Users : Uncovered(v)' \subseteq Uncovered(v)
    <3>1. \A m \in Letters : Live(m)' => Live(m)
      BY <1>0, <2>1 DEF Live
    <3>2. \A v \in Users : LiveRecent(v)' \subseteq LiveRecent(v)
      BY <1>0, <2>1, <3>1 DEF LiveRecent
    <3>3. QED
      BY <2>1, <3>2 DEF Uncovered, Closing
  <2>4. UncoveredPaid'
    BY <1>0, <2>1, <2>3, StillPaid DEF CapInv, UncoveredPaid
  <2>5. QED
    BY <2>2, <2>4 DEF CapInv
<1>2. ASSUME NEW h \in Handlers, FailedCallback(h) \/ Reopen(h) \/ HandlerDies(h) PROVE CapInv'
  <2>1. /\ UNCHANGED <<cooling, fate, recent, pc, cur>> /\ faults' >= faults
        /\ \A g \in Handlers \ {h} : hpc'[g] = hpc[g] /\ hletter'[g] = hletter[g]
        /\ hpc'[h] # "idle" => fate[hletter'[h]] = "failed"
    <3>1. CASE FailedCallback(h)
      BY <1>0, <3>1 DEF FailedCallback
    <3>2. CASE Reopen(h)
      BY <1>0, <3>2 DEF Reopen, letterVars
    <3>3. CASE HandlerDies(h)
      BY <1>0, <3>3 DEF HandlerDies, letterVars, Fault
    <3>4. QED
      BY <1>2, <3>1, <3>2, <3>3
  <2>2. NoCooldownWhileWriting' /\ UnsentIsFresh' /\ HandlesFailed'
    BY <2>1 DEF CapInv, NoCooldownWhileWriting, UnsentIsFresh, HandlesFailed
  <2>3. \A v \in Users : Uncovered(v)' = Uncovered(v)
    BY <2>1 DEF Uncovered, LiveRecent, Live, Closing
  <2>4. UncoveredPaid'
    BY <2>1, <2>3, StillPaid DEF CapInv, UncoveredPaid
  <2>5. QED
    BY <2>2, <2>4 DEF CapInv
<1>3. ASSUME NEW h \in Handlers, ResetTimers(h) PROVE CapInv'
  <2> DEFINE u == addressee[hletter[h]]
  <2>1. /\ UNCHANGED <<fate, recent, pc, cur, hletter, faults>>
        /\ hpc[h] = "timers" /\ hpc' = [hpc EXCEPT ![h] = "reopen"]
        /\ cooling' = cooling \/ (cooling[u] = hletter[h] /\ cooling' = [cooling EXCEPT ![u] = 0])
    BY <1>3 DEF ResetTimers, letterVars
  <2>2. fate[hletter[h]] = "failed"
    BY <2>1 DEF CapInv, HandlesFailed
  <2>3. NoCooldownWhileWriting' /\ UnsentIsFresh' /\ HandlesFailed'
    <3>1. NoCooldownWhileWriting'
      BY <1>0, <1>w, <2>1 DEF NoCooldownWhileWriting
    <3>2. UnsentIsFresh'
      BY <1>0, <2>1 DEF UnsentIsFresh
    <3>3. HandlesFailed'
      BY <1>0, <2>1, <2>2 DEF HandlesFailed
    <3>4. QED
      BY <3>1, <3>2, <3>3
  <2>4. ASSUME NEW v \in Users PROVE Uncovered(v)' \subseteq Uncovered(v)
    <3>1. ASSUME NEW n \in Uncovered(v)' PROVE n \in Uncovered(v)
      <4>1. n \in LiveRecent(v) /\ ~Closing(n, v)
        BY <2>1 DEF Uncovered, LiveRecent, Live, Closing
      <4>2. n # hletter[h]
        BY <2>2, <4>1 DEF LiveRecent, Live
      <4>3. n # cooling[v]
        BY <1>0, <2>1, <4>2 DEF Uncovered
      <4>4. QED
        BY <4>1, <4>3 DEF Uncovered
    <3>2. QED
      BY <3>1
  <2>5. UncoveredPaid'
    BY <1>0, <2>1, <2>4, StillPaid DEF CapInv, UncoveredPaid
  <2>6. QED
    BY <2>3, <2>5 DEF CapInv
<1>4. QED
  BY <1>1, <1>2, <1>3 DEF Webhook

\* With one runner, the steps that hand over no letter and end no closing.
LEMMA EarlyTickCapInv ==
  ASSUME OneRunner, CapInv, TypeOK', NEW r \in Runners,
         pc[r] \notin {"send", "close"}, pc'[r] \notin {"send", "close"},
         pc'[r] \in {"recheck", "insert"} => cooling[UserOf[cur'[r].sess]] = 0,
         UNCHANGED <<fate, recent, cooling, handlerVars>>, faults' >= faults
  PROVE  CapInv'
<1> USE DEF handlerVars
<1>1. \A q \in Runners : q = r
  BY DEF OneRunner
<1>2. NoCooldownWhileWriting' /\ UnsentIsFresh' /\ HandlesFailed'
  BY <1>1 DEF CapInv, NoCooldownWhileWriting, UnsentIsFresh, HandlesFailed
<1>3. \A v \in Users : Uncovered(v)' = Uncovered(v)
  BY <1>1 DEF Uncovered, LiveRecent, Live, Closing
<1>4. UncoveredPaid'
  BY <1>3, StillPaid DEF CapInv, UncoveredPaid
<1>5. QED
  BY <1>2, <1>4 DEF CapInv

LEMMA TickCapInv ==
  ASSUME OneRunner, CapInv, TypeOK', NEW r \in Runners,
         Tick(r) \/ ReplyLost(r) \/ Raises(r) \/ RunnerDies(r)
  PROVE  CapInv'
<1> USE DEF letterVars, handlerVars, countVars
<1>0. /\ faults \in Nat
      /\ fate \in [Letters -> {"none", "queued", "sent", "failed"}]
      /\ cooling \in [Users -> Letters \union {0}]
      /\ recent \in [Users -> SUBSET Letters]
      /\ pc \in [Runners -> {"idle", "select", "loop", "recheck", "insert", "send", "close",
                             "converted", "sent"}]
      /\ cur \in [Runners -> Works \union {Nothing}]
      /\ \A h \in Handlers : hpc[h] # "idle" => hletter[h] \in Letters
      /\ NoCooldownWhileWriting /\ UnsentIsFresh /\ HandlesFailed /\ UncoveredPaid
  BY CartAssumption DEF CapInv, TypeOK
<1>r. \A q \in Runners : q = r
  BY DEF OneRunner
<1>w. pc[r] \in {"recheck", "insert", "send", "close"} =>
        cur[r] \in Works /\ UserOf[cur[r].sess] \in Users
  <2>1. pc[r] \in {"recheck", "insert", "send", "close"} => cur[r] \in Works
    BY DEF CapInv, TypeOK
  <2>2. \A w \in Works : UserOf[w.sess] \in Users
    BY CartAssumption DEF Works
  <2>3. QED
    BY <2>1, <2>2
<1>l. pc[r] \in {"send", "close"} => cur[r].letter \in Letters
  BY DEF CapInv, TypeOK
<1>1. CASE BeginTick(r) \/ Select(r) \/ EndTick(r) \/ Skip(r) \/ Recheck(r)
  <2>1. /\ pc[r] \notin {"send", "close"} /\ pc'[r] \notin {"send", "close"}
        /\ pc'[r] \in {"recheck", "insert"} => pc[r] = "recheck" /\ cur' = cur
        /\ UNCHANGED <<fate, recent, cooling, handlerVars>> /\ faults' >= faults
    BY <1>0, <1>1 DEF BeginTick, Select, EndTick, Skip, Recheck, BackToLoop, Overlap
  <2>2. pc'[r] \in {"recheck", "insert"} => cooling[UserOf[cur'[r].sess]] = 0
    BY <1>0, <2>1 DEF NoCooldownWhileWriting
  <2>3. QED
    BY <2>1, <2>2, EarlyTickCapInv
<1>2. CASE Gate(r)
  <2>1. PICK j \in todo[r] :
          /\ cur' = [cur EXCEPT ![r] = [sess |-> j.sess, letter |-> 0, ordered |-> j.ordered,
                                        refilled |-> j.refilled]]
          /\ \E ordered \in OrderPlaced(j.sess) :
                \E v \in Verdicts(j, ordered) : pc' = [pc EXCEPT ![r] = v]
    BY <1>2 DEF Gate
  <2>2. PICK ordered \in OrderPlaced(j.sess) :
          \E v \in Verdicts(j, ordered) : pc' = [pc EXCEPT ![r] = v]
    BY <2>1
  <2>3. PICK v \in Verdicts(j, ordered) : pc' = [pc EXCEPT ![r] = v]
    BY <2>2
  <2>4. /\ v \in {"sent", "converted", "recheck"}
        /\ v = "recheck" => cooling[UserOf[j.sess]] = 0
    BY DEF Verdicts
  <2>5. pc'[r] = v /\ cur'[r].sess = j.sess
    BY <1>0, <2>1, <2>3
  <2>6. pc[r] = "loop" /\ UNCHANGED <<fate, recent, cooling, handlerVars>> /\ faults' >= faults
    BY <1>0, <1>2 DEF Gate
  <2>7. QED
    BY <2>4, <2>5, <2>6, EarlyTickCapInv
<1>3. CASE InsertLog(r)
  <2>1. PICK n \in Free :
          cur' = [cur EXCEPT ![r].letter = n] /\ fate' = [fate EXCEPT ![n] = "none"]
    BY <1>3 DEF InsertLog
  <2>2. /\ pc[r] = "insert" /\ pc' = [pc EXCEPT ![r] = "send"]
        /\ UNCHANGED <<recent, cooling, hpc, hletter, faults>>
    BY <1>3 DEF InsertLog
  <2>3. /\ n \in Letters
        /\ \A u \in Users : n \notin recent[u]
        /\ \A h \in Handlers : hletter[h] # n
    BY DEF Free
  <2>4. cur'[r].letter = n /\ cur'[r].sess = cur[r].sess
    BY <1>0, <1>w, <2>1, <2>2, <2>3, WorkUpdates
  <2>5. NoCooldownWhileWriting'
    BY <1>0, <1>r, <2>2, <2>4 DEF NoCooldownWhileWriting
  <2>6. UnsentIsFresh'
    BY <1>0, <1>r, <2>1, <2>2, <2>3, <2>4 DEF UnsentIsFresh
  <2>7. HandlesFailed'
    BY <1>0, <2>1, <2>2, <2>3 DEF HandlesFailed
  <2>8. ASSUME NEW v \in Users PROVE Uncovered(v)' \subseteq Uncovered(v)
    <3>1. LiveRecent(v)' = LiveRecent(v)
      BY <1>0, <2>1, <2>2, <2>3 DEF LiveRecent, Live
    <3>2. \A m \in Letters : ~Closing(m, v)
      BY <1>r, <2>2 DEF Closing
    <3>3. QED
      BY <1>0, <2>2, <3>1, <3>2 DEF Uncovered, LiveRecent
  <2>9. UncoveredPaid'
    BY <1>0, <2>2, <2>8, StillPaid DEF CapInv, UncoveredPaid
  <2>10. QED
    BY <2>5, <2>6, <2>7, <2>9 DEF CapInv
<1>4. ASSUME pc[r] = "send", HandedOver(cur[r].letter, UserOf[cur[r].sess]),
             UNCHANGED <<hpc, hletter>>
      PROVE  /\ HandlesFailed'
             /\ \A v \in Users : LiveRecent(v)' \subseteq
                  LiveRecent(v) \union (IF v = UserOf[cur[r].sess] THEN {cur[r].letter} ELSE {})
  <2> DEFINE n == cur[r].letter
             u == UserOf[cur[r].sess]
  <2>1. /\ fate' = [fate EXCEPT ![n] = "queued"]
        /\ recent' = [recent EXCEPT ![u] = @ \union {n}]
        /\ n \in Letters /\ u \in Users
        /\ fate[n] = "none" /\ \A v \in Users : n \notin recent[v]
    BY <1>0, <1>w, <1>l, <1>4 DEF HandedOver, UnsentIsFresh
  <2>2. HandlesFailed'
    BY <1>0, <1>4, <2>1 DEF HandlesFailed
  <2>3. ASSUME NEW v \in Users, NEW m \in LiveRecent(v)', m # n PROVE m \in LiveRecent(v)
    BY <1>0, <2>1, <2>3 DEF LiveRecent, Live
  <2>4. \A v \in Users : v # u => n \notin LiveRecent(v)'
    BY <1>0, <2>1 DEF LiveRecent
  <2>5. QED
    BY <2>2, <2>3, <2>4
<1>5. CASE MailAccepted(r)
  <2>1. /\ pc[r] = "send" /\ pc' = [pc EXCEPT ![r] = "close"]
        /\ HandedOver(cur[r].letter, UserOf[cur[r].sess])
        /\ UNCHANGED <<cur, cooling, hpc, hletter, faults>>
    BY <1>5 DEF MailAccepted
  <2>2. NoCooldownWhileWriting' /\ UnsentIsFresh'
    BY <1>0, <1>r, <2>1 DEF NoCooldownWhileWriting, UnsentIsFresh
  <2>3. ASSUME NEW v \in Users PROVE Uncovered(v)' \subseteq Uncovered(v)
    <3>1. Closing(cur[r].letter, UserOf[cur[r].sess])'
      BY <1>0, <2>1 DEF Closing
    <3>2. \A m \in Letters : ~Closing(m, v)
      BY <1>r, <2>1 DEF Closing
    <3>3. LiveRecent(v)' \subseteq
            LiveRecent(v) \union (IF v = UserOf[cur[r].sess] THEN {cur[r].letter} ELSE {})
      BY <1>4, <2>1
    <3>4. LiveRecent(v) \subseteq Letters
      BY <1>0 DEF LiveRecent
    <3>5. QED
      BY <2>1, <3>1, <3>2, <3>3, <3>4 DEF Uncovered
  <2>4. UncoveredPaid'
    BY <1>0, <2>1, <2>3, StillPaid DEF CapInv, UncoveredPaid
  <2>5. QED
    BY <1>4, <2>1, <2>2, <2>4 DEF CapInv
<1>6. ASSUME BackToLoop(r) \/ pc'[r] = "idle"
      PROVE  /\ NoCooldownWhileWriting' /\ UnsentIsFresh'
             /\ \A m, v : ~Closing(m, v)'
  <2>1. pc'[r] \notin {"recheck", "insert", "send", "close"}
    BY <1>0, <1>6 DEF BackToLoop
  <2>2. QED
    BY <1>r, <2>1 DEF NoCooldownWhileWriting, UnsentIsFresh, Closing
<1>7. CASE ReplyLost(r)
  <2>1. /\ pc[r] = "send" /\ BackToLoop(r) /\ faults' = faults + 1
        /\ HandedOver(cur[r].letter, UserOf[cur[r].sess])
        /\ UNCHANGED <<cooling, hpc, hletter>>
    BY <1>7 DEF ReplyLost, Fault
  <2>2. ASSUME NEW v \in Users
        PROVE  Uncovered(v)' \subseteq Uncovered(v) \union {cur[r].letter}
    <3>1. \A m \in Letters : ~Closing(m, v)
      BY <1>r, <2>1 DEF Closing
    <3>2. LiveRecent(v)' \subseteq LiveRecent(v) \union {cur[r].letter}
      BY <1>4, <2>1
    <3>3. LiveRecent(v) \subseteq Letters
      BY <1>0 DEF LiveRecent
    <3>4. QED
      BY <2>1, <3>1, <3>2, <3>3 DEF Uncovered
  <2>3. cur[r].letter \in Letters
    BY <1>l, <2>1
  <2>4. UncoveredPaid'
    BY <2>1, <2>2, <2>3, StillPaid DEF CapInv, UncoveredPaid
  <2>5. QED
    BY <1>4, <1>6, <2>1, <2>4 DEF CapInv
<1>8. CASE MailRefused(r) \/ Raises(r) \/ RunnerDies(r)
  <2>1. /\ BackToLoop(r) \/ pc'[r] = "idle"
        /\ UNCHANGED <<fate, recent, cooling, hpc, hletter>>
        /\ \/ faults' = faults + 1
           \/ faults' = faults /\ pc[r] = "send"
    BY <1>0, <1>8 DEF MailRefused, Raises, RunnerDies, Fault
  <2>2. HandlesFailed'
    BY <1>0, <2>1 DEF HandlesFailed
  <2>3. \A v \in Users : LiveRecent(v)' = LiveRecent(v)
    BY <2>1 DEF LiveRecent, Live
  <2>4. ASSUME NEW v \in Users, pc[r] # "close" PROVE Uncovered(v)' \subseteq Uncovered(v)
    BY <1>r, <2>1, <2>3, <2>4 DEF Uncovered, Closing
  <2>5. ASSUME NEW v \in Users PROVE Uncovered(v)' \subseteq Uncovered(v) \union {cur[r].letter}
    BY <1>r, <2>1, <2>3 DEF Uncovered, Closing
  <2>6. UncoveredPaid'
    <3>1. CASE pc[r] = "close"
      <4>1. cur[r].letter \in Letters /\ faults' = faults + 1
        BY <1>l, <2>1, <3>1
      <4>2. QED
        BY <2>5, <4>1, StillPaid DEF CapInv, UncoveredPaid
    <3>2. CASE pc[r] # "close"
      <4>1. faults' >= faults
        BY <1>0, <2>1
      <4>2. QED
        BY <2>4, <3>2, <4>1, StillPaid DEF CapInv, UncoveredPaid
    <3>3. QED
      BY <3>1, <3>2
  <2>7. QED
    BY <1>6, <2>1, <2>2, <2>6 DEF CapInv
<1>9. CASE Close(r)
  <2> DEFINE n == cur[r].letter
             u == UserOf[cur[r].sess]
  <2>1. /\ pc[r] = "close" /\ BackToLoop(r)
        /\ cooling' = [cooling EXCEPT ![u] = n]
        /\ UNCHANGED <<fate, recent, hpc, hletter, faults>>
    BY <1>9 DEF Close
  <2>2. cooling[u] = 0 /\ u \in Users /\ n \in Letters
    BY <1>0, <1>w, <1>l, <2>1 DEF NoCooldownWhileWriting
  <2>3. HandlesFailed'
    BY <1>0, <2>1 DEF HandlesFailed
  <2>4. ASSUME NEW v \in Users PROVE Uncovered(v)' \subseteq Uncovered(v)
    <3>1. LiveRecent(v)' = LiveRecent(v) /\ LiveRecent(v) \in SUBSET Letters /\ 0 \notin Letters
      BY <2>1, LiveRecentType DEF CapInv, LiveRecent, Live
    <3>2. \A m : Closing(m, v) => m = n /\ v = u
      BY <1>r DEF Closing
    <3>3. CASE v = u
      BY <1>0, <2>1, <2>2, <3>1, <3>2, <3>3 DEF Uncovered
    <3>4. CASE v # u
      BY <1>0, <2>1, <2>2, <3>1, <3>2, <3>4 DEF Uncovered
    <3>5. QED
      BY <3>3, <3>4
  <2>5. UncoveredPaid'
    BY <1>0, <2>1, <2>4, StillPaid DEF CapInv, UncoveredPaid
  <2>6. QED
    BY <1>6, <2>1, <2>3, <2>5 DEF CapInv
<1>10. QED
  BY <1>1, <1>2, <1>3, <1>5, <1>7, <1>8, <1>9 DEF Tick

LEMMA NextCapInv == OneRunner /\ CapInv /\ [Next]_vars => CapInv'
<1> SUFFICES ASSUME OneRunner, CapInv, [Next]_vars PROVE CapInv'
  OBVIOUS
<1>1. TypeOK'
  BY NextTypeOK DEF CapInv
<1>2. CASE UNCHANGED vars
  <2>1. faults' >= faults /\ UNCHANGED <<letterVars, cooling, runnerVars, handlerVars>>
    BY <1>2, CartAssumption DEF vars, countVars, CapInv, TypeOK
  <2>2. QED
    BY <1>1, <2>1, QuietCapInv
<1>3. CASE Next
  BY <1>1, <1>3, OutsideCapInv, TickCapInv, ServiceCapInv DEF Next
<1>4. QED
  BY <1>2, <1>3

\* What is not uncovered is the cooldown's letter or the one being closed, and
\* never both.
LEMMA CoveredOnce ==
  ASSUME OneRunner, CapInv, NEW u \in Users
  PROVE  Cardinality(LiveRecent(u)) <= 1 + faults
<1>1. \E c \in Letters \union {0} : LiveRecent(u) \subseteq Uncovered(u) \union {c}
  <2>1. CASE \E n \in Letters : Closing(n, u)
    <3>1. PICK r \in Runners : pc[r] = "close" /\ UserOf[cur[r].sess] = u
      BY <2>1 DEF Closing
    <3>2. cooling[u] = 0 /\ cur[r].letter \in Letters
      BY <3>1 DEF CapInv, NoCooldownWhileWriting, TypeOK
    <3>3. \A n : Closing(n, u) => n = cur[r].letter
      BY DEF OneRunner, Closing
    <3>4. LiveRecent(u) \in SUBSET Letters /\ 0 \notin Letters
      BY LiveRecentType DEF CapInv
    <3>5. LiveRecent(u) \subseteq Uncovered(u) \union {cur[r].letter}
      BY <3>2, <3>3, <3>4 DEF Uncovered
    <3>6. QED
      BY <3>2, <3>5
  <2>2. CASE \A n \in Letters : ~Closing(n, u)
    <3>1. LiveRecent(u) \in SUBSET Letters /\ cooling[u] \in Letters \union {0}
      BY LiveRecentType DEF CapInv, TypeOK
    <3>2. LiveRecent(u) \subseteq Uncovered(u) \union {cooling[u]}
      BY <2>2, <3>1 DEF Uncovered
    <3>3. QED
      BY <3>1, <3>2
  <2>3. QED
    BY <2>1, <2>2
<1>2. PICK c \in Letters \union {0} : LiveRecent(u) \subseteq Uncovered(u) \union {c}
  BY <1>1
<1>3. /\ IsFiniteSet(Uncovered(u)) /\ Cardinality(Uncovered(u)) \in Nat
      /\ Cardinality(Uncovered(u)) <= faults /\ faults \in Nat
  BY LiveRecentType, LettersFinite, CartAssumption DEF CapInv, UncoveredPaid, TypeOK
<1>4. /\ IsFiniteSet(Uncovered(u) \union {c})
      /\ Cardinality(Uncovered(u) \union {c}) =
            IF c \in Uncovered(u) THEN Cardinality(Uncovered(u)) ELSE Cardinality(Uncovered(u)) + 1
  BY <1>3, FS_AddElement
<1>5. /\ Cardinality(LiveRecent(u)) <= Cardinality(Uncovered(u) \union {c})
      /\ Cardinality(LiveRecent(u)) \in Nat
  BY <1>2, <1>4, FS_Subset, FS_CardinalityType
<1>6. QED
  BY <1>3, <1>4, <1>5

\* "1 letter / 72 hours": where ticks do not overlap, a customer gets one cart
\* letter in a cooldown period and at most one more for each death, exception or
\* lost reply, however many sessions he has and however often a failed letter is
\* reported.  Two runners break this bound.
THEOREM OneLetterAPeriod ==
  ASSUME OneRunner
  PROVE  Spec => []CapPerWindow
<1>1. CapInv => CapPerWindow
  BY CoveredOnce DEF CapPerWindow, LiveRecent
<1>2. CapInv /\ [Next]_vars => CapInv'
  BY NextCapInv
<1>3. QED
  BY <1>1, <1>2, InitCapInv, PTL DEF Spec

=============================================================================
