------------------------- MODULE MailerOutboxProofs -------------------------
(***************************************************************************)
(* Proofs about MailerOutbox, for any number of letters, retries, batch    *)
(* sizes and faults: types, the bounds on the SMTP dialogues and on the    *)
(* copies of a letter, the order of first attempts, and that the outbox    *)
(* implements LetterService.                                               *)
(***************************************************************************)
EXTENDS MailerOutbox, FiniteSetTheorems, TLAPS

(***************************************************************************)
(* Types.                                                                  *)
(***************************************************************************)

\* The updates of rows that the actions make.
LEMMA RowUpdates ==
    /\ NoRow \in Rows
    /\ \A w \in Rows :
        /\ w.attempts \in Nat /\ w.born \in Nat /\ w.msgid \in Nat
        /\ \A n \in Nat : /\ [w EXCEPT !.state = "queued", !.born = n] \in Rows
                          /\ [w EXCEPT !.state = "sent", !.msgid = n] \in Rows
                          /\ [w EXCEPT !.state = "failed", !.attempts = n] \in Rows
                          /\ [w EXCEPT !.attempts = n] \in Rows
        /\ \A e \in EspEvents : [w EXCEPT !.event = e] \in Rows
  BY DEF NoRow, Rows

LEMMA InitTypeOK == Init => TypeOK
<1> SUFFICES ASSUME Init PROVE TypeOK
  OBVIOUS
<1>1. box \in [Letters -> Rows]
  BY RowUpdates DEF Init
<1>2. /\ sends \in [Letters -> Nat]
      /\ copies \in [Letters -> SUBSET Nat]
      /\ told \in [Letters -> SUBSET ({"sent", "failed"} \union EspEvents)]
      /\ ripe \in [Letters -> BOOLEAN]
  BY DEF Init
<1>3. faults \in 0 .. MaxFaults
  BY OutboxAssumption DEF Init
<1>4. QED
  BY <1>1, <1>2, <1>3 DEF Init, TypeOK, Stages, Busy

LEMMA NextTypeOK == TypeOK /\ [Next]_vars => TypeOK'
<1> SUFFICES ASSUME TypeOK, [Next]_vars PROVE TypeOK'
  OBVIOUS
<1> USE OutboxAssumption
<1>0. /\ \A l \in Letters : box[l] \in Rows
      /\ \A l \in Letters : sends[l] \in Nat /\ copies[l] \in SUBSET Nat
    BY DEF TypeOK
<1>1. ASSUME NEW l \in Letters, Accept(l) PROVE TypeOK'
  <2>1. arrivals + 1 \in Nat
    BY DEF TypeOK
  <2>2. [box[l] EXCEPT !.state = "queued", !.born = arrivals + 1] \in Rows
    BY <1>0, <2>1, RowUpdates
  <2>3. box' \in [Letters -> Rows]
    BY <1>1, <2>2 DEF Accept, TypeOK
  <2>4. QED
    BY <1>1, <2>1, <2>3 DEF Accept, TypeOK, workerVars
<1>2. ASSUME NEW l \in Letters, BackoffElapses(l) PROVE TypeOK'
  BY <1>2 DEF BackoffElapses, TypeOK, workerVars
<1>3. ASSUME NEW l \in Letters, NEW k \in copies[l], NEW e \in EspEvents, EspWebhook(l, k, e)
      PROVE TypeOK'
  <2>1. [box[l] EXCEPT !.event = e] \in Rows
    BY <1>0, RowUpdates
  <2>2. box' \in [Letters -> Rows]
    BY <1>3, <2>1 DEF EspWebhook, TypeOK
  <2>3. QED
    BY <1>3, <2>2 DEF EspWebhook, TypeOK, workerVars
<1>4. CASE Poll
  <2>1. \A l \in Letters : [letter |-> l, attempts |-> box[l].attempts] \in Items
    BY <1>0, RowUpdates DEF Items
  <2>2. Oldest(Due, BatchLimit) \subseteq Letters
    BY DEF Oldest, Due
  <2>3. batch' \in SUBSET Items
    BY <1>4, <2>1, <2>2 DEF Poll
  <2>4. QED
    BY <1>4, <2>3 DEF Poll, TypeOK, Stages, Busy
<1>5. CASE Take
  <2>1. PICK j \in batch : /\ cur' = j
                           /\ batch' = batch \ {j}
                           /\ sends' = [sends EXCEPT ![j.letter] = @ + 1]
    BY <1>5 DEF Take
  <2>2. j \in Items /\ j.letter \in Letters
    BY DEF TypeOK, Items
  <2>3. sends' \in [Letters -> Nat]
    BY <2>1, <2>2, <1>0 DEF TypeOK
  <2>4. QED
    BY <1>5, <2>1, <2>2, <2>3 DEF Take, TypeOK, Stages
<1>6. CASE ProviderTakes
  <2>1. cur.letter \in Letters
    BY <1>6 DEF ProviderTakes, TypeOK, Busy, Items
  <2>2. copies' \in [Letters -> SUBSET Nat]
    BY <1>6, <2>1, <1>0 DEF ProviderTakes, TypeOK
  <2>3. QED
    BY <1>6, <2>2 DEF ProviderTakes, TypeOK, Stages, Busy
<1>7. CASE SendReturns \/ SendRaises \/ ReplyLost \/ MarkFails
  BY <1>7 DEF SendReturns, SendRaises, ReplyLost, MarkFails, Fault, TypeOK, Stages, Busy
<1>8. CASE MarkSent
  <2>1. cur.letter \in Letters
    BY <1>8 DEF MarkSent, TypeOK, Busy, Items
  <2>2. [box[cur.letter] EXCEPT !.state = "sent", !.msgid = sends[cur.letter]] \in Rows
    BY <1>0, <2>1, RowUpdates
  <2>3. box' \in [Letters -> Rows]
    BY <1>8, <2>2 DEF MarkSent, TypeOK
  <2>4. QED
    BY <1>8, <2>3 DEF MarkSent, TypeOK, Stages, Busy
<1>9. CASE CountFailure
  <2>1. cur.letter \in Letters /\ cur.attempts + 1 \in Nat
    BY <1>9 DEF CountFailure, CountFailureAs, TypeOK, Busy, Items
  <2>2. /\ [box[cur.letter] EXCEPT !.state = "failed", !.attempts = cur.attempts + 1] \in Rows
        /\ [box[cur.letter] EXCEPT !.attempts = cur.attempts + 1] \in Rows
    BY <1>0, <2>1, RowUpdates
  <2>3. box' \in [Letters -> Rows]
    BY <1>9, <2>2 DEF CountFailure, CountFailureAs, TypeOK
  <2>4. QED
    BY <1>9, <2>1, <2>3 DEF CountFailure, CountFailureAs, TypeOK, Stages, Busy
<1>10. CASE Report
  <2>1. cur.letter \in Letters
    BY <1>10 DEF Report, TypeOK, Busy, Items
  <2>2. told' \in [Letters -> SUBSET ({"sent", "failed"} \union EspEvents)]
    BY <1>10, <2>1 DEF Report, TypeOK
  <2>3. QED
    BY <1>10, <2>2 DEF Report, TypeOK, workerVars
<1>11. CASE EndReport \/ Pause \/ WorkerStops \/ ProcessDies \/ ProcessStarts \/ IntervalPasses
  <2>1. CASE EndReport
    BY <2>1 DEF EndReport, TypeOK, Stages, Busy
  <2>2. CASE Pause \/ ProcessStarts
    BY <2>2 DEF Pause, ProcessStarts, TypeOK, Stages, Busy
  <2>3. CASE WorkerStops
    BY <2>3 DEF WorkerStops, Fault, TypeOK, Stages, Busy
  <2>4. CASE ProcessDies
    BY <2>4 DEF ProcessDies, Fault, TypeOK, Stages, Busy
  <2>5. CASE IntervalPasses
    BY <2>5 DEF IntervalPasses, TypeOK, workerVars
  <2>6. QED
    BY <1>11, <2>1, <2>2, <2>3, <2>4, <2>5
<1>12. CASE UNCHANGED vars
  BY <1>12 DEF vars, workerVars, TypeOK
<1>13. QED
  BY <1>1, <1>2, <1>3, <1>4, <1>5, <1>6, <1>7, <1>8, <1>9, <1>10, <1>11, <1>12 DEF Next, Worker

\* Every behaviour is well typed, whatever the numbers of letters, retries and
\* faults; in particular a busy worker always has its letter at hand.
THEOREM OutboxTypeCorrect == Spec => []TypeOK
  BY InitTypeOK, NextTypeOK, PTL DEF Spec

(***************************************************************************)
(* The inductive invariant: the worker's copy of a row is the row; a       *)
(* letter it is busy with is neither settled nor selected twice; what it   *)
(* reports is recorded; and every dialogue is paid for by a counted        *)
(* attempt, a fault or the dialogue in progress.                           *)
(***************************************************************************)

BatchIsFresh ==
    \A j \in batch : box[j.letter].state = "queued" /\ box[j.letter].attempts = j.attempts

CurIsFresh ==
    /\ pc \in Busy => box[cur.letter].state = "queued" /\ box[cur.letter].attempts = cur.attempts
    /\ pc \in Busy \union {"report"} => \A j \in batch : j.letter # cur.letter
    /\ pc \in {"send", "taken", "mark"} => sends[cur.letter] > 0

ReportIsTrue ==
    pc = "report" => \/ outcome = "retry"
                     \/ outcome \in {"sent", "failed"} /\ box[cur.letter].state = outcome

InProgress(l) == IF pc \in Busy /\ cur.letter = l THEN 1 ELSE 0

Budget(l) ==
    /\ box[l].state = "none" => box[l].attempts = 0 /\ sends[l] = 0
    /\ box[l].state = "queued" => /\ box[l].attempts < MaxAttempts
                                  /\ sends[l] <= box[l].attempts + faults + InProgress(l)
    /\ box[l].state \in {"sent", "failed"} => sends[l] <= MaxAttempts + faults
    /\ box[l].msgid # 0 => box[l].state = "sent"
    /\ 0 \notin copies[l]

OutboxInv ==
    /\ TypeOK
    /\ BatchIsFresh
    /\ CurIsFresh
    /\ ReportIsTrue
    /\ \A l \in Letters : Budget(l)

LEMMA InitOutboxInv == Init => OutboxInv
<1> SUFFICES ASSUME Init PROVE OutboxInv
  OBVIOUS
<1>1. \A l \in Letters : Budget(l)
  BY DEF Init, Budget, NoRow
<1>2. BatchIsFresh /\ CurIsFresh /\ ReportIsTrue
  BY DEF Init, BatchIsFresh, CurIsFresh, ReportIsTrue, Busy
<1>3. QED
  BY <1>1, <1>2, InitTypeOK DEF OutboxInv

\* What TypeOK says of the numbers and of the worker's letter.
LEMMA Numbers ==
  ASSUME TypeOK
  PROVE  /\ faults \in Nat /\ MaxAttempts \in Nat
         /\ \A l \in Letters : box[l] \in Rows /\ sends[l] \in Nat /\ copies[l] \in SUBSET Nat
         /\ \A l \in Letters : box[l].attempts \in Nat /\ box[l].msgid \in Nat
         /\ \A j \in batch : j.letter \in Letters /\ j.attempts \in Nat
         /\ pc \in Busy \union {"report"} => cur.letter \in Letters /\ cur.attempts \in Nat
<1>1. faults \in Nat /\ MaxAttempts \in Nat
  BY OutboxAssumption DEF TypeOK
<1>2. \A l \in Letters : box[l] \in Rows /\ sends[l] \in Nat /\ copies[l] \in SUBSET Nat
  BY DEF TypeOK
<1>3. \A l \in Letters : box[l].attempts \in Nat /\ box[l].msgid \in Nat
  BY <1>2, RowUpdates
<1>4. \A j \in batch : j.letter \in Letters /\ j.attempts \in Nat
  BY DEF TypeOK, Items
<1>5. pc \in Busy \union {"report"} => cur.letter \in Letters /\ cur.attempts \in Nat
  BY DEF TypeOK, Items
<1>6. QED
  BY <1>1, <1>2, <1>3, <1>4, <1>5

\* A step that writes no row, begins no dialogue and at most ends one that it
\* pays for with a fault leaves every letter within its budget.
LEMMA QuietStep ==
  ASSUME OutboxInv, TypeOK',
         UNCHANGED <<box, sends>>,
         \A l \in Letters : 0 \notin copies'[l],
         \/ faults' = faults /\ \A l \in Letters : InProgress(l)' = InProgress(l)
         \/ faults' = faults + 1
  PROVE  \A l \in Letters : Budget(l)'
<1> SUFFICES ASSUME NEW l \in Letters PROVE Budget(l)'
  OBVIOUS
<1>1. /\ faults \in Nat /\ sends[l] \in Nat /\ box[l].attempts \in Nat
      /\ MaxAttempts \in Nat
  BY Numbers DEF OutboxInv
<1>2. InProgress(l) \in 0 .. 1 /\ InProgress(l)' \in 0 .. 1
  BY DEF InProgress
<1>3. Budget(l)
  BY DEF OutboxInv
<1>4. QED
  BY <1>1, <1>2, <1>3 DEF Budget

\* The rows of other letters are untouched by the rewriting of one row.
LEMMA OtherRows ==
  ASSUME OutboxInv, TypeOK', NEW l \in Letters,
         \A m \in Letters \ {l} : box'[m] = box[m] /\ sends'[m] = sends[m] /\ copies'[m] = copies[m],
         \A m \in Letters \ {l} : InProgress(m)' = InProgress(m),
         faults' = faults,
         Budget(l)'
  PROVE  \A m \in Letters : Budget(m)'
<1> SUFFICES ASSUME NEW m \in Letters \ {l} PROVE Budget(m)'
  OBVIOUS
<1>1. Budget(m)
  BY DEF OutboxInv
<1>2. QED
  BY <1>1 DEF Budget

LEMMA NextOutboxInv == OutboxInv /\ [Next]_vars => OutboxInv'
<1> SUFFICES ASSUME OutboxInv, [Next]_vars PROVE OutboxInv'
  OBVIOUS
<1>t. TypeOK /\ TypeOK'
  BY NextTypeOK DEF OutboxInv
<1>n. /\ faults \in Nat /\ MaxAttempts \in Nat
      /\ \A l \in Letters : box[l] \in Rows /\ sends[l] \in Nat /\ copies[l] \in SUBSET Nat
      /\ \A l \in Letters : box[l].attempts \in Nat /\ box[l].msgid \in Nat
      /\ \A j \in batch : j.letter \in Letters /\ j.attempts \in Nat
      /\ pc \in Busy \union {"report"} => cur.letter \in Letters /\ cur.attempts \in Nat
  BY <1>t, Numbers
<1>f. box \in [Letters -> Rows] /\ sends \in [Letters -> Nat] /\ copies \in [Letters -> SUBSET Nat]
  BY <1>t DEF TypeOK
<1>i. BatchIsFresh /\ CurIsFresh /\ ReportIsTrue /\ \A l \in Letters : Budget(l)
  BY DEF OutboxInv
<1>1. ASSUME NEW l \in Letters, Accept(l) PROVE OutboxInv'
  <2>1. /\ box[l].state = "none"
        /\ box' = [box EXCEPT ![l].state = "queued", ![l].born = arrivals + 1]
        /\ UNCHANGED <<pc, batch, cur, outcome, sends, copies, faults>>
    BY <1>1 DEF Accept, workerVars
  <2>2. /\ box'[l].state = "queued" /\ box'[l].attempts = box[l].attempts
        /\ box'[l].msgid = box[l].msgid
        /\ \A m \in Letters \ {l} : box'[m] = box[m]
    BY <2>1, <1>f, <1>n DEF Rows
  <2>3. /\ pc \in Busy \union {"report"} => cur.letter # l \/ (pc = "report" /\ outcome = "retry")
        /\ \A j \in batch : j.letter # l
    BY <2>1, <1>i DEF BatchIsFresh, CurIsFresh, ReportIsTrue
  <2>4. BatchIsFresh'
    BY <2>1, <2>2, <2>3, <1>i, <1>n DEF BatchIsFresh
  <2>5. CurIsFresh'
    BY <2>1, <2>2, <2>3, <1>i, <1>n DEF CurIsFresh, Busy
  <2>6. ReportIsTrue'
    BY <2>1, <2>2, <2>3, <1>i, <1>n DEF ReportIsTrue
  <2>7. Budget(l)'
    <3>1. Budget(l) /\ InProgress(l)' \in Nat
      BY <1>i DEF InProgress
    <3>2. MaxAttempts > 0
      BY OutboxAssumption
    <3>3. QED
      BY <2>1, <2>2, <3>1, <3>2, <1>n DEF Budget
  <2>8. \A m \in Letters : Budget(m)'
    BY <1>t, <2>1, <2>2, <2>7, OtherRows DEF InProgress
  <2>9. QED
    BY <1>t, <2>4, <2>5, <2>6, <2>8 DEF OutboxInv
<1>2. ASSUME NEW l \in Letters, BackoffElapses(l) PROVE OutboxInv'
  <2>1. UNCHANGED <<box, pc, batch, cur, outcome, sends, copies, faults>>
    BY <1>2 DEF BackoffElapses, workerVars
  <2>2. QED
    BY <1>t, <2>1, <1>i
       DEF OutboxInv, BatchIsFresh, CurIsFresh, ReportIsTrue, Budget, InProgress
<1>3. ASSUME NEW l \in Letters, NEW k \in copies[l], NEW e \in EspEvents, EspWebhook(l, k, e)
      PROVE OutboxInv'
  <2>1. /\ box' = [box EXCEPT ![l].event = e]
        /\ UNCHANGED <<pc, batch, cur, outcome, sends, copies, faults>>
    BY <1>3 DEF EspWebhook, workerVars
  <2>2. \A m \in Letters : /\ box'[m].state = box[m].state
                           /\ box'[m].attempts = box[m].attempts
                           /\ box'[m].msgid = box[m].msgid
    BY <2>1, <1>f, <1>n DEF Rows
  <2>3. BatchIsFresh' /\ CurIsFresh' /\ ReportIsTrue'
    BY <2>1, <2>2, <1>i, <1>n DEF BatchIsFresh, CurIsFresh, ReportIsTrue
  <2>4. \A m \in Letters : Budget(m)'
    BY <2>1, <2>2, <1>i DEF Budget, InProgress
  <2>5. QED
    BY <1>t, <2>3, <2>4 DEF OutboxInv
<1>4. CASE Poll
  <2>1. UNCHANGED <<box, cur, outcome, sends, copies, faults>> /\ pc = "poll" /\ pc' = "next"
    BY <1>4 DEF Poll
  <2>2. BatchIsFresh'
    <3>1. Oldest(Due, BatchLimit) \subseteq {l \in Letters : box[l].state = "queued"}
      BY DEF Oldest, Due
    <3>2. QED
      BY <1>4, <2>1, <3>1 DEF Poll, BatchIsFresh
  <2>3. CurIsFresh' /\ ReportIsTrue'
    BY <2>1 DEF CurIsFresh, ReportIsTrue, Busy
  <2>4. \A l \in Letters : Budget(l)'
    BY <2>1, <1>i DEF Budget, InProgress, Busy
  <2>5. QED
    BY <1>t, <2>2, <2>3, <2>4 DEF OutboxInv
<1>5. CASE Take
  <2>1. PICK j \in batch : cur' = j /\ batch' = batch \ {j}
                           /\ sends' = [sends EXCEPT ![j.letter] = @ + 1]
    BY <1>5 DEF Take
  <2>2. UNCHANGED <<box, outcome, copies, faults>> /\ pc = "next" /\ pc' = "send"
    BY <1>5 DEF Take
  <2>3. BatchIsFresh'
    BY <2>1, <2>2, <1>i DEF BatchIsFresh
  <2>4. CurIsFresh'
    <3>1. \A i \in batch : i.letter = j.letter => i = j
      BY <1>i, <1>t DEF BatchIsFresh, TypeOK, Items
    <3>2. sends'[j.letter] > 0
      BY <2>1, <1>n, <1>f
    <3>3. QED
      BY <2>1, <2>2, <3>1, <3>2, <1>i DEF CurIsFresh, BatchIsFresh
  <2>5. ReportIsTrue'
    BY <2>2 DEF ReportIsTrue
  <2>6. Budget(j.letter)'
    <3>1. Budget(j.letter) /\ box[j.letter].state = "queued"
      BY <1>i, <1>n DEF BatchIsFresh
    <3>2. InProgress(j.letter) = 0 /\ InProgress(j.letter)' = 1
      BY <2>1, <2>2 DEF InProgress, Busy
    <3>3. sends'[j.letter] = sends[j.letter] + 1
      BY <2>1, <1>n, <1>f
    <3>4. QED
      BY <2>2, <3>1, <3>2, <3>3, <1>n DEF Budget
  <2>7. \A l \in Letters \ {j.letter} :
          sends'[l] = sends[l] /\ InProgress(l)' = InProgress(l)
    BY <2>1, <2>2, <1>f DEF InProgress, Busy
  <2>8. \A l \in Letters : Budget(l)'
    BY <1>t, <1>n, <2>2, <2>6, <2>7, OtherRows
  <2>9. QED
    BY <1>t, <2>3, <2>4, <2>5, <2>8 DEF OutboxInv
<1>6. CASE ProviderTakes
  <2>1. /\ UNCHANGED <<box, batch, cur, outcome, sends, faults>> /\ pc = "send" /\ pc' = "taken"
        /\ copies' = [copies EXCEPT ![cur.letter] = @ \union {sends[cur.letter]}]
    BY <1>6 DEF ProviderTakes
  <2>2. BatchIsFresh' /\ CurIsFresh' /\ ReportIsTrue'
    BY <2>1, <1>i DEF BatchIsFresh, CurIsFresh, ReportIsTrue, Busy
  <2>3. \A l \in Letters : 0 \notin copies'[l]
    BY <2>1, <1>i, <1>n, <1>f DEF Budget, CurIsFresh, Busy
  <2>4. \A l \in Letters : InProgress(l)' = InProgress(l)
    BY <2>1 DEF InProgress, Busy
  <2>5. QED
    BY <1>t, <2>1, <2>2, <2>3, <2>4, QuietStep DEF OutboxInv
<1>7. CASE SendReturns \/ SendRaises
  <2>1. UNCHANGED <<box, batch, cur, outcome, sends, copies, faults>>
        /\ pc \in {"send", "taken"} /\ pc' \in {"mark", "error"}
    BY <1>7 DEF SendReturns, SendRaises
  <2>2. BatchIsFresh' /\ CurIsFresh' /\ ReportIsTrue'
    BY <2>1, <1>i DEF BatchIsFresh, CurIsFresh, ReportIsTrue, Busy
  <2>3. \A l \in Letters : Budget(l)'
    BY <2>1, <1>i DEF Budget, InProgress, Busy
  <2>4. QED
    BY <1>t, <2>2, <2>3 DEF OutboxInv
<1>8. CASE ReplyLost \/ MarkFails
  <2>1. UNCHANGED <<box, batch, cur, outcome, sends, copies>> /\ faults' = faults + 1
        /\ pc \in {"taken", "mark"} /\ pc' = "error"
    BY <1>8 DEF ReplyLost, MarkFails, Fault
  <2>2. BatchIsFresh' /\ CurIsFresh' /\ ReportIsTrue'
    BY <2>1, <1>i DEF BatchIsFresh, CurIsFresh, ReportIsTrue, Busy
  <2>3. \A l \in Letters : Budget(l)'
    BY <1>t, <2>1, <1>i, QuietStep DEF Budget
  <2>4. QED
    BY <1>t, <2>2, <2>3 DEF OutboxInv
<1>9. CASE MarkSent
  <2> DEFINE l == cur.letter
  <2>1. /\ box' = [box EXCEPT ![l].state = "sent", ![l].msgid = sends[l]]
        /\ outcome' = "sent" /\ pc = "mark" /\ pc' = "report"
        /\ UNCHANGED <<batch, cur, sends, copies, faults>>
    BY <1>9 DEF MarkSent
  <2>2. /\ l \in Letters /\ box[l].state = "queued"
        /\ \A j \in batch : j.letter # l
    BY <2>1, <1>i, <1>n DEF CurIsFresh, Busy
  <2>3. /\ box'[l].state = "sent" /\ box'[l].attempts = box[l].attempts
        /\ \A m \in Letters \ {l} : box'[m] = box[m]
    BY <2>1, <2>2, <1>f, <1>n DEF Rows
  <2>4. BatchIsFresh' /\ CurIsFresh' /\ ReportIsTrue'
    BY <2>1, <2>2, <2>3, <1>i, <1>n DEF BatchIsFresh, CurIsFresh, ReportIsTrue, Busy
  <2>5. Budget(l)'
    <3>1. Budget(l) /\ InProgress(l) \in 0 .. 1
      BY <2>2, <1>i DEF InProgress
    <3>2. QED
      BY <2>1, <2>2, <2>3, <3>1, <1>n DEF Budget
  <2>6. \A m \in Letters \ {l} : InProgress(m)' = InProgress(m)
    BY <2>1 DEF InProgress, Busy
  <2>7. \A m \in Letters : Budget(m)'
    BY <1>t, <2>1, <2>2, <2>3, <2>5, <2>6, OtherRows
  <2>8. QED
    BY <1>t, <2>4, <2>7 DEF OutboxInv
<1>10. CASE CountFailure
  <2> DEFINE l == cur.letter
             tries == cur.attempts + 1
  <2>1. /\ pc = "error" /\ pc' = "report"
        /\ UNCHANGED <<batch, cur, sends, copies, faults>>
    BY <1>10 DEF CountFailure, CountFailureAs
  <2>2. /\ l \in Letters /\ box[l].state = "queued" /\ tries = box[l].attempts + 1
        /\ \A j \in batch : j.letter # l
    BY <2>1, <1>i, <1>n DEF CurIsFresh, Busy
  <2>3. \/ /\ tries >= MaxAttempts
           /\ box' = [box EXCEPT ![l].state = "failed", ![l].attempts = tries]
           /\ outcome' = "failed"
        \/ /\ tries < MaxAttempts
           /\ box' = [box EXCEPT ![l].attempts = tries]
           /\ outcome' = "retry"
    BY <1>10, <1>n, <2>1, <2>2 DEF CountFailure, CountFailureAs
  <2>4. /\ box'[l].attempts = tries /\ box'[l].msgid = box[l].msgid
        /\ \A m \in Letters \ {l} : box'[m] = box[m]
        /\ \/ outcome' = "failed" /\ box'[l].state = "failed"
           \/ outcome' = "retry" /\ box'[l].state = "queued" /\ tries < MaxAttempts
    BY <2>2, <2>3, <1>f, <1>n DEF Rows
  <2>5. BatchIsFresh' /\ CurIsFresh' /\ ReportIsTrue'
    BY <2>1, <2>2, <2>4, <1>i, <1>n DEF BatchIsFresh, CurIsFresh, ReportIsTrue, Busy
  <2>6. Budget(l)'
    <3>1. Budget(l) /\ InProgress(l) = 1 /\ InProgress(l)' = 0
      BY <2>1, <2>2, <1>i DEF InProgress, Busy
    <3>2. QED
      BY <2>1, <2>2, <2>4, <3>1, <1>n DEF Budget
  <2>7. \A m \in Letters \ {l} : InProgress(m)' = InProgress(m)
    BY <2>1 DEF InProgress, Busy
  <2>8. \A m \in Letters : Budget(m)'
    BY <1>t, <2>1, <2>2, <2>4, <2>6, <2>7, OtherRows
  <2>9. QED
    BY <1>t, <2>5, <2>8 DEF OutboxInv
<1>11. CASE Report \/ IntervalPasses
  <2>1. UNCHANGED <<box, pc, batch, cur, outcome, sends, copies, faults>>
    BY <1>11 DEF Report, IntervalPasses, workerVars
  <2>2. QED
    BY <1>t, <2>1, <1>i
       DEF OutboxInv, BatchIsFresh, CurIsFresh, ReportIsTrue, Budget, InProgress
<1>12. CASE EndReport \/ Pause \/ ProcessStarts
  <2>1. /\ UNCHANGED <<box, batch, sends, copies, faults>>
        /\ pc \notin Busy /\ pc' \notin Busy \union {"report"}
    BY <1>12 DEF EndReport, Pause, ProcessStarts, Busy
  <2>2. BatchIsFresh' /\ CurIsFresh' /\ ReportIsTrue'
    BY <2>1, <1>i DEF BatchIsFresh, CurIsFresh, ReportIsTrue, Busy
  <2>3. \A l \in Letters : Budget(l)'
    BY <2>1, <1>i DEF Budget, InProgress
  <2>4. QED
    BY <1>t, <2>2, <2>3 DEF OutboxInv
<1>13. CASE WorkerStops \/ ProcessDies
  <2>1. /\ UNCHANGED <<box, sends, copies>> /\ faults' = faults + 1 /\ batch' = {}
        /\ pc' \notin Busy \union {"report"}
    BY <1>13 DEF WorkerStops, ProcessDies, Fault, Busy
  <2>2. BatchIsFresh' /\ CurIsFresh' /\ ReportIsTrue'
    BY <2>1 DEF BatchIsFresh, CurIsFresh, ReportIsTrue, Busy
  <2>3. \A l \in Letters : Budget(l)'
    BY <1>t, <2>1, <1>i, QuietStep DEF Budget
  <2>4. QED
    BY <1>t, <2>2, <2>3 DEF OutboxInv
<1>14. CASE UNCHANGED vars
  <2>1. UNCHANGED <<box, pc, batch, cur, outcome, sends, copies, faults>>
    BY <1>14 DEF vars, workerVars
  <2>2. QED
    BY <1>t, <2>1, <1>i
       DEF OutboxInv, BatchIsFresh, CurIsFresh, ReportIsTrue, Budget, InProgress
<1>15. QED
  BY <1>1, <1>2, <1>3, <1>4, <1>5, <1>6, <1>7, <1>8, <1>9, <1>10, <1>11, <1>12, <1>13, <1>14
     DEF Next, Worker

\* Retries, restarts, lost replies and failed statements together begin at
\* most max_attempts dialogues for a letter, plus one for each fault.
THEOREM DialoguesBounded == Spec => []SendsBounded
<1>1. OutboxInv => SendsBounded
  <2> SUFFICES ASSUME OutboxInv, NEW l \in Letters PROVE sends[l] <= MaxAttempts + faults
    BY DEF SendsBounded
  <2>1. Budget(l) /\ InProgress(l) \in 0 .. 1
    BY DEF OutboxInv, InProgress
  <2>2. /\ faults \in Nat /\ MaxAttempts \in Nat /\ sends[l] \in Nat
        /\ box[l].attempts \in Nat /\ box[l] \in Rows
    BY Numbers DEF OutboxInv
  <2>3. box[l].state \in {"none", "queued", "sent", "failed"}
    BY <2>2 DEF Rows
  <2>4. QED
    BY <2>1, <2>2, <2>3 DEF Budget
<1>2. QED
  BY <1>1, InitOutboxInv, NextOutboxInv, PTL DEF Spec

(***************************************************************************)
(* The copies of a letter: each of them but one has cost a fault.          *)
(***************************************************************************)

\* A copy no fault has paid for: the letter is recorded as sent, or is about
\* to be.
Unpaid(l) == box[l].state = "sent" \/ (pc \in {"taken", "mark"} /\ cur.letter = l)

CopiesCost ==
    \A l \in Letters :
        /\ IsFiniteSet(copies[l])
        /\ Cardinality(copies[l]) <= faults + (IF Unpaid(l) THEN 1 ELSE 0)

LEMMA InitCopiesCost == Init => CopiesCost
<1> SUFFICES ASSUME Init, NEW l \in Letters
             PROVE  /\ IsFiniteSet(copies[l])
                    /\ Cardinality(copies[l]) <= faults + (IF Unpaid(l) THEN 1 ELSE 0)
  BY DEF CopiesCost
<1>1. copies[l] = {} /\ faults = 0
  BY DEF Init
<1>2. QED
  BY <1>1, FS_EmptySet

\* A step in which no provider takes a copy: what was unpaid stays so, or a
\* fault pays for it.
LEMMA QuietCopies ==
  ASSUME OutboxInv, OutboxInv', CopiesCost, copies' = copies,
         \/ faults' = faults /\ \A l \in Letters : Unpaid(l) => Unpaid(l)'
         \/ faults' = faults + 1
  PROVE  CopiesCost'
<1> SUFFICES ASSUME NEW l \in Letters
             PROVE  Cardinality(copies[l]) <= faults' + (IF Unpaid(l)' THEN 1 ELSE 0)
  BY DEF CopiesCost
<1>1. faults \in Nat /\ Cardinality(copies[l]) \in Nat
  BY Numbers, FS_CardinalityType DEF OutboxInv, CopiesCost
<1>2. Cardinality(copies[l]) <= faults + (IF Unpaid(l) THEN 1 ELSE 0)
  BY DEF CopiesCost
<1>3. QED
  BY <1>1, <1>2

LEMMA NextCopiesCost == OutboxInv /\ OutboxInv' /\ CopiesCost /\ [Next]_vars => CopiesCost'
<1> SUFFICES ASSUME OutboxInv, OutboxInv', CopiesCost, [Next]_vars PROVE CopiesCost'
  OBVIOUS
<1>n. /\ TypeOK /\ faults \in Nat
      /\ \A l \in Letters : box[l] \in Rows /\ sends[l] \in Nat /\ copies[l] \in SUBSET Nat
      /\ \A j \in batch : j.letter \in Letters
      /\ pc \in Busy \union {"report"} => cur.letter \in Letters
  BY Numbers DEF OutboxInv
<1>f. box \in [Letters -> Rows] /\ copies \in [Letters -> SUBSET Nat]
  BY <1>n DEF TypeOK
<1>1. ASSUME NEW l \in Letters, Accept(l) PROVE CopiesCost'
  <2>1. \A m \in Letters : box[m].state = "sent" => box'[m].state = "sent"
    BY <1>1, <1>f DEF Accept
  <2>2. QED
    BY <1>1, <2>1, QuietCopies DEF Accept, workerVars, Unpaid
<1>2. ASSUME NEW l \in Letters, BackoffElapses(l) PROVE CopiesCost'
  BY <1>2, QuietCopies DEF BackoffElapses, workerVars, Unpaid
<1>3. ASSUME NEW l \in Letters, NEW k \in copies[l], NEW e \in EspEvents, EspWebhook(l, k, e)
      PROVE CopiesCost'
  <2>1. \A m \in Letters : box[m].state = "sent" => box'[m].state = "sent"
    BY <1>3, <1>f, <1>n DEF EspWebhook, Rows
  <2>2. QED
    BY <1>3, <2>1, QuietCopies DEF EspWebhook, workerVars, Unpaid
<1>4. CASE Poll
  BY <1>4, QuietCopies DEF Poll, Unpaid
<1>5. CASE Take
  BY <1>5, QuietCopies DEF Take, Unpaid
<1>6. CASE ProviderTakes
  <2> DEFINE c == cur.letter
             k == sends[c]
  <2>1. /\ pc = "send" /\ pc' = "taken" /\ c \in Letters /\ box[c].state = "queued"
        /\ UNCHANGED <<box, cur, faults>>
        /\ copies' = [copies EXCEPT ![c] = @ \union {k}]
    BY <1>6, <1>n DEF ProviderTakes, OutboxInv, CurIsFresh, Busy
  <2>2. /\ IsFiniteSet(copies'[c]) /\ Cardinality(copies'[c]) <= faults + 1
    <3>1. IsFiniteSet(copies[c]) /\ Cardinality(copies[c]) <= faults + 0
      BY <2>1 DEF CopiesCost, Unpaid
    <3>2. copies'[c] = copies[c] \union {k}
      BY <2>1, <1>f
    <3>3. Cardinality(copies[c]) \in Nat
      BY <3>1, FS_CardinalityType
    <3>4. /\ IsFiniteSet(copies[c] \union {k})
          /\ Cardinality(copies[c] \union {k}) \in {Cardinality(copies[c]), Cardinality(copies[c]) + 1}
      BY <3>1, FS_AddElement
    <3>5. QED
      BY <3>1, <3>2, <3>3, <3>4, <1>n
  <2>3. \A l \in Letters : l # c => copies'[l] = copies[l] /\ (Unpaid(l)' <=> Unpaid(l))
    BY <2>1, <1>f DEF Unpaid
  <2>4. \A l \in Letters : l = c => Unpaid(l)'
    BY <2>1 DEF Unpaid
  <2>5. QED
    BY <2>1, <2>2, <2>3, <2>4 DEF CopiesCost
<1>7. CASE SendReturns \/ SendRaises
  BY <1>7, QuietCopies DEF SendReturns, SendRaises, Unpaid
<1>8. CASE ReplyLost \/ MarkFails
  BY <1>8, QuietCopies DEF ReplyLost, MarkFails, Fault
<1>9. CASE MarkSent
  <2>1. /\ pc = "mark" /\ cur.letter \in Letters /\ cur' = cur /\ copies' = copies
        /\ faults' = faults
    BY <1>9, <1>n DEF MarkSent, Busy
  <2>2. box'[cur.letter].state = "sent"
        /\ \A m \in Letters : box[m].state = "sent" => box'[m].state = "sent"
    BY <1>9, <1>f, <1>n, <2>1 DEF MarkSent, Rows
  <2>3. QED
    BY <2>1, <2>2, QuietCopies DEF Unpaid
<1>10. CASE CountFailure
  <2>1. /\ pc = "error" /\ cur.letter \in Letters /\ box[cur.letter].state = "queued"
        /\ UNCHANGED <<cur, copies, faults>>
        /\ \A m \in Letters : m # cur.letter => box'[m] = box[m]
    BY <1>10, <1>n, <1>f DEF CountFailure, CountFailureAs, OutboxInv, CurIsFresh, Busy
  <2>2. QED
    BY <2>1, QuietCopies DEF Unpaid
<1>11. CASE Report \/ IntervalPasses
  BY <1>11, QuietCopies DEF Report, IntervalPasses, workerVars, Unpaid
<1>12. CASE EndReport \/ Pause \/ ProcessStarts
  BY <1>12, QuietCopies DEF EndReport, Pause, ProcessStarts, Unpaid
<1>13. CASE WorkerStops \/ ProcessDies
  BY <1>13, QuietCopies DEF WorkerStops, ProcessDies, Fault
<1>14. CASE UNCHANGED vars
  BY <1>14, QuietCopies DEF vars, workerVars, Unpaid
<1>15. QED
  BY <1>1, <1>2, <1>3, <1>4, <1>5, <1>6, <1>7, <1>8, <1>9, <1>10, <1>11, <1>12, <1>13, <1>14
     DEF Next, Worker

\* A customer never gets more copies of a letter than one and one for each
\* fault: a lost reply, a mark_sent that failed, a death after the dialogue.
THEOREM CopiesPaid == Spec => []CopiesBounded
<1>1. Init => OutboxInv /\ CopiesCost
  BY InitOutboxInv, InitCopiesCost
<1>2. OutboxInv /\ CopiesCost /\ [Next]_vars => (OutboxInv /\ CopiesCost)'
  BY NextOutboxInv, NextCopiesCost
<1>3. OutboxInv /\ CopiesCost => CopiesBounded
  <2> SUFFICES ASSUME OutboxInv, CopiesCost, NEW l \in Letters
               PROVE  Cardinality(copies[l]) <= 1 + faults
    BY DEF CopiesBounded
  <2>1. faults \in Nat /\ Cardinality(copies[l]) \in Nat
    BY Numbers, FS_CardinalityType DEF OutboxInv, CopiesCost
  <2>2. QED
    BY <2>1 DEF CopiesCost
<1>4. QED
  BY <1>1, <1>2, <1>3, PTL DEF Spec

(***************************************************************************)
(* The order of first attempts.                                            *)
(***************************************************************************)

Untried(l) == box[l].state # "none" /\ sends[l] = 0

\* created_at grows with every accepted letter.
BornInOrder ==
    /\ IsFiniteSet({l \in Letters : box[l].state # "none"})
    /\ \A l \in Letters : /\ (box[l].state = "none") <=> (box[l].born = 0)
                          /\ box[l].born <= arrivals

\* A letter that was never tried is due.
UntriedIsDue == \A l \in Letters : Untried(l) => box[l].state = "queued" /\ ripe[l]

BusyWasTried == pc \in Busy => sends[cur.letter] > 0

\* What is older than a selected letter and untried was selected with it.
BatchIsOldest ==
    \A j \in batch, l \in Letters :
        Untried(l) /\ box[l].born < box[j.letter].born => \E i \in batch : i.letter = l

OrderInv == BornInOrder /\ UntriedIsDue /\ BusyWasTried /\ BatchIsOldest /\ FirstTriesInOrder

LEMMA InitOrderInv == Init => OrderInv
<1> SUFFICES ASSUME Init PROVE OrderInv
  OBVIOUS
<1>1. \A l \in Letters : box[l] = NoRow /\ sends[l] = 0
  BY DEF Init
<1>2. {l \in Letters : box[l].state # "none"} = {}
  BY <1>1 DEF NoRow
<1>3. QED
  BY <1>1, <1>2, FS_EmptySet
     DEF Init, OrderInv, BornInOrder, UntriedIsDue, BusyWasTried, BatchIsOldest,
         FirstTriesInOrder, Untried, NoRow, Busy

\* A step that accepts, selects and begins nothing.
LEMMA QuietOrder ==
  ASSUME OutboxInv, OrderInv, UNCHANGED <<sends, arrivals>>,
         \A l \in Letters :
            /\ box'[l].born = box[l].born
            /\ (box'[l].state = "none") <=> (box[l].state = "none")
            /\ Untried(l) => box'[l].state = box[l].state /\ (ripe[l] => ripe'[l]),
         batch' = batch \/ batch' = {},
         pc' \in Busy => pc \in Busy /\ cur' = cur
  PROVE  OrderInv'
<1>1. {l \in Letters : box'[l].state # "none"} = {l \in Letters : box[l].state # "none"}
  OBVIOUS
<1>2. BornInOrder'
  BY <1>1 DEF OrderInv, BornInOrder
<1>3. UntriedIsDue'
  BY DEF OrderInv, UntriedIsDue, Untried
<1>4. BusyWasTried'
  BY DEF OrderInv, BusyWasTried
<1>5. BatchIsOldest'
  <2>1. \A j \in batch : j.letter \in Letters
    BY Numbers DEF OutboxInv
  <2>2. QED
    BY <2>1 DEF OrderInv, BatchIsOldest, Untried
<1>6. FirstTriesInOrder'
  BY DEF OrderInv, FirstTriesInOrder
<1>7. QED
  BY <1>2, <1>3, <1>4, <1>5, <1>6 DEF OrderInv

\* ORDER BY created_at LIMIT n leaves out no letter older than one it takes.
LEMMA OldestIsClosed ==
  ASSUME NEW S \in SUBSET Letters, IsFiniteSet(S), NEW n \in Nat,
         NEW m \in Oldest(S, n), NEW l \in S,
         \A k \in S : box[k].born \in Nat, box[l].born < box[m].born
  PROVE  l \in Oldest(S, n)
<1> DEFINE A == {k \in S : box[k].born < box[l].born}
           B == {k \in S : box[k].born < box[m].born}
<1>1. m \in S /\ Cardinality(B) < n
  BY DEF Oldest
<1>2. A \subseteq B /\ B \subseteq S
  BY <1>1
<1>3. /\ IsFiniteSet(B) /\ IsFiniteSet(A)
      /\ Cardinality(A) <= Cardinality(B)
  BY <1>2, FS_Subset
<1>4. Cardinality(A) \in Nat /\ Cardinality(B) \in Nat
  BY <1>3, FS_CardinalityType
<1>5. Cardinality(A) < n
  BY <1>1, <1>3, <1>4
<1>6. QED
  BY <1>5 DEF Oldest

LEMMA AcceptOrder ==
  ASSUME OutboxInv, OrderInv, NEW l \in Letters, Accept(l)
  PROVE  OrderInv'
<1>1. /\ box \in [Letters -> Rows] /\ arrivals \in Nat
      /\ \A m \in Letters : box[m].born \in Nat
      /\ \A j \in batch : j.letter \in Letters
      /\ ripe \in [Letters -> BOOLEAN]
  BY Numbers, RowUpdates DEF OutboxInv, TypeOK
<1>2. /\ box[l].state = "none" /\ sends[l] = 0 /\ arrivals' = arrivals + 1
      /\ box'[l].state = "queued" /\ box'[l].born = arrivals + 1
      /\ \A m \in Letters : m # l => box'[m] = box[m]
      /\ ripe'[l] /\ \A m \in Letters : m # l => ripe'[m] = ripe[m]
      /\ UNCHANGED <<sends, batch, pc, cur>>
  BY <1>1 DEF Accept, workerVars, OutboxInv, Budget, Rows
<1>3. \A j \in batch : j.letter # l
  BY <1>2 DEF OutboxInv, BatchIsFresh
<1>4. BornInOrder'
  <2>1. {m \in Letters : box'[m].state # "none"} = {m \in Letters : box[m].state # "none"} \union {l}
    BY <1>2
  <2>2. IsFiniteSet({m \in Letters : box'[m].state # "none"})
    BY <2>1, FS_AddElement DEF OrderInv, BornInOrder
  <2>3. QED
    BY <1>1, <1>2, <2>2 DEF OrderInv, BornInOrder
<1>5. UntriedIsDue'
  BY <1>2 DEF OrderInv, UntriedIsDue, Untried
<1>6. BusyWasTried'
  BY <1>2 DEF OrderInv, BusyWasTried
<1>7. BatchIsOldest'
  <2>1. SUFFICES ASSUME NEW j \in batch, NEW m \in Letters, Untried(m)',
                        box'[m].born < box'[j.letter].born
                 PROVE  \E i \in batch : i.letter = m
    BY <1>2 DEF BatchIsOldest
  <2>2. box'[j.letter] = box[j.letter] /\ box[j.letter].born <= arrivals
    BY <1>1, <1>2, <1>3 DEF OrderInv, BornInOrder
  <2>3. m # l
    BY <1>1, <1>2, <2>1, <2>2
  <2>4. QED
    BY <1>2, <2>1, <2>2, <2>3 DEF OrderInv, BatchIsOldest, Untried
<1>8. FirstTriesInOrder'
  <2>1. SUFFICES ASSUME NEW k \in Letters, NEW m \in Letters, box'[k].state # "none",
                        box'[k].born < box'[m].born, sends[m] > 0
                 PROVE  sends[k] > 0
    BY <1>2 DEF FirstTriesInOrder
  <2>2. m # l
    BY <1>2, <2>1
  <2>3. k # l
    BY <1>1, <1>2, <2>1, <2>2 DEF OrderInv, BornInOrder
  <2>4. QED
    BY <1>2, <2>1, <2>2, <2>3 DEF OrderInv, FirstTriesInOrder
<1>9. QED
  BY <1>4, <1>5, <1>6, <1>7, <1>8 DEF OrderInv

LEMMA PollOrder ==
  ASSUME OutboxInv, OrderInv, Poll
  PROVE  OrderInv'
<1>1. \A m \in Letters : box[m].born \in Nat
  BY Numbers, RowUpdates DEF OutboxInv
<1>2. /\ UNCHANGED <<box, arrivals, ripe, sends, cur>> /\ pc' = "next"
      /\ batch' = {[letter |-> l, attempts |-> box[l].attempts] : l \in Oldest(Due, BatchLimit)}
  BY DEF Poll
<1>3. IsFiniteSet(Due) /\ Due \subseteq Letters
  <2>1. Due \subseteq {l \in Letters : box[l].state # "none"}
    BY DEF Due
  <2>2. QED
    BY <2>1, FS_Subset DEF OrderInv, BornInOrder
<1>4. BornInOrder' /\ UntriedIsDue' /\ FirstTriesInOrder'
  BY <1>2 DEF OrderInv, BornInOrder, UntriedIsDue, FirstTriesInOrder, Untried
<1>5. BusyWasTried'
  BY <1>2 DEF BusyWasTried, Busy
<1>6. BatchIsOldest'
  <2>1. SUFFICES ASSUME NEW j \in batch', NEW l \in Letters, Untried(l),
                        box[l].born < box[j.letter].born
                 PROVE  \E i \in batch' : i.letter = l
    BY <1>2 DEF BatchIsOldest, Untried
  <2>2. j.letter \in Oldest(Due, BatchLimit)
    BY <1>2
  <2>3. l \in Due
    BY <2>1 DEF OrderInv, UntriedIsDue, Due
  <2>4. BatchLimit \in Nat
    BY OutboxAssumption
  <2>5. l \in Oldest(Due, BatchLimit)
    BY <1>1, <1>3, <2>1, <2>2, <2>3, <2>4, OldestIsClosed
  <2>6. [letter |-> l, attempts |-> box[l].attempts] \in batch'
    BY <1>2, <2>5
  <2>7. QED
    BY <2>6
<1>7. QED
  BY <1>4, <1>5, <1>6 DEF OrderInv

LEMMA TakeOrder ==
  ASSUME OutboxInv, OrderInv, Take
  PROVE  OrderInv'
<1>1. PICK j \in batch : /\ \A i \in batch : box[j.letter].born <= box[i.letter].born
                         /\ cur' = j /\ batch' = batch \ {j}
                         /\ sends' = [sends EXCEPT ![j.letter] = @ + 1]
  BY DEF Take
<1>2. /\ \A m \in Letters : box[m].born \in Nat /\ sends[m] \in Nat
      /\ \A i \in batch : i.letter \in Letters
      /\ sends \in [Letters -> Nat]
  BY Numbers, RowUpdates DEF OutboxInv, TypeOK
<1>3. /\ UNCHANGED <<box, arrivals, ripe>> /\ pc' = "send" /\ cur'.letter = j.letter
      /\ sends'[j.letter] = sends[j.letter] + 1 /\ sends'[j.letter] > 0
      /\ \A m \in Letters : m # j.letter => sends'[m] = sends[m]
  BY <1>1, <1>2 DEF Take
<1>4. BornInOrder' /\ UntriedIsDue' /\ BusyWasTried'
  BY <1>2, <1>3 DEF OrderInv, BornInOrder, UntriedIsDue, BusyWasTried, Untried
<1>5. \A m \in Letters : Untried(m)' => Untried(m) /\ m # j.letter
  BY <1>2, <1>3 DEF Untried
<1>6. BatchIsOldest'
  <2>1. SUFFICES ASSUME NEW i \in batch \ {j}, NEW l \in Letters, Untried(l)',
                        box[l].born < box[i.letter].born
                 PROVE  \E k \in batch \ {j} : k.letter = l
    BY <1>1, <1>3 DEF BatchIsOldest
  <2>2. PICK k \in batch : k.letter = l
    BY <2>1, <1>5 DEF OrderInv, BatchIsOldest
  <2>3. k # j
    BY <2>1, <2>2, <1>5
  <2>4. QED
    BY <2>2, <2>3
<1>7. FirstTriesInOrder'
  <2>1. SUFFICES ASSUME NEW l \in Letters, NEW m \in Letters, box[l].state # "none",
                        box[l].born < box[m].born, sends'[m] > 0, sends'[l] = 0
                 PROVE  FALSE
    BY <1>2, <1>3, NextTypeOK DEF FirstTriesInOrder
  <2>2. Untried(l) /\ l # j.letter
    BY <2>1, <1>3, <1>5 DEF Untried
  <2>3. CASE m = j.letter
    <3>1. \E i \in batch : i.letter = l
      BY <2>1, <2>2, <2>3 DEF OrderInv, BatchIsOldest
    <3>2. box[j.letter].born <= box[l].born
      BY <3>1, <1>1
    <3>3. QED
      BY <2>1, <2>3, <3>2, <1>2
  <2>4. CASE m # j.letter
    BY <2>1, <2>2, <2>4, <1>2, <1>3 DEF OrderInv, FirstTriesInOrder, Untried
  <2>5. QED
    BY <2>3, <2>4
<1>8. QED
  BY <1>4, <1>6, <1>7 DEF OrderInv

LEMMA NextOrderInv == OutboxInv /\ OutboxInv' /\ OrderInv /\ [Next]_vars => OrderInv'
<1> SUFFICES ASSUME OutboxInv, OutboxInv', OrderInv, [Next]_vars PROVE OrderInv'
  OBVIOUS
<1>n. /\ TypeOK
      /\ \A l \in Letters : box[l] \in Rows
      /\ pc \in Busy \union {"report"} => cur.letter \in Letters
  BY Numbers DEF OutboxInv
<1>f. box \in [Letters -> Rows] /\ ripe \in [Letters -> BOOLEAN]
  BY <1>n DEF TypeOK
<1>1. ASSUME NEW l \in Letters, Accept(l) PROVE OrderInv'
  BY <1>1, AcceptOrder
<1>2. ASSUME NEW l \in Letters, BackoffElapses(l) PROVE OrderInv'
  BY <1>2, <1>f, QuietOrder DEF BackoffElapses, workerVars
<1>3. ASSUME NEW l \in Letters, NEW k \in copies[l], NEW e \in EspEvents, EspWebhook(l, k, e)
      PROVE OrderInv'
  <2>1. \A m \in Letters : box'[m].born = box[m].born /\ box'[m].state = box[m].state
    BY <1>3, <1>f, <1>n DEF EspWebhook, Rows
  <2>2. QED
    BY <1>3, <2>1, QuietOrder DEF EspWebhook, workerVars
<1>4. CASE Poll
  BY <1>4, PollOrder
<1>5. CASE Take
  BY <1>5, TakeOrder
<1>6. CASE ProviderTakes \/ SendReturns \/ SendRaises
  BY <1>6, QuietOrder DEF ProviderTakes, SendReturns, SendRaises, Busy
<1>7. CASE ReplyLost \/ MarkFails
  BY <1>7, QuietOrder DEF ReplyLost, MarkFails, Busy
<1>8. CASE MarkSent \/ CountFailure
  <2> DEFINE c == cur.letter
  <2>1. /\ pc \in Busy /\ c \in Letters /\ sends[c] > 0 /\ box[c].state = "queued"
        /\ pc' = "report" /\ UNCHANGED <<sends, arrivals, batch>>
    BY <1>8, <1>n DEF MarkSent, CountFailure, CountFailureAs, Busy, OrderInv, BusyWasTried,
                      OutboxInv, CurIsFresh
  <2>2. /\ \A m \in Letters : m # c => box'[m] = box[m] /\ ripe'[m] = ripe[m]
        /\ box'[c].born = box[c].born /\ box'[c].state # "none"
    BY <1>8, <1>f, <1>n, <2>1 DEF MarkSent, CountFailure, CountFailureAs, Rows
  <2>3. ~Untried(c)
    BY <2>1 DEF Untried
  <2>4. QED
    BY <2>1, <2>2, <2>3, QuietOrder DEF Busy
<1>9. CASE Report \/ IntervalPasses
  BY <1>9, QuietOrder DEF Report, IntervalPasses, workerVars
<1>10. CASE EndReport \/ Pause \/ ProcessStarts
  BY <1>10, QuietOrder DEF EndReport, Pause, ProcessStarts, Busy
<1>11. CASE WorkerStops \/ ProcessDies
  BY <1>11, QuietOrder DEF WorkerStops, ProcessDies, Busy
<1>12. CASE UNCHANGED vars
  BY <1>12, QuietOrder DEF vars, workerVars
<1>13. QED
  BY <1>1, <1>2, <1>3, <1>4, <1>5, <1>6, <1>7, <1>8, <1>9, <1>10, <1>11, <1>12
     DEF Next, Worker

\* First attempts go in the order of arrival, across batches, backoffs, full
\* batches and restarts: a letter still untried is due, so every selection that
\* takes a younger one takes it too, and the batch is worked off by age.
THEOREM FirstTriesByAge == Spec => []FirstTriesInOrder
<1>1. Init => OutboxInv /\ OrderInv
  BY InitOutboxInv, InitOrderInv
<1>2. OutboxInv /\ OrderInv /\ [Next]_vars => (OutboxInv /\ OrderInv)'
  BY NextOutboxInv, NextOrderInv
<1>3. OrderInv => FirstTriesInOrder
  BY DEF OrderInv
<1>4. QED
  BY <1>1, <1>2, <1>3, PTL DEF Spec

(***************************************************************************)
(* The outbox implements the letter service: the abstract status is the    *)
(* state column.                                                           *)
(***************************************************************************)

\* One letter's state changes, or none does.
LEMMA StatusUpdate ==
  ASSUME TypeOK, TypeOK', NEW l \in Letters, NEW s,
         box'[l].state = s, \A m \in Letters \ {l} : box'[m].state = box[m].state
  PROVE  [m \in Letters |-> box'[m].state] =
            [[m \in Letters |-> box[m].state] EXCEPT ![l] = s]
  OBVIOUS

LEMMA StatusSame ==
  ASSUME \A m \in Letters : box'[m].state = box[m].state
  PROVE  [m \in Letters |-> box'[m].state] = [m \in Letters |-> box[m].state]
  OBVIOUS

LEMMA InitService == Init => Service!Init
  BY DEF Init, Service!Init, NoRow

LEMMA NextService == OutboxInv /\ OutboxInv' /\ [Next]_vars => [Service!Next]_Service!vars
<1> SUFFICES ASSUME OutboxInv, OutboxInv', [Next]_vars PROVE [Service!Next]_Service!vars
  OBVIOUS
<1>t. TypeOK /\ TypeOK' /\ box \in [Letters -> Rows]
  BY DEF OutboxInv, TypeOK
<1>n. /\ \A l \in Letters : box[l] \in Rows
      /\ pc \in Busy \union {"report"} => cur.letter \in Letters
  BY <1>t, Numbers
<1>1. ASSUME NEW l \in Letters, Accept(l) PROVE Service!Next
  <2>1. box'[l].state = "queued" /\ \A m \in Letters \ {l} : box'[m].state = box[m].state
    BY <1>1, <1>t, <1>n DEF Accept, Rows
  <2>2. Service!Accept(l)
    BY <1>1, <1>t, <2>1, StatusUpdate DEF Accept, Service!Accept
  <2>3. QED
    BY <2>2 DEF Service!Next
<1>2. ASSUME NEW l \in Letters, NEW k \in copies[l], NEW e \in EspEvents, EspWebhook(l, k, e)
      PROVE [Service!Next]_Service!vars
  <2>1. \A m \in Letters : box'[m].state = box[m].state
    BY <1>2, <1>t, <1>n DEF EspWebhook, Rows
  <2>2. box[l].state = "sent"
    BY <1>2 DEF OutboxInv, Budget, EspWebhook
  <2>3. CASE told' = [told EXCEPT ![l] = @ \union {e}]
    <3>1. Service!Tell(l, e)
      BY <2>1, <2>2, <2>3, StatusSame DEF Service!Tell
    <3>2. QED
      BY <3>1 DEF Service!Next
  <2>4. CASE UNCHANGED told
    BY <2>1, <2>4, StatusSame DEF Service!vars
  <2>5. QED
    BY <1>2, <2>3, <2>4 DEF EspWebhook
<1>3. CASE MarkSent
  <2>1. cur.letter \in Letters /\ box[cur.letter].state = "queued"
    BY <1>3, <1>n DEF MarkSent, Busy, OutboxInv, CurIsFresh
  <2>2. /\ box'[cur.letter].state = "sent"
        /\ \A m \in Letters \ {cur.letter} : box'[m].state = box[m].state
    BY <1>3, <1>t, <1>n, <2>1 DEF MarkSent, Rows
  <2>3. Service!Settle(cur.letter, "sent")
    BY <1>3, <1>t, <2>1, <2>2, StatusUpdate DEF MarkSent, Service!Settle
  <2>4. QED
    BY <2>1, <2>3 DEF Service!Next
<1>4. CASE CountFailure
  <2>1. cur.letter \in Letters /\ box[cur.letter].state = "queued"
    BY <1>4, <1>n DEF CountFailure, CountFailureAs, Busy, OutboxInv, CurIsFresh
  <2>2. CASE cur.attempts + 1 >= MaxAttempts
    <3>1. /\ box'[cur.letter].state = "failed"
          /\ \A m \in Letters \ {cur.letter} : box'[m].state = box[m].state
      BY <1>4, <1>t, <1>n, <2>1, <2>2 DEF CountFailure, CountFailureAs, Rows
    <3>2. Service!Settle(cur.letter, "failed")
      BY <1>4, <1>t, <2>1, <3>1, StatusUpdate DEF CountFailure, CountFailureAs, Service!Settle
    <3>3. QED
      BY <2>1, <3>2 DEF Service!Next
  <2>3. CASE ~(cur.attempts + 1 >= MaxAttempts)
    <3>1. \A m \in Letters : box'[m].state = box[m].state
      BY <1>4, <1>t, <1>n, <2>1, <2>3 DEF CountFailure, CountFailureAs, Rows
    <3>2. QED
      BY <1>4, <3>1, StatusSame DEF CountFailure, CountFailureAs, Service!vars
  <2>4. QED
    BY <2>2, <2>3
<1>5. CASE Report
  <2>1. cur.letter \in Letters /\ box[cur.letter].state = outcome /\ outcome \in {"sent", "failed"}
    BY <1>5, <1>n DEF Report, OutboxInv, ReportIsTrue
  <2>2. Service!Tell(cur.letter, outcome)
    BY <1>5, <2>1, StatusSame DEF Report, Service!Tell
  <2>3. QED
    BY <2>1, <2>2 DEF Service!Next
<1>6. ASSUME UNCHANGED <<box, told>> PROVE UNCHANGED Service!vars
  BY <1>6 DEF Service!vars
<1>7. ASSUME NEW l \in Letters, BackoffElapses(l) PROVE UNCHANGED <<box, told>>
  BY <1>7 DEF BackoffElapses
<1>8. CASE \/ Poll \/ Take \/ ProviderTakes \/ SendReturns \/ SendRaises \/ ReplyLost \/ MarkFails
           \/ EndReport \/ Pause \/ WorkerStops \/ ProcessDies \/ ProcessStarts \/ IntervalPasses
           \/ UNCHANGED vars
  <2>1. UNCHANGED <<box, told>>
    BY <1>8 DEF Poll, Take, ProviderTakes, SendReturns, SendRaises, ReplyLost, MarkFails,
                EndReport, Pause, WorkerStops, ProcessDies, ProcessStarts, IntervalPasses, vars
  <2>2. QED
    BY <2>1, <1>6
<1>9. QED
  BY <1>1, <1>2, <1>3, <1>4, <1>5, <1>6, <1>7, <1>8 DEF Next, Worker

\* Whatever dies, is lost or is repeated, the application may rely on the
\* letter service: a letter is settled once and every report of it is true of
\* the outbox.
THEOREM OutboxImplementsService == Spec => ImplementsLetterService
<1>1. Spec => []OutboxInv
  BY InitOutboxInv, NextOutboxInv, PTL DEF Spec
<1>2. QED
  BY <1>1, InitService, NextService, PTL DEF Spec, ImplementsLetterService, Service!Spec

=============================================================================
