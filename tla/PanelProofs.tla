------------------------------- MODULE PanelProofs -------------------------------
(***************************************************************************)
(* Proofs about what admins share: the template library, the settings and  *)
(* the sending of letters by hand, for any number of templates, scenarios, *)
(* addresses, requests and ticks, any batches, presses and faults.         *)
(***************************************************************************)
EXTENDS Services, FiniteSetTheorems, SequenceTheorems, TLAPS

-----------------------------------------------------------------------------
ReqStages == {"idle", "create", "attach", "activate", "set"}
ReqRows == [pc : ReqStages, tid : TemplateIds \union {None}, service : Scenarios \union {None},
            active : BOOLEAN, locks : SUBSET TemplateIds]
TplRows == [service : Scenarios \union {None, Gone}, active : BOOLEAN]

\* At most one template of a scenario is active (the unique index keeps it), a
\* request that attaches or activates a template names it, and the rows a
\* transaction holds stay in the scenario it found them in.
OnlyOne(table) == \A s \in Scenarios : \A t, u \in Tpl!ActiveOf(table, s) : t = u
NamesOne(w) == w.pc \in {"attach", "activate", "set"} => w.tid \in TemplateIds
HoldsOwn(w, table) == \A t \in w.locks : w.pc = "set" /\ table[t].service = w.service
TplInv == /\ Tpl!TypeOK /\ OnlyOne(tpl)
          /\ \A q \in Admins : NamesOne(req[q]) /\ HoldsOwn(req[q], tpl)

LEMMA TplBegins == ASSUME Gone \notin Scenarios PROVE Tpl!Init => TplInv
<1> SUFFICES ASSUME Tpl!Init PROVE TplInv
  OBVIOUS
<1>1. Tpl!Idle \in ReqRows /\ Tpl!Idle.pc = "idle" /\ Tpl!Idle.locks = {}
  BY DEF Tpl!Idle, ReqRows, ReqStages
<1>2. Tpl!TypeOK
  BY <1>1 DEF Tpl!Init, Tpl!TypeOK, ReqRows, ReqStages
<1>3. OnlyOne(tpl)
  BY DEF Tpl!Init, OnlyOne, Tpl!ActiveOf
<1>4. QED
  BY <1>1, <1>2, <1>3 DEF Tpl!Init, TplInv, NamesOne, HoldsOwn

\* The library counts with the same operator as this module.
LEMMA SameTemplates == \A S : Tpl!Cardinality(S) = Cardinality(S)
  BY Zenon DEF Tpl!Cardinality, Cardinality

\* What the index lets through has one active template a scenario.
LEMMA CommitKeepsOne ==
    ASSUME IsFiniteSet(TemplateIds), OnlyOne(tpl), NEW table, Tpl!Commit(table)
    PROVE  OnlyOne(tpl') /\ (tpl' = table \/ tpl' = tpl)
<1>1. CASE \A s \in Scenarios : Cardinality(Tpl!ActiveOf(table, s)) <= 1
  <2>1. ASSUME NEW s \in Scenarios, NEW t \in Tpl!ActiveOf(table, s), NEW u \in Tpl!ActiveOf(table, s) PROVE t = u
    <3>1. IsFiniteSet(Tpl!ActiveOf(table, s))
      BY FS_Subset DEF Tpl!ActiveOf
    <3>2. Cardinality(Tpl!ActiveOf(table, s)) \in Nat /\ Cardinality(Tpl!ActiveOf(table, s)) # 0
      BY <2>1, <3>1, FS_CardinalityType, FS_EmptySet
    <3>3. Cardinality(Tpl!ActiveOf(table, s)) = 1
      BY <1>1, <3>2
    <3>4. \E x : Tpl!ActiveOf(table, s) = {x}
      BY <3>1, <3>3, FS_Singleton
    <3>5. QED
      BY <2>1, <3>4
  <2>2. tpl' = table
    BY <1>1, SameTemplates DEF Tpl!Commit
  <2>3. QED
    BY <2>1, <2>2 DEF OnlyOne
<1>2. CASE ~(\A s \in Scenarios : Cardinality(Tpl!ActiveOf(table, s)) <= 1)
  BY <1>2, SameTemplates DEF Tpl!Commit
<1>3. QED
  BY <1>1, <1>2

\* What a request writes of a template, or of the rows it holds.
Written(t, w) == [tpl EXCEPT ![t] = w]
Activated(q) ==
    [t \in TemplateIds |->
        IF t = req[q].tid /\ tpl[t].service # Gone THEN [tpl[t] EXCEPT !.active = TRUE]
        ELSE IF t \in req[q].locks THEN [tpl[t] EXCEPT !.active = FALSE]
        ELSE tpl[t]]

LEMMA TplFacts ==
    ASSUME TplInv
    PROVE  /\ tpl \in [TemplateIds -> TplRows] /\ req \in [Admins -> ReqRows] /\ OnlyOne(tpl)
           /\ Tpl!Idle \in ReqRows /\ Tpl!Idle.pc = "idle" /\ Tpl!Idle.locks = {}
           /\ \A q \in Admins : NamesOne(req[q]) /\ HoldsOwn(req[q], tpl)
  BY DEF TplInv, Tpl!TypeOK, TplRows, ReqRows, ReqStages, Tpl!Idle

\* A row nobody holds, or one whose scenario stays, may be written; one request moves on.
LEMMA TplRowWritten ==
    ASSUME IsFiniteSet(TemplateIds), TplInv, NEW t \in TemplateIds, NEW w \in TplRows,
           \A q \in Admins : t \notin req[q].locks, Tpl!Commit(Written(t, w))
    PROVE  /\ tpl' \in [TemplateIds -> TplRows] /\ OnlyOne(tpl')
           /\ \A q \in Admins : HoldsOwn(req[q], tpl')
<1>1. tpl \in [TemplateIds -> TplRows] /\ OnlyOne(tpl) /\ \A q \in Admins : HoldsOwn(req[q], tpl)
  BY TplFacts
<1>2. req \in [Admins -> ReqRows]
  BY TplFacts
<1> DEFINE table == Written(t, w)
<1>3. table \in [TemplateIds -> TplRows] /\ \A u \in TemplateIds : u # t => table[u] = tpl[u]
  BY <1>1 DEF Written
<1>4. Tpl!Commit(table)
  OBVIOUS
<1> HIDE DEF table
<1>5. OnlyOne(tpl') /\ (tpl' = table \/ tpl' = tpl)
  BY <1>1, <1>4, CommitKeepsOne
<1>6. \A u \in TemplateIds : u # t => tpl'[u] = tpl[u]
  BY <1>3, <1>5
<1>7. ASSUME NEW q \in Admins PROVE HoldsOwn(req[q], tpl')
  <2>1. req[q].locks \subseteq TemplateIds
    BY <1>2 DEF ReqRows
  <2>2. QED
    BY <1>1, <1>6, <2>1 DEF HoldsOwn
<1>8. QED
  BY <1>1, <1>3, <1>5, <1>7

LEMMA TplRequestMoves ==
    ASSUME TplInv, NEW q \in Admins, NEW w \in ReqRows, req' = [req EXCEPT ![q] = w], NamesOne(w), HoldsOwn(w, tpl'),
           tpl' \in [TemplateIds -> TplRows], OnlyOne(tpl'), \A p \in Admins : HoldsOwn(req[p], tpl')
    PROVE  TplInv'
<1>1. req \in [Admins -> ReqRows] /\ \A p \in Admins : NamesOne(req[p])
  BY TplFacts
<1>2. req' \in [Admins -> ReqRows] /\ req'[q] = w /\ \A p \in Admins : p # q => req'[p] = req[p]
  BY <1>1
<1>3. \A p \in Admins : NamesOne(req'[p]) /\ HoldsOwn(req'[p], tpl')
  BY <1>1, <1>2
<1>4. QED
  BY <1>2, <1>3 DEF TplInv, Tpl!TypeOK, TplRows, ReqRows, ReqStages, NamesOne, HoldsOwn

\* The rows free for a request that holds none are held by nobody.
LEMMA FreeRow ==
    ASSUME TplInv, NEW q \in Admins, req[q].pc # "set", NEW t \in Tpl!Free(q)
    PROVE  t \in TemplateIds /\ \A p \in Admins : t \notin req[p].locks
<1>1. t \in TemplateIds /\ \A p \in Admins \ {q} : t \notin req[p].locks
  BY DEF Tpl!Free
<1>2. t \notin req[q].locks
  BY TplFacts DEF HoldsOwn
<1>3. QED
  BY <1>1, <1>2

LEMMA ActivatedKept ==
    ASSUME IsFiniteSet(TemplateIds), TplInv, NEW q \in Admins, Tpl!ActivateCommits(q) PROVE TplInv'
<1>1. /\ tpl \in [TemplateIds -> TplRows] /\ req \in [Admins -> ReqRows] /\ OnlyOne(tpl)
      /\ Tpl!Idle \in ReqRows /\ Tpl!Idle.pc = "idle" /\ Tpl!Idle.locks = {}
      /\ \A p \in Admins : HoldsOwn(req[p], tpl)
  BY TplFacts
<1> DEFINE table == Activated(q)
<1>2. Tpl!Commit(table) /\ req' = [req EXCEPT ![q] = Tpl!Idle]
  BY DEF Tpl!ActivateCommits, Activated
<1>3. table \in [TemplateIds -> TplRows] /\ \A t \in TemplateIds : table[t].service = tpl[t].service
  <2>1. ASSUME NEW t \in TemplateIds
        PROVE  /\ tpl[t] \in TplRows /\ [tpl[t] EXCEPT !.active = TRUE] \in TplRows
               /\ [tpl[t] EXCEPT !.active = FALSE] \in TplRows
               /\ [tpl[t] EXCEPT !.active = TRUE].service = tpl[t].service
               /\ [tpl[t] EXCEPT !.active = FALSE].service = tpl[t].service
    BY <1>1 DEF TplRows
  <2>2. QED
    BY <2>1 DEF Activated
<1> HIDE DEF table
<1>4. OnlyOne(tpl') /\ (tpl' = table \/ tpl' = tpl)
  BY <1>1, <1>2, CommitKeepsOne
<1>5. tpl' \in [TemplateIds -> TplRows] /\ \A t \in TemplateIds : tpl'[t].service = tpl[t].service
  BY <1>1, <1>3, <1>4
<1>6. ASSUME NEW p \in Admins PROVE HoldsOwn(req[p], tpl')
  <2>1. req[p].locks \subseteq TemplateIds
    BY <1>1 DEF ReqRows
  <2>2. QED
    BY <1>1, <1>5, <2>1 DEF HoldsOwn
<1>7. NamesOne(Tpl!Idle) /\ HoldsOwn(Tpl!Idle, tpl')
  BY <1>1 DEF NamesOne, HoldsOwn
<1>8. QED
  BY <1>1, <1>2, <1>4, <1>5, <1>6, <1>7, TplRequestMoves

LEMMA TplKept ==
    ASSUME IsFiniteSet(TemplateIds), Gone \notin Scenarios, None # Gone, TplInv, Tpl!Next \/ UNCHANGED tp
    PROVE  TplInv'
<1>0. /\ tpl \in [TemplateIds -> TplRows] /\ req \in [Admins -> ReqRows] /\ OnlyOne(tpl)
      /\ Tpl!Idle \in ReqRows /\ Tpl!Idle.pc = "idle" /\ Tpl!Idle.locks = {}
      /\ \A q \in Admins : NamesOne(req[q]) /\ HoldsOwn(req[q], tpl)
  BY TplFacts
<1>1. \A table : NamesOne(Tpl!Idle) /\ HoldsOwn(Tpl!Idle, table)
  BY <1>0 DEF NamesOne, HoldsOwn
<1>2. ASSUME UNCHANGED req, tpl' \in [TemplateIds -> TplRows], OnlyOne(tpl'), \A p \in Admins : HoldsOwn(req[p], tpl')
      PROVE  TplInv'
  BY <1>0, <1>2 DEF TplInv, Tpl!TypeOK, TplRows, ReqRows, ReqStages, NamesOne, HoldsOwn
<1>3. ASSUME NEW q \in Admins, NEW w \in ReqRows, req' = [req EXCEPT ![q] = w], NamesOne(w), w.locks = {}, UNCHANGED tpl
      PROVE  TplInv'
  <2>1. HoldsOwn(w, tpl')
    BY <1>3 DEF HoldsOwn
  <2>2. QED
    BY <1>0, <1>3, <2>1, TplRequestMoves
<1>4. ASSUME NEW q \in Admins, Tpl!CreateLooks(q) PROVE TplInv'
  <2>1. PICK s \in Scenarios \union {None} :
            req' = [req EXCEPT ![q] = [Tpl!Idle EXCEPT !.pc = "create", !.service = s,
                                       !.active = s # None /\ Tpl!active_template(s) = None]]
    BY <1>4, Zenon DEF Tpl!CreateLooks
  <2> DEFINE b == s # None /\ Tpl!active_template(s) = None
             w == [Tpl!Idle EXCEPT !.pc = "create", !.service = s, !.active = b]
  <2>2. b \in BOOLEAN
    OBVIOUS
  <2>3. req' = [req EXCEPT ![q] = w] /\ UNCHANGED tpl
    BY <1>4, <2>1 DEF Tpl!CreateLooks
  <2> HIDE DEF b
  <2>4. w \in ReqRows /\ NamesOne(w) /\ w.locks = {}
    BY <2>2 DEF Tpl!Idle, ReqRows, ReqStages, NamesOne
  <2> HIDE DEF w
  <2>5. QED
    BY <1>3, <2>3, <2>4
<1>5. ASSUME NEW q \in Admins, Tpl!CreateInserts(q) PROVE TplInv'
  <2>1. PICK t \in TemplateIds : /\ tpl[t].service = Gone
                         /\ Tpl!Commit([tpl EXCEPT ![t] = [service |-> req[q].service, active |-> req[q].active]])
    BY <1>5 DEF Tpl!CreateInserts
  <2> DEFINE w == [service |-> req[q].service, active |-> req[q].active]
  <2>2. w \in TplRows
    BY <1>0 DEF TplRows, ReqRows
  <2>3. Tpl!Commit(Written(t, w))
    BY <2>1 DEF Written
  <2> HIDE DEF w
  <2>4. ASSUME NEW p \in Admins PROVE t \notin req[p].locks
    <3>1. req[p].service # Gone
      BY <1>0 DEF ReqRows
    <3>2. QED
      BY <1>0, <2>1, <3>1 DEF HoldsOwn
  <2>5. /\ tpl' \in [TemplateIds -> TplRows] /\ OnlyOne(tpl')
        /\ \A p \in Admins : HoldsOwn(req[p], tpl')
    BY <2>2, <2>3, <2>4, TplRowWritten
  <2>6. req' = [req EXCEPT ![q] = Tpl!Idle]
    BY <1>5 DEF Tpl!CreateInserts
  <2>7. QED
    BY <1>0, <1>1, <2>5, <2>6, TplRequestMoves
<1>6. ASSUME NEW q \in Admins, NEW t \in TemplateIds, NEW s \in Scenarios \union {None}, Tpl!AttachLooks(q, t, s) PROVE TplInv'
  <2> DEFINE b == s # None /\ Tpl!ActiveOf(tpl, s) \ {t} = {}
             w == [Tpl!Idle EXCEPT !.pc = "attach", !.tid = t, !.service = s, !.active = b]
  <2>1. b \in BOOLEAN
    OBVIOUS
  <2>2. req' = [req EXCEPT ![q] = w] /\ UNCHANGED tpl
    BY <1>6 DEF Tpl!AttachLooks
  <2> HIDE DEF b
  <2>3. w \in ReqRows /\ NamesOne(w) /\ w.locks = {}
    BY <2>1 DEF Tpl!Idle, ReqRows, ReqStages, NamesOne
  <2> HIDE DEF w
  <2>4. QED
    BY <1>3, <2>2, <2>3
<1>7. ASSUME NEW q \in Admins, Tpl!AttachWrites(q) PROVE TplInv'
  <2> DEFINE t == req[q].tid
             w == [service |-> req[q].service, active |-> req[q].active]
  <2>1. /\ req[q].pc = "attach" /\ t \in Tpl!Free(q) /\ req' = [req EXCEPT ![q] = Tpl!Idle]
        /\ UNCHANGED tpl \/ Tpl!Commit(Written(t, w))
    BY <1>7 DEF Tpl!AttachWrites, Written
  <2>2. w \in TplRows
    BY <1>0 DEF TplRows, ReqRows
  <2> HIDE DEF t, w
  <2>3. t \in TemplateIds /\ \A p \in Admins : t \notin req[p].locks
    BY <2>1, FreeRow
  <2>4. /\ tpl' \in [TemplateIds -> TplRows] /\ OnlyOne(tpl')
        /\ \A p \in Admins : HoldsOwn(req[p], tpl')
    <3>1. CASE UNCHANGED tpl
      BY <1>0, <3>1
    <3>2. CASE Tpl!Commit(Written(t, w))
      BY <2>2, <2>3, <3>2, TplRowWritten
    <3>3. QED
      BY <2>1, <3>1, <3>2
  <2>5. QED
    BY <1>0, <1>1, <2>1, <2>4, TplRequestMoves
<1>8. ASSUME NEW q \in Admins, NEW t \in TemplateIds, Tpl!ActivateLooks(q, t) PROVE TplInv'
  <2> DEFINE w == [Tpl!Idle EXCEPT !.pc = "activate", !.tid = t, !.service = tpl[t].service]
  <2>1. req' = [req EXCEPT ![q] = w] /\ UNCHANGED tpl /\ tpl[t].service # Gone
    BY <1>8 DEF Tpl!ActivateLooks
  <2>2. w \in ReqRows /\ NamesOne(w) /\ w.locks = {}
    BY <1>0, <2>1 DEF Tpl!Idle, ReqRows, ReqStages, TplRows, NamesOne
  <2> HIDE DEF w
  <2>3. QED
    BY <1>3, <2>1, <2>2
<1>9. ASSUME NEW q \in Admins, Tpl!ActivateClears(q) PROVE TplInv'
  <2> DEFINE rows == {t \in TemplateIds : tpl[t].service = req[q].service}
             w == [req[q] EXCEPT !.pc = "set", !.locks = rows]
  <2>1. req' = [req EXCEPT ![q] = w] /\ UNCHANGED tpl /\ req[q].pc = "activate"
    BY <1>9, <1>0 DEF Tpl!ActivateClears
  <2>2. rows \subseteq TemplateIds /\ \A t \in rows : tpl[t].service = req[q].service
    OBVIOUS
  <2> HIDE DEF rows
  <2>3. w \in ReqRows /\ w.tid = req[q].tid /\ w.pc = "set" /\ w.locks = rows /\ w.service = req[q].service
    BY <1>0, <2>2 DEF ReqRows, ReqStages
  <2>4. NamesOne(w) /\ HoldsOwn(w, tpl)
    BY <1>0, <2>1, <2>2, <2>3 DEF NamesOne, HoldsOwn
  <2> HIDE DEF w
  <2>5. QED
    BY <1>0, <2>1, <2>3, <2>4, TplRequestMoves
<1>10. ASSUME NEW q \in Admins, Tpl!ActivateFails(q) PROVE TplInv'
  <2>1. req' = [req EXCEPT ![q] = Tpl!Idle] /\ UNCHANGED tpl
    BY <1>10 DEF Tpl!ActivateFails
  <2>2. QED
    BY <1>0, <1>1, <1>3, <2>1
<1>11. ASSUME NEW t \in TemplateIds, Tpl!Delete(t) PROVE TplInv'
  <2>1. /\ tpl' = [tpl EXCEPT ![t] = [service |-> Gone, active |-> FALSE]] /\ UNCHANGED req
        /\ \A p \in Admins : t \notin req[p].locks
    BY <1>11 DEF Tpl!Delete
  <2>2. tpl' \in [TemplateIds -> TplRows]
    BY <1>0, <2>1 DEF TplRows
  <2>3. \A s \in Scenarios : Tpl!ActiveOf(tpl', s) \subseteq Tpl!ActiveOf(tpl, s)
    BY <1>0, <2>1 DEF Tpl!ActiveOf
  <2>4. OnlyOne(tpl')
    BY <1>0, <2>3 DEF OnlyOne
  <2>5. ASSUME NEW p \in Admins PROVE HoldsOwn(req[p], tpl')
    <3>1. req[p].locks \subseteq TemplateIds
      BY <1>0 DEF ReqRows
    <3>2. QED
      BY <1>0, <2>1, <3>1 DEF HoldsOwn
  <2>6. QED
    BY <1>2, <2>1, <2>2, <2>4, <2>5
<1>12. CASE UNCHANGED tp
  BY <1>0, <1>2, <1>12 DEF tp
<1>13. CASE Tpl!Next
  <2>1. ASSUME NEW q \in Admins,
               \/ Tpl!CreateLooks(q) \/ Tpl!CreateInserts(q) \/ Tpl!AttachWrites(q)
               \/ Tpl!ActivateClears(q) \/ Tpl!ActivateCommits(q) \/ Tpl!ActivateFails(q)
        PROVE  TplInv'
    BY <1>4, <1>5, <1>7, <1>9, <1>10, <2>1, ActivatedKept
  <2>2. QED
    BY <1>6, <1>8, <1>11, <1>13, <2>1 DEF Tpl!Next
<1>14. QED
  BY <1>12, <1>13

\* A step that takes the active template from a scenario, and leaves it there.
Overtaken(s) ==
    \/ \E q \in Admins : req[q].pc = "set" /\ req[q].service = s /\ tpl[req[q].tid].service # s
    \/ \E q \in Admins : req[q].pc = "attach" /\ req[q].service = s /\ ~req[q].active
                         /\ req[q].tid = Tpl!active_template(s)

LEMMA LossStep ==
    ASSUME IsFiniteSet(TemplateIds), Gone \notin Scenarios, None \notin Scenarios, None \notin TemplateIds,
           TplInv, Tpl!Next \/ UNCHANGED tp, NEW s \in Scenarios,
           Tpl!active_template(s) # None, Tpl!active_template(s)' = None,
           tpl'[Tpl!active_template(s)].service = s
    PROVE  Overtaken(s)
<1> DEFINE a == Tpl!active_template(s)
<1>1. a \in TemplateIds /\ tpl[a].service = s /\ tpl[a].active
  BY DEF Tpl!active_template, Tpl!ActiveOf
<1>2. \A t \in TemplateIds : ~(tpl'[t].service = s /\ tpl'[t].active)
  BY DEF Tpl!active_template, Tpl!ActiveOf
<1>3. /\ tpl \in [TemplateIds -> TplRows] /\ OnlyOne(tpl)
      /\ \A q \in Admins : NamesOne(req[q]) /\ HoldsOwn(req[q], tpl)
  BY TplFacts
<1>4. s # Gone /\ s # None /\ tpl' # tpl /\ tpl'[a].service = s
  BY <1>1, <1>2
<1>5. a = Tpl!active_template(s)
  OBVIOUS
<1> HIDE DEF a
<1>6. ASSUME NEW table, Tpl!Commit(table) PROVE tpl' = table
  BY <1>3, <1>4, <1>6, CommitKeepsOne
<1>7. ASSUME NEW q \in Admins, Tpl!CreateInserts(q) PROVE FALSE
  <2>1. PICK t \in TemplateIds : /\ tpl[t].service = Gone
                         /\ Tpl!Commit([tpl EXCEPT ![t] = [service |-> req[q].service, active |-> req[q].active]])
    BY <1>7 DEF Tpl!CreateInserts
  <2>2. tpl' = [tpl EXCEPT ![t] = [service |-> req[q].service, active |-> req[q].active]]
    BY <1>6, <2>1
  <2>3. tpl'[a] = tpl[a]
    BY <1>1, <1>4, <2>1, <2>2
  <2>4. QED
    BY <1>1, <1>2, <2>3
<1>8. ASSUME NEW q \in Admins, Tpl!AttachWrites(q)
      PROVE  req[q].pc = "attach" /\ req[q].service = s /\ ~req[q].active /\ req[q].tid = a
  <2> DEFINE w == [service |-> req[q].service, active |-> req[q].active]
  <2>1. req[q].pc = "attach" /\ Tpl!Commit([tpl EXCEPT ![req[q].tid] = w])
    BY <1>4, <1>8 DEF Tpl!AttachWrites
  <2>2. tpl' = [tpl EXCEPT ![req[q].tid] = w]
    BY <1>6, <2>1
  <2>3. req[q].tid \in TemplateIds
    BY <1>3, <2>1 DEF NamesOne
  <2>4. req[q].tid = a
    BY <1>1, <1>2, <1>3, <2>2
  <2>5. tpl'[a] = w
    BY <1>3, <2>2, <2>3, <2>4
  <2>6. w.service = req[q].service /\ w.active = req[q].active
    OBVIOUS
  <2> HIDE DEF w
  <2>7. req[q].service = s /\ ~req[q].active
    BY <1>1, <1>2, <1>4, <2>5, <2>6
  <2>8. QED
    BY <2>1, <2>4, <2>7
<1>9. ASSUME NEW t \in TemplateIds, Tpl!Delete(t) PROVE FALSE
  BY <1>1, <1>2, <1>3, <1>4, <1>9 DEF Tpl!Delete
<1>10. ASSUME NEW q \in Admins, Tpl!ActivateCommits(q)
       PROVE  req[q].pc = "set" /\ req[q].service = s /\ tpl[req[q].tid].service # s
  <2>1. Tpl!Commit(Activated(q)) /\ req[q].pc = "set"
    BY <1>10 DEF Tpl!ActivateCommits, Activated
  <2>2. tpl' = Activated(q)
    BY <1>6, <2>1
  <2>3. req[q].tid \in TemplateIds
    BY <1>3, <2>1 DEF NamesOne
  <2>4. a # req[q].tid
    <3>1. SUFFICES ASSUME a = req[q].tid PROVE FALSE
      OBVIOUS
    <3>2. tpl'[a] = [tpl[a] EXCEPT !.active = TRUE]
      BY <1>1, <1>4, <2>2, <3>1 DEF Activated
    <3>3. tpl[a] \in TplRows
      BY <1>1, <1>3
    <3>4. tpl'[a].active
      BY <3>2, <3>3 DEF TplRows
    <3>5. QED
      BY <1>1, <1>2, <1>4, <3>4
  <2>5. a \in req[q].locks
    <3>1. SUFFICES ASSUME a \notin req[q].locks PROVE FALSE
      OBVIOUS
    <3>2. tpl'[a] = tpl[a]
      BY <1>1, <2>2, <2>4, <3>1 DEF Activated
    <3>3. QED
      BY <1>1, <1>2, <3>2
  <2>6. req[q].service = s
    BY <1>1, <1>3, <2>5 DEF HoldsOwn
  <2>7. ASSUME tpl[req[q].tid].service = s PROVE FALSE
    <3>1. tpl'[req[q].tid] = [tpl[req[q].tid] EXCEPT !.active = TRUE]
      BY <1>4, <2>2, <2>3, <2>7 DEF Activated
    <3>2. tpl[req[q].tid] \in TplRows
      BY <1>3, <2>3
    <3>3. tpl'[req[q].tid].service = s /\ tpl'[req[q].tid].active
      BY <2>7, <3>1, <3>2 DEF TplRows
    <3>4. QED
      BY <1>2, <2>3, <3>3
  <2>8. QED
    BY <2>1, <2>6, <2>7
<1>11. \/ \E q \in Admins : Tpl!CreateInserts(q) \/ Tpl!AttachWrites(q) \/ Tpl!ActivateCommits(q)
       \/ \E t \in TemplateIds : Tpl!Delete(t)
  <2>1. \A q \in Admins : Tpl!CreateLooks(q) \/ Tpl!ActivateClears(q) \/ Tpl!ActivateFails(q) => tpl' = tpl
    BY Zenon DEF Tpl!CreateLooks, Tpl!ActivateClears, Tpl!ActivateFails
  <2>2. \A q \in Admins, t \in TemplateIds : Tpl!ActivateLooks(q, t) => tpl' = tpl
    BY Zenon DEF Tpl!ActivateLooks
  <2>3. \A q \in Admins, t \in TemplateIds, v \in Scenarios \union {None} : Tpl!AttachLooks(q, t, v) => tpl' = tpl
    BY Zenon DEF Tpl!AttachLooks
  <2>4. Tpl!Next
    BY <1>4 DEF tp
  <2>5. QED
    BY <1>4, <2>1, <2>2, <2>3, <2>4, Zenon DEF Tpl!Next
<1>12. QED
  BY <1>5, <1>7, <1>8, <1>9, <1>10, <1>11 DEF Overtaken

\* Of a step of the services, the templates see their own steps or none.
LEMMA TemplatesAlone == ASSUME [Next]_vars PROVE Tpl!Next \/ UNCHANGED tp
BY DEF Next, vars, tp, OfferStep, ChoiceStep, MailboxStep, WheelStep, AttributionStep, TemplateStep,
       CatalogueStep, PictureStep, MailStep, SettingsStep

LEMMA TemplatesAlways == Spec => []TplInv
<1>1. Init => TplInv
  BY TplBegins, ServicesAssumption DEF Init
<1>2. TplInv /\ [Next]_vars => TplInv'
  BY TemplatesAlone, TplKept, ServicesAssumption
<1>3. QED
  BY <1>1, <1>2, PTL DEF Spec

\* A scenario falls back to the built-in letter only when its active template
\* is deleted or moved, when the one being activated was before activate_template
\* took the rows, or when attach_template writes to the active one that another
\* is active, as it was when it looked (admin.py).
THEOREM TemplatesStay == Spec => ActiveLostOnlyByRemoval
<1> USE ServicesAssumption
<1>1. TplInv /\ [Next]_vars =>
        [\A s \in Scenarios : Tpl!active_template(s) # None /\ Tpl!active_template(s)' = None =>
          \/ tpl'[Tpl!active_template(s)].service # s
          \/ \E q \in Admins : req[q].pc = "set" /\ req[q].service = s
                               /\ tpl[req[q].tid].service # s
          \/ \E q \in Admins : req[q].pc = "attach" /\ req[q].service = s /\ ~req[q].active
                               /\ req[q].tid = Tpl!active_template(s)]_Tpl!vars
  BY TemplatesAlone, LossStep DEF Overtaken
<1>2. QED
  BY <1>1, TemplatesAlways, PTL DEF Spec, ActiveLostOnlyByRemoval, Tpl!ActiveLostOnlyByRemoval

-----------------------------------------------------------------------------
\* The functions are defined where they are used; values may be anything.
Shape ==
    /\ DOMAIN saved = Set!Keys /\ DOMAIN site = Set!Procs /\ DOMAIN onec = Set!Procs
    /\ DOMAIN since = Ticks \union {"catalogue"} /\ DOMAIN tick = Ticks
    /\ \A t \in Ticks : tick[t] = [pc |-> tick[t].pc, read |-> tick[t].read]
    /\ catalogue = [pc |-> catalogue.pc, read |-> catalogue.read]

\* What is saved may be used by every tick at work, and so may the answer any
\* tick is about to assign, for all ticks share one _site.
TicksAreFresh ==
    \A t \in Ticks : tick[t].pc # "idle" =>
        /\ saved["url"] \in since[t]
        /\ \A q \in Ticks : tick[q].pc = "load" => tick[q].read \in since[t]
        /\ tick[t].pc = "write" => site["worker"] \in since[t]
PullIsFresh ==
    catalogue.pc \in {"load", "pull"} =>
        /\ saved["onec"] \in since["catalogue"]
        /\ catalogue.pc = "load" => catalogue.read \in since["catalogue"]
        /\ catalogue.pc = "pull" => onec["worker"] \in since["catalogue"]
SettingsInv == Shape /\ TicksAreFresh /\ PullIsFresh

LEMMA SettingsBegin == Set!Init => SettingsInv
  BY DEF Set!Init, Set!Keys, Set!Procs, Set!NoTick, SettingsInv, Shape, TicksAreFresh, PullIsFresh

\* Steps of the panel that save nothing and leave the worker alone.
LEMMA PanelStep ==
    ASSUME SettingsInv, UNCHANGED <<saved, since, tick, catalogue>>,
           DOMAIN site' = Set!Procs, DOMAIN onec' = Set!Procs,
           site'["worker"] = site["worker"], onec'["worker"] = onec["worker"]
    PROVE  SettingsInv'
  BY DEF SettingsInv, Shape, TicksAreFresh, PullIsFresh

\* A key is saved: whoever is at work may use the new value.
LEMMA SaveStep ==
    ASSUME SettingsInv, "catalogue" \notin Ticks, NEW key, NEW value, Set!Save(key, value),
           UNCHANGED <<site, onec, tick, catalogue>>
    PROVE  SettingsInv'
<1>1. /\ DOMAIN saved' = Set!Keys /\ DOMAIN since' = Ticks \union {"catalogue"}
      /\ \A t \in Ticks : since'[t] = IF key = "url" THEN since[t] \union {value} ELSE since[t]
      /\ since'["catalogue"] = IF key = "onec" THEN since["catalogue"] \union {value} ELSE since["catalogue"]
  BY DEF Set!Save, SettingsInv, Shape
<1>2. /\ saved'["url"] = IF key = "url" THEN value ELSE saved["url"]
      /\ saved'["onec"] = IF key = "onec" THEN value ELSE saved["onec"]
  BY DEF Set!Save, SettingsInv, Shape, Set!Keys
<1>3. Shape'
  BY <1>1 DEF SettingsInv, Shape
<1>4. TicksAreFresh'
  BY <1>1, <1>2 DEF SettingsInv, TicksAreFresh
<1>5. PullIsFresh'
  BY <1>1, <1>2 DEF SettingsInv, PullIsFresh
<1>6. QED
  BY <1>3, <1>4, <1>5 DEF SettingsInv

LEMMA RequestStep ==
    ASSUME SettingsInv, "catalogue" \notin Ticks, NEW a \in Admins,
           \/ \E p \in Patches : Set!PutSettings(a, p)
           \/ Set!GetAdmin(a) \/ Set!SaveKey(a) \/ Set!ReadSite(a) \/ Set!SetSite(a)
           \/ Set!PutOnec(a) \/ Set!GetOnec(a) \/ Set!SyncNow(a) \/ Set!ReadOnec(a) \/ Set!SetOnec(a)
    PROVE  SettingsInv'
<1>0. DOMAIN site = Set!Procs /\ DOMAIN onec = Set!Procs /\ "worker" \in Set!Procs
  BY DEF SettingsInv, Shape, Set!Procs
<1>1. ASSUME NEW p \in Patches, Set!PutSettings(a, p) PROVE SettingsInv'
  BY <1>0, <1>1, PanelStep DEF Set!PutSettings, Set!Begin
<1>2. CASE Set!GetAdmin(a) \/ Set!ReadSite(a) \/ Set!GetOnec(a) \/ Set!SyncNow(a) \/ Set!ReadOnec(a)
  BY <1>0, <1>2, PanelStep DEF Set!GetAdmin, Set!Begin, Set!ReadSite, Set!GetOnec, Set!SyncNow, Set!ReadOnec
<1>3. CASE Set!SaveKey(a)
  <2>1. UNCHANGED <<site, onec, tick, catalogue>>
        /\ (UNCHANGED <<saved, since>> \/ \E key, value : Set!Save(key, value))
    BY <1>3 DEF Set!SaveKey
  <2>2. QED
    BY <1>0, <2>1, SaveStep, PanelStep
<1>4. CASE Set!SetSite(a)
  BY <1>0, <1>4, PanelStep DEF Set!SetSite
<1>5. CASE Set!SetOnec(a)
  BY <1>0, <1>5, PanelStep DEF Set!SetOnec
<1>6. CASE Set!PutOnec(a)
  <2>1. UNCHANGED <<site, onec, tick, catalogue>> /\ \E value : Set!Save("onec", value)
    BY <1>6 DEF Set!PutOnec, Set!Begin
  <2>2. QED
    BY <2>1, SaveStep
<1>7. QED
  BY <1>1, <1>2, <1>3, <1>4, <1>5, <1>6

LEMMA TickStep ==
    ASSUME SettingsInv, "catalogue" \notin Ticks, NEW t \in Ticks,
           Set!TickReads(t) \/ Set!TickLoads(t) \/ Set!TickEnds(t)
    PROVE  SettingsInv'
<1>0. /\ DOMAIN site = Set!Procs /\ "worker" \in Set!Procs /\ DOMAIN tick = Ticks
      /\ DOMAIN since = Ticks \union {"catalogue"}
      /\ tick[t] = [pc |-> tick[t].pc, read |-> tick[t].read]
  BY DEF SettingsInv, Shape, Set!Procs
<1>1. CASE Set!TickReads(t)
  <2> DEFINE w == [pc |-> "load", read |-> saved["url"]]
             reads == {tick[q].read : q \in {x \in Ticks : tick[x].pc = "load"}}
  <2>1. /\ tick' = [tick EXCEPT ![t] = w] /\ since' = [since EXCEPT ![t] = {saved["url"]} \union reads]
        /\ UNCHANGED <<saved, site, onec, catalogue>> /\ tick[t].pc = "idle"
    BY <1>1 DEF Set!TickReads
  <2>2. w = [pc |-> w.pc, read |-> w.read] /\ w.pc = "load" /\ w.read = saved["url"]
    OBVIOUS
  <2> HIDE DEF w
  <2>3. Shape'
    BY <1>0, <2>1, <2>2 DEF SettingsInv, Shape
  <2>4. \A q \in Ticks : q # t => tick'[q] = tick[q] /\ since'[q] = since[q]
    BY <1>0, <2>1
  <2>5. tick'[t] = w /\ since'[t] = {saved["url"]} \union reads /\ since'["catalogue"] = since["catalogue"]
    BY <1>0, <2>1
  <2>6. \A q \in Ticks : tick'[q].pc = "load" => tick'[q].read \in {saved["url"]} \union reads
    BY <2>2, <2>4, <2>5
  <2>7. TicksAreFresh'
    BY <2>1, <2>2, <2>4, <2>5, <2>6 DEF SettingsInv, TicksAreFresh
  <2>8. PullIsFresh'
    BY <2>1, <2>5 DEF SettingsInv, PullIsFresh
  <2>9. QED
    BY <2>3, <2>7, <2>8 DEF SettingsInv
<1>2. CASE Set!TickLoads(t)
  <2> DEFINE w == [pc |-> "write", read |-> tick[t].read]
  <2>1. [tick[t] EXCEPT !.pc = "write"] = w
    BY <1>0
  <2>2. /\ tick' = [tick EXCEPT ![t] = w] /\ site' = [site EXCEPT !["worker"] = tick[t].read]
        /\ UNCHANGED <<saved, onec, catalogue, since>> /\ tick[t].pc = "load"
    BY <1>0, <1>2, <2>1 DEF Set!TickLoads
  <2>3. w = [pc |-> w.pc, read |-> w.read] /\ w.pc = "write"
    OBVIOUS
  <2> HIDE DEF w
  <2>4. Shape'
    BY <1>0, <2>2, <2>3 DEF SettingsInv, Shape
  <2>5. /\ tick'[t] = w /\ site'["worker"] = tick[t].read
        /\ \A q \in Ticks : q # t => tick'[q] = tick[q]
    BY <1>0, <2>2
  <2>6. TicksAreFresh'
    BY <2>2, <2>3, <2>5 DEF SettingsInv, TicksAreFresh
  <2>7. QED
    BY <2>2, <2>4, <2>6 DEF SettingsInv, PullIsFresh
<1>3. CASE Set!TickEnds(t)
  <2>1. /\ tick' = [tick EXCEPT ![t] = Set!NoTick] /\ since' = [since EXCEPT ![t] = {}]
        /\ UNCHANGED <<saved, site, onec, catalogue>>
    BY <1>3 DEF Set!TickEnds
  <2>2. /\ \A q \in Ticks : q # t => tick'[q] = tick[q] /\ since'[q] = since[q]
        /\ tick'[t] = Set!NoTick /\ since'["catalogue"] = since["catalogue"]
    BY <1>0, <2>1
  <2>3. Set!NoTick = [pc |-> Set!NoTick.pc, read |-> Set!NoTick.read] /\ Set!NoTick.pc = "idle"
    BY DEF Set!NoTick
  <2>4. Shape'
    BY <1>0, <2>1, <2>2, <2>3 DEF SettingsInv, Shape
  <2>5. TicksAreFresh'
    BY <2>1, <2>2, <2>3 DEF SettingsInv, TicksAreFresh
  <2>6. QED
    BY <2>1, <2>2, <2>4, <2>5 DEF SettingsInv, PullIsFresh
<1>4. QED
  BY <1>1, <1>2, <1>3

LEMMA WebStep == ASSUME SettingsInv, Set!WebStarts PROVE SettingsInv'
<1>1. DOMAIN site = Set!Procs /\ DOMAIN onec = Set!Procs /\ "worker" \in Set!Procs /\ "web" # "worker"
  BY DEF SettingsInv, Shape, Set!Procs
<1>2. PICK v : site' = [site EXCEPT !["web"] = v]
  BY DEF Set!WebStarts
<1>3. UNCHANGED <<saved, since, tick, catalogue>> /\ onec' = [onec EXCEPT !["web"] = None]
  BY DEF Set!WebStarts
<1>4. QED
  BY <1>1, <1>2, <1>3, PanelStep

LEMMA WorkerStep ==
    ASSUME SettingsInv, "catalogue" \notin Ticks, Set!WorkerStarts \/ Set!PullReads \/ Set!PullLoads \/ Set!PullEnds
    PROVE  SettingsInv'
<1>0. /\ DOMAIN site = Set!Procs /\ DOMAIN onec = Set!Procs /\ "worker" \in Set!Procs
      /\ DOMAIN since = Ticks \union {"catalogue"} /\ catalogue = [pc |-> catalogue.pc, read |-> catalogue.read]
  BY DEF SettingsInv, Shape, Set!Procs
<1>1. CASE Set!WorkerStarts
  BY <1>0, <1>1 DEF Set!WorkerStarts, Set!NoTick, SettingsInv, Shape, TicksAreFresh, PullIsFresh
<1>2. CASE Set!PullReads
  <2>1. /\ since'["catalogue"] = {saved["onec"]} /\ \A t \in Ticks : since'[t] = since[t]
        /\ DOMAIN since' = Ticks \union {"catalogue"}
    BY <1>0, <1>2 DEF Set!PullReads
  <2>2. QED
    BY <1>2, <2>1 DEF Set!PullReads, SettingsInv, Shape, TicksAreFresh, PullIsFresh
<1>3. CASE Set!PullLoads
  <2>1. catalogue' = [pc |-> "pull", read |-> catalogue.read] /\ onec'["worker"] = catalogue.read
        /\ DOMAIN onec' = Set!Procs
    BY <1>0, <1>3 DEF Set!PullLoads
  <2>2. QED
    BY <1>3, <2>1 DEF Set!PullLoads, SettingsInv, Shape, TicksAreFresh, PullIsFresh
<1>4. CASE Set!PullEnds
  <2>1. (\A t \in Ticks : since'[t] = since[t]) /\ DOMAIN since' = Ticks \union {"catalogue"}
    BY <1>0, <1>4 DEF Set!PullEnds
  <2>2. QED
    BY <1>4, <2>1 DEF Set!PullEnds, SettingsInv, Shape, TicksAreFresh, PullIsFresh
<1>5. QED
  BY <1>1, <1>2, <1>3, <1>4

\* Of a step of the services, the settings see their own steps or none.
LEMMA SettingsAlone == ASSUME [Next]_vars PROVE Set!Next \/ UNCHANGED st
BY DEF Next, vars, st, OfferStep, ChoiceStep, MailboxStep, WheelStep, AttributionStep, TemplateStep,
       CatalogueStep, PictureStep, MailStep, SettingsStep

\* The letters of a tick carry an address saved since the tick began, and a
\* pull asks a 1C configured since it began, whatever the admins save meanwhile
\* and however the ticks share the loaded address (app_settings.load_site,
\* onec.load_overrides).
THEOREM LettersUseSavedUrl == Spec => []TicksUseSaved
<1> USE ServicesAssumption
<1>1. Init => SettingsInv
  BY SettingsBegin DEF Init
<1>2. SettingsInv /\ [Next]_vars => SettingsInv'
  <2> SUFFICES ASSUME SettingsInv, Set!Next \/ UNCHANGED st PROVE SettingsInv'
    BY SettingsAlone
  <2>1. CASE UNCHANGED st
    BY <2>1, PanelStep DEF st, SettingsInv, Shape
  <2>2. QED
    BY <2>1, RequestStep, WebStep, TickStep, WorkerStep DEF Set!Next
<1>3. SettingsInv => TicksUseSaved
  BY DEF SettingsInv, TicksAreFresh, PullIsFresh, TicksUseSaved, Set!TicksUseSaved
<1>4. QED
  BY <1>1, <1>2, <1>3, PTL DEF Spec

-----------------------------------------------------------------------------
PanelValues == Urls \union Numbers \union {None, Bad, Empty}
PanelPatches == Seq(Set!Entries)
AdminRows == [pc : {"idle", "put", "load", "site", "onec", "token"},
              left : PanelPatches, read : PanelValues]
PanelTypes ==
    /\ saved \in [Set!Keys -> PanelValues]
    /\ DOMAIN site = Set!Procs /\ DOMAIN onec = Set!Procs
    /\ admin \in [Admins -> AdminRows]
    /\ aborted \in BOOLEAN /\ overlaps \in BOOLEAN /\ loaded \in BOOLEAN

\* As long as requests do not overlap, one is at work, what it has read is
\* still saved, and what it is not about to load is loaded.
OneAtWork == ~overlaps => \A a, b \in Admins : admin[a].pc # "idle" /\ admin[b].pc # "idle" => a = b
AnswersAreSaved ==
    ~overlaps => \A a \in Admins : /\ admin[a].pc = "site" => admin[a].read = saved["url"]
                                   /\ admin[a].pc = "onec" => admin[a].read = saved["onec"]
SiteIsLoaded ==
    ~overlaps /\ ~aborted /\ (\A a \in Admins : admin[a].pc \notin {"put", "site"}) =>
        site["web"] = saved["url"]
OnecIsLoaded ==
    ~overlaps /\ loaded /\ (\A a \in Admins : admin[a].pc \notin {"token", "onec"}) => onec["web"] = saved["onec"]
Shown == OneAtWork /\ AnswersAreSaved /\ SiteIsLoaded /\ OnecIsLoaded
PanelInv == PanelTypes /\ Shown

LEMMA NothingAsked == Set!NoRequest \in AdminRows /\ Set!NoRequest.pc = "idle" /\ <<>> \in PanelPatches
<1>1. <<>> \in PanelPatches
  BY DEF PanelPatches
<1>2. None \in PanelValues
  BY DEF PanelValues
<1>3. QED
  BY <1>1, <1>2 DEF Set!NoRequest, AdminRows

LEMMA PanelBegins == Init => PanelInv
<1> SUFFICES ASSUME Set!Init PROVE PanelInv
  BY DEF Init
<1>1. Set!NoRequest \in AdminRows /\ Set!NoRequest.pc = "idle"
  BY NothingAsked
<1>2. PanelTypes
  BY <1>1 DEF Set!Init, Set!Keys, Set!Procs, PanelTypes, PanelValues
<1>3. Shown
  BY <1>1 DEF Set!Init, Set!Keys, Set!Procs, Shown, OneAtWork, AnswersAreSaved, SiteIsLoaded, OnecIsLoaded
<1>4. QED
  BY <1>2, <1>3 DEF PanelInv

\* The worker has a memory of its own.
LEMMA WorkerIsApart ==
    ASSUME PanelInv, UNCHANGED <<saved, admin, aborted, overlaps, loaded>>,
           DOMAIN site' = Set!Procs, DOMAIN onec' = Set!Procs,
           site'["web"] = site["web"], onec'["web"] = onec["web"]
    PROVE  PanelInv'
BY DEF PanelInv, PanelTypes, Shown, OneAtWork, AnswersAreSaved, SiteIsLoaded, OnecIsLoaded

\* A request arrives.  Only that of 1C saves at once.
LEMMA RequestArrives ==
    ASSUME PanelInv, NEW a \in Admins, NEW w \in AdminRows, Set!Begin(a, w),
           saved' \in [Set!Keys -> PanelValues], saved'["url"] = saved["url"],
           w.pc \in {"put", "load", "token"},
           w.pc # "token" => saved'["onec"] = saved["onec"]
    PROVE  PanelInv'
<1>1. /\ admin[a].pc = "idle" /\ admin' = [admin EXCEPT ![a] = w]
      /\ overlaps' = (overlaps \/ \E b \in Admins : admin[b].pc # "idle")
      /\ UNCHANGED <<site, onec, aborted, loaded>>
  BY DEF Set!Begin
<1>2. admin \in [Admins -> AdminRows]
  BY DEF PanelInv, PanelTypes
<1>3. PanelTypes'
  BY <1>1, <1>2 DEF PanelInv, PanelTypes
<1>4. ASSUME overlaps' PROVE Shown'
  BY <1>4 DEF Shown, OneAtWork, AnswersAreSaved, SiteIsLoaded, OnecIsLoaded
<1>5. ASSUME ~overlaps' PROVE Shown'
  <2>1. ~overlaps /\ \A b \in Admins : admin[b].pc = "idle"
    BY <1>1, <1>5
  <2>2. \A b \in Admins : admin'[b] = IF b = a THEN w ELSE admin[b]
    BY <1>1, <1>2
  <2>3. OneAtWork' /\ AnswersAreSaved'
    BY <2>1, <2>2 DEF OneAtWork, AnswersAreSaved
  <2>4. SiteIsLoaded' /\ OnecIsLoaded'
    BY <1>1, <2>1, <2>2 DEF PanelInv, Shown, SiteIsLoaded, OnecIsLoaded
  <2>5. QED
    BY <2>3, <2>4 DEF Shown
<1>6. QED
  BY <1>3, <1>4, <1>5 DEF PanelInv

\* A request goes on alone or overlapped.
LEMMA RequestGoesOn ==
    ASSUME PanelInv, NEW a \in Admins, NEW w \in AdminRows, admin' = [admin EXCEPT ![a] = w],
           admin[a].pc # "idle", UNCHANGED overlaps,
           saved' \in [Set!Keys -> PanelValues], DOMAIN site' = Set!Procs, DOMAIN onec' = Set!Procs,
           aborted' \in BOOLEAN, loaded' \in BOOLEAN,
           ~overlaps /\ (\A b \in Admins : b # a => admin[b].pc = "idle") =>
              /\ w.pc = "site" => w.read = saved'["url"]
              /\ w.pc = "onec" => w.read = saved'["onec"]
              /\ ~aborted' /\ w.pc \notin {"put", "site"} => site'["web"] = saved'["url"]
              /\ loaded' /\ w.pc \notin {"token", "onec"} => onec'["web"] = saved'["onec"]
    PROVE  PanelInv'
<1>1. admin \in [Admins -> AdminRows]
  BY DEF PanelInv, PanelTypes
<1>2. PanelTypes'
  BY <1>1 DEF PanelInv, PanelTypes
<1>3. ASSUME overlaps PROVE Shown'
  BY <1>3 DEF Shown, OneAtWork, AnswersAreSaved, SiteIsLoaded, OnecIsLoaded
<1>4. ASSUME ~overlaps PROVE Shown'
  <2>1. \A b \in Admins : b # a => admin[b].pc = "idle"
    BY <1>4 DEF PanelInv, Shown, OneAtWork
  <2>2. \A b \in Admins : admin'[b] = IF b = a THEN w ELSE admin[b]
    BY <1>1
  <2>3. OneAtWork' /\ AnswersAreSaved'
    BY <1>4, <2>1, <2>2 DEF OneAtWork, AnswersAreSaved
  <2>4. SiteIsLoaded' /\ OnecIsLoaded'
    BY <1>4, <2>1, <2>2 DEF SiteIsLoaded, OnecIsLoaded
  <2>5. QED
    BY <2>3, <2>4 DEF Shown
<1>5. QED
  BY <1>2, <1>3, <1>4 DEF PanelInv

\* set_many, one key: never the address of 1C.
LEMMA KeyIsSaved == ASSUME PanelInv, NEW a \in Admins, Set!SaveKey(a) PROVE PanelInv'
<1> DEFINE key == Head(admin[a].left)[1]
           value == Head(admin[a].left)[2]
           kept == IF value = Empty THEN None ELSE value
<1>1. /\ admin[a].pc = "put" /\ admin[a].left # <<>> /\ UNCHANGED <<site, onec, overlaps, loaded>>
      /\ \/ admin' = [admin EXCEPT ![a] = Set!NoRequest] /\ aborted' = TRUE /\ saved' = saved
         \/ admin' = [admin EXCEPT ![a].left = Tail(@)] /\ aborted' = aborted
            /\ (saved' = saved \/ saved' = [saved EXCEPT ![key] = kept])
  BY DEF Set!SaveKey, Set!Save
<1>2. /\ admin[a] \in AdminRows /\ admin \in [Admins -> AdminRows] /\ saved \in [Set!Keys -> PanelValues]
      /\ DOMAIN site = Set!Procs /\ DOMAIN onec = Set!Procs /\ aborted \in BOOLEAN /\ loaded \in BOOLEAN
  BY DEF PanelInv, PanelTypes
<1>3. admin[a].left \in Seq(Set!Entries)
  BY <1>2 DEF AdminRows, PanelPatches
<1>4. Head(admin[a].left) \in Set!Entries /\ Tail(admin[a].left) \in Seq(Set!Entries)
  BY <1>1, <1>3, HeadTailProperties
<1>5. key \in {"url", "number"} /\ kept \in PanelValues
  BY <1>4 DEF PanelValues, Set!Entries
<1> HIDE DEF key, kept
<1>6. saved' \in [Set!Keys -> PanelValues] /\ saved'["onec"] = saved["onec"]
  BY <1>1, <1>2, <1>5 DEF Set!Keys
<1>7. PICK w \in AdminRows : /\ admin' = [admin EXCEPT ![a] = w]
                             /\ (w.pc = "put" \/ (w.pc = "idle" /\ aborted'))
  <2>1. Set!NoRequest \in AdminRows /\ Set!NoRequest.pc = "idle"
    BY NothingAsked
  <2> DEFINE w == [admin[a] EXCEPT !.left = Tail(admin[a].left)]
  <2>2. w \in AdminRows /\ w.pc = "put"
    BY <1>1, <1>2, <1>4 DEF AdminRows, PanelPatches
  <2>3. \/ admin' = [admin EXCEPT ![a] = Set!NoRequest] /\ aborted'
        \/ admin' = [admin EXCEPT ![a] = w]
    BY <1>1
  <2> HIDE DEF w
  <2>4. QED
    BY <2>1, <2>2, <2>3
<1>8. (\A b \in Admins : b # a => admin[b].pc = "idle") /\ ~overlaps /\ loaded => onec["web"] = saved["onec"]
  BY <1>1 DEF PanelInv, Shown, OnecIsLoaded
<1>9. /\ aborted' \in BOOLEAN /\ site' = site /\ onec' = onec /\ overlaps' = overlaps /\ admin[a].pc # "idle"
      /\ loaded' = loaded
  BY <1>1, <1>2
<1>10. QED
  BY <1>2, <1>6, <1>7, <1>8, <1>9, RequestGoesOn

LEMMA PanelKept == ASSUME PanelInv, Set!Next \/ UNCHANGED st PROVE PanelInv'
<1>1. /\ admin \in [Admins -> AdminRows] /\ saved \in [Set!Keys -> PanelValues]
      /\ DOMAIN site = Set!Procs /\ DOMAIN onec = Set!Procs
      /\ aborted \in BOOLEAN /\ loaded \in BOOLEAN /\ saved["url"] \in PanelValues /\ saved["onec"] \in PanelValues
      /\ "web" \in Set!Procs /\ "worker" \in Set!Procs /\ None \in PanelValues
  BY DEF PanelInv, PanelTypes, Set!Keys, Set!Procs, PanelValues
<1>2. Set!NoRequest \in AdminRows /\ Set!NoRequest.pc = "idle" /\ <<>> \in PanelPatches
  BY NothingAsked
<1>3. ASSUME NEW a \in Admins, NEW p \in Patches, Set!PutSettings(a, p) PROVE PanelInv'
  <2> DEFINE w == [Set!NoRequest EXCEPT !.pc = "put", !.left = p]
  <2>2. p \in PanelPatches
    BY ServicesAssumption DEF PanelPatches
  <2>3. w \in AdminRows /\ w.pc = "put"
    BY <1>1, <2>2 DEF Set!NoRequest, AdminRows
  <2>4. Set!Begin(a, w) /\ saved' = saved
    BY <1>3 DEF Set!PutSettings
  <2> HIDE DEF w
  <2>5. QED
    BY <1>1, <2>3, <2>4, RequestArrives
<1>4. ASSUME NEW a \in Admins, Set!GetAdmin(a) PROVE PanelInv'
  <2> DEFINE w == [Set!NoRequest EXCEPT !.pc = "load"]
  <2>1. w \in AdminRows /\ w.pc = "load"
    BY <1>1, <1>2 DEF Set!NoRequest, AdminRows
  <2>2. Set!Begin(a, w) /\ saved' = saved
    BY <1>4 DEF Set!GetAdmin
  <2> HIDE DEF w
  <2>3. QED
    BY <1>1, <2>1, <2>2, RequestArrives
<1>5. ASSUME NEW a \in Admins, Set!PutOnec(a) PROVE PanelInv'
  <2> DEFINE w == [Set!NoRequest EXCEPT !.pc = "token"]
  <2>1. w \in AdminRows /\ w.pc = "token"
    BY <1>1, <1>2 DEF Set!NoRequest, AdminRows
  <2>2. PICK value \in Set!Value : Set!Save("onec", value)
    BY <1>5 DEF Set!PutOnec
  <2>3. saved' = [saved EXCEPT !["onec"] = value] /\ value \in PanelValues
    BY <2>2 DEF Set!Save, Set!Value, PanelValues
  <2>4. saved' \in [Set!Keys -> PanelValues] /\ saved'["url"] = saved["url"]
    BY <1>1, <2>3 DEF Set!Keys
  <2>5. Set!Begin(a, w)
    BY <1>5 DEF Set!PutOnec
  <2> HIDE DEF w
  <2>6. QED
    BY <2>1, <2>4, <2>5, RequestArrives
<1>6. ASSUME NEW a \in Admins, Set!ReadSite(a) PROVE PanelInv'
  <2> DEFINE w == [Set!NoRequest EXCEPT !.pc = "site", !.read = saved["url"]]
  <2>1. w \in AdminRows /\ w.pc = "site" /\ w.read = saved["url"]
    BY <1>1, <1>2 DEF Set!NoRequest, AdminRows
  <2>2. /\ admin' = [admin EXCEPT ![a] = w] /\ UNCHANGED <<saved, site, onec, aborted, overlaps, loaded>>
        /\ admin[a].pc \in {"load", "put"}
    BY <1>6 DEF Set!ReadSite
  <2> HIDE DEF w
  <2>3. (\A b \in Admins : b # a => admin[b].pc = "idle") /\ ~overlaps /\ loaded => onec["web"] = saved["onec"]
    BY <2>2 DEF PanelInv, Shown, OnecIsLoaded
  <2>4. QED
    BY <1>1, <2>1, <2>2, <2>3, RequestGoesOn
<1>7. ASSUME NEW a \in Admins, Set!SetSite(a) PROVE PanelInv'
  <2>1. /\ admin' = [admin EXCEPT ![a] = Set!NoRequest] /\ site' = [site EXCEPT !["web"] = admin[a].read]
        /\ UNCHANGED <<saved, onec, overlaps, loaded>> /\ aborted' = FALSE /\ admin[a].pc = "site"
    BY <1>7 DEF Set!SetSite
  <2>2. admin[a].read \in PanelValues
    BY <1>1 DEF AdminRows
  <2>3. DOMAIN site' = Set!Procs /\ site'["web"] = admin[a].read
    BY <1>1, <2>1, <2>2
  <2>4. (\A b \in Admins : b # a => admin[b].pc = "idle") /\ ~overlaps =>
            (loaded => onec["web"] = saved["onec"]) /\ admin[a].read = saved["url"]
    BY <2>1 DEF PanelInv, Shown, OnecIsLoaded, AnswersAreSaved
  <2>5. QED
    BY <1>1, <1>2, <2>1, <2>3, <2>4, RequestGoesOn
<1>8. ASSUME NEW a \in Admins, Set!ReadOnec(a) PROVE PanelInv'
  <2> DEFINE w == [Set!NoRequest EXCEPT !.pc = "onec", !.read = saved["onec"]]
  <2>1. w \in AdminRows /\ w.pc = "onec" /\ w.read = saved["onec"]
    BY <1>1, <1>2 DEF Set!NoRequest, AdminRows
  <2>2. /\ admin' = [admin EXCEPT ![a] = w] /\ UNCHANGED <<saved, site, onec, aborted, overlaps, loaded>>
        /\ admin[a].pc = "token"
    BY <1>8 DEF Set!ReadOnec
  <2> HIDE DEF w
  <2>3. (\A b \in Admins : b # a => admin[b].pc = "idle") /\ ~overlaps /\ ~aborted => site["web"] = saved["url"]
    BY <2>2 DEF PanelInv, Shown, SiteIsLoaded
  <2>4. QED
    BY <1>1, <2>1, <2>2, <2>3, RequestGoesOn
<1>9. ASSUME NEW a \in Admins, Set!SetOnec(a) PROVE PanelInv'
  <2>1. /\ admin' = [admin EXCEPT ![a] = Set!NoRequest] /\ onec' = [onec EXCEPT !["web"] = admin[a].read]
        /\ UNCHANGED <<saved, site, overlaps, aborted>> /\ loaded' = TRUE /\ admin[a].pc = "onec"
    BY <1>9 DEF Set!SetOnec
  <2>2. admin[a].read \in PanelValues
    BY <1>1 DEF AdminRows
  <2>3. DOMAIN onec' = Set!Procs /\ onec'["web"] = admin[a].read
    BY <1>1, <2>1, <2>2
  <2>4. (\A b \in Admins : b # a => admin[b].pc = "idle") /\ ~overlaps =>
            (~aborted => site["web"] = saved["url"]) /\ admin[a].read = saved["onec"]
    BY <2>1 DEF PanelInv, Shown, SiteIsLoaded, AnswersAreSaved
  <2>5. QED
    BY <1>1, <1>2, <2>1, <2>3, <2>4, RequestGoesOn
<1>10. CASE Set!WorkerStarts
  <2>1. /\ UNCHANGED <<saved, admin, aborted, overlaps, loaded>>
        /\ site' = [site EXCEPT !["worker"] = None] /\ onec' = [onec EXCEPT !["worker"] = saved["onec"]]
    BY <1>10 DEF Set!WorkerStarts
  <2>2. QED
    BY <1>1, <2>1, WorkerIsApart
<1>11. ASSUME NEW t \in Ticks, Set!TickReads(t) \/ Set!TickLoads(t) \/ Set!TickEnds(t) PROVE PanelInv'
  <2>1. UNCHANGED <<saved, admin, aborted, overlaps, loaded, onec>>
        /\ (site' = site \/ site' = [site EXCEPT !["worker"] = tick[t].read])
    BY <1>11 DEF Set!TickReads, Set!TickLoads, Set!TickEnds
  <2>2. DOMAIN site' = Set!Procs /\ site'["web"] = site["web"]
    BY <1>1, <2>1
  <2>3. QED
    BY <1>1, <2>1, <2>2, WorkerIsApart
<1>12. CASE Set!PullReads \/ Set!PullLoads \/ Set!PullEnds
  <2>1. UNCHANGED <<saved, admin, aborted, overlaps, loaded, site>>
        /\ (onec' = onec \/ onec' = [onec EXCEPT !["worker"] = catalogue.read])
    BY <1>12 DEF Set!PullReads, Set!PullLoads, Set!PullEnds
  <2>2. DOMAIN onec' = Set!Procs /\ onec'["web"] = onec["web"]
    BY <1>1, <2>1
  <2>3. QED
    BY <1>1, <2>1, <2>2, WorkerIsApart
<1>13. CASE UNCHANGED st
  BY <1>13 DEF st, PanelInv, PanelTypes, Shown, OneAtWork, AnswersAreSaved, SiteIsLoaded, OnecIsLoaded
<1>14. ASSUME NEW a \in Admins, Set!GetOnec(a) \/ Set!SyncNow(a) PROVE PanelInv'
  <2> DEFINE w == [Set!NoRequest EXCEPT !.pc = "token"]
  <2>1. w \in AdminRows /\ w.pc = "token"
    BY <1>1, <1>2 DEF Set!NoRequest, AdminRows
  <2>2. Set!Begin(a, w) /\ saved' = saved
    BY <1>14 DEF Set!GetOnec, Set!SyncNow
  <2> HIDE DEF w
  <2>3. QED
    BY <1>1, <2>1, <2>2, RequestArrives
<1>15. CASE Set!WebStarts
  <2>1. PICK failed \in BOOLEAN :
          /\ aborted' = failed
          /\ site' = [site EXCEPT !["web"] = IF failed THEN None ELSE saved["url"]]
    BY <1>15 DEF Set!WebStarts
  <2>2. /\ saved' = saved /\ onec' = [onec EXCEPT !["web"] = None] /\ loaded' = FALSE /\ overlaps' = FALSE
        /\ admin' = [a \in Admins |-> Set!NoRequest]
    BY <1>15 DEF Set!WebStarts
  <2>3. PanelTypes'
    BY <1>1, <1>2, <2>1, <2>2 DEF PanelTypes
  <2>4. ~aborted' => site'["web"] = saved'["url"]
    BY <1>1, <2>1, <2>2
  <2>5. \A a \in Admins : admin'[a].pc = "idle"
    BY <1>2, <2>2
  <2>6. Shown'
    BY <2>2, <2>4, <2>5 DEF Shown, OneAtWork, AnswersAreSaved, SiteIsLoaded, OnecIsLoaded
  <2>7. QED
    BY <2>3, <2>6 DEF PanelInv
<1>16. QED
  BY <1>3, <1>4, <1>5, <1>6, <1>7, <1>8, <1>9, <1>10, <1>11, <1>12, <1>13, <1>14, <1>15, KeyIsSaved DEF Set!Next

\* Between requests that did not overlap the web process has the saved addresses,
\* unless a request died half-way or the start could not read them, and the saved
\* address of 1C once a page has loaded it since the process started; the web
\* process and the worker may restart at any moment (app_settings.set_many,
\* admin.put_onec_config, main.lifespan).
THEOREM PanelIsTrue == Spec => []PanelShowsSaved
<1>1. PanelInv /\ [Next]_vars => PanelInv'
  BY SettingsAlone, PanelKept
<1>2. PanelInv => PanelShowsSaved
  BY DEF PanelInv, Shown, SiteIsLoaded, OnecIsLoaded, PanelShowsSaved, Set!PanelShowsSaved
<1>3. QED
  BY PanelBegins, <1>1, <1>2, PTL DEF Spec

-----------------------------------------------------------------------------
(* The mail transports.                                                    *)

JobStages == {"idle", "live", "send", "post", "reply"}
JobRows == [pc : JobStages, kind : {"batch", "test"}, msgs : Seq(BOOLEAN), at : Nat, sent : Nat,
            failed : Nat, live : BOOLEAN, error : BOOLEAN]
ReplyRows == [ok : BOOLEAN, live : BOOLEAN, queued : Nat, failed : Nat]
Places == 1 .. Len(job.msgs)
Addressed == Cardinality(Mail!Filled)
GoneOut == Cardinality({i \in DOMAIN real : real[i] > 0})

MailTypes ==
    /\ job \in JobRows /\ job.msgs # <<>>
    /\ reply \in ReplyRows
    /\ copies \in [Places -> Nat] /\ real \in [Places -> Nat]
    /\ presses \in Nat /\ mailFaults \in Nat

\* What has been counted at each stage, to the last message.
Counted ==
    /\ job.pc = "idle" /\ presses > 0 => reply.queued + reply.failed = Len(job.msgs)
    /\ job.pc = "live" => job.kind = "batch" /\ job.sent = 0 /\ job.at = 0 /\ ~job.error
    /\ job.pc = "send" => job.at < Len(job.msgs) /\ job.sent + job.failed = job.at /\ ~job.error
    /\ job.pc = "post" => /\ job.sent = 0 /\ job.failed + Addressed = Len(job.msgs) /\ ~job.error
                          /\ Mail!mailer = "Http"
    /\ job.pc = "reply" => job.sent + job.failed = Len(job.msgs)

\* Every copy has been paid for with a fault, but for those of a request that
\* has handed something over and will be, or was, answered "ok".
Succeeds == \/ job.pc = "send" /\ job.sent > 0
            \/ job.pc = "reply" /\ job.sent > 0 /\ ~job.error
            \/ job.pc = "idle" /\ reply.ok
Paid ==
    /\ job.pc # "idle" => ~reply.ok
    /\ \A i \in Places : real[i] <= copies[i] /\ copies[i] <= mailFaults + 1
    /\ \A i \in Places : ~Succeeds \/ (job.pc = "send" /\ i > job.at) => copies[i] <= mailFaults

\* Without a fault nothing has changed since the transport was looked at.
LiveIsReal ==
    mailFaults = 0 =>
        /\ job.pc \in {"send", "post", "reply"} /\ job.kind = "batch" => job.live = Mail!_mailer_is_live
        /\ job.pc \in {"send", "reply"} /\ Mail!_mailer_is_live => job.error \/ GoneOut >= job.sent
        /\ reply.ok /\ reply.live => GoneOut >= reply.queued
MailInv == MailTypes /\ Counted /\ Paid /\ LiveIsReal

-----------------------------------------------------------------------------
\* The transports count with the same operator as this module.
LEMMA SameLetters == \A S : Mail!Cardinality(S) = Cardinality(S)
  BY Zenon DEF Mail!Cardinality, Cardinality

\* The messages with an address, and the messages that have gone out.
LEMMA AddressedCount ==
    ASSUME MailTypes
    PROVE  /\ Addressed \in Nat /\ Addressed <= Len(job.msgs)
           /\ Addressed > 0 <=> Mail!Filled # {}
           /\ job.msgs = <<TRUE>> => Addressed = 1
<1>1. Len(job.msgs) \in Nat /\ DOMAIN job.msgs = Places
  BY DEF MailTypes, JobRows, Places
<1>2. IsFiniteSet(Places) /\ Cardinality(Places) = Len(job.msgs)
  BY <1>1, FS_Interval DEF Places
<1>3. Mail!Filled \subseteq Places
  BY <1>1 DEF Mail!Filled
<1>4. IsFiniteSet(Mail!Filled) /\ Addressed <= Len(job.msgs)
  BY <1>2, <1>3, FS_Subset DEF Addressed
<1>5. Addressed \in Nat /\ (Addressed = 0 <=> Mail!Filled = {})
  BY <1>4, FS_CardinalityType, FS_EmptySet DEF Addressed
<1>6. ASSUME job.msgs = <<TRUE>> PROVE Addressed = 1
  <2>1. DOMAIN job.msgs = {1} /\ job.msgs[1]
    BY <1>6
  <2>2. Mail!Filled = {1}
    BY <2>1 DEF Mail!Filled
  <2>3. Cardinality({1}) = 1
    BY FS_Singleton
  <2>4. QED
    BY <2>2, <2>3 DEF Addressed
<1>7. Addressed > 0 <=> Addressed # 0
  BY <1>5
<1>8. QED
  BY <1>4, <1>5, <1>6, <1>7

LEMMA GoneOutCount ==
    ASSUME MailTypes
    PROVE  /\ GoneOut \in Nat /\ IsFiniteSet({i \in DOMAIN real : real[i] > 0})
           /\ IsFiniteSet(Places)
<1>1. IsFiniteSet(Places) /\ DOMAIN real = Places
  BY FS_Interval DEF Places, MailTypes, JobRows
<1>2. {i \in DOMAIN real : real[i] > 0} \subseteq Places
  BY <1>1
<1>3. IsFiniteSet({i \in DOMAIN real : real[i] > 0})
  BY <1>1, <1>2, FS_Subset
<1>4. QED
  BY <1>1, <1>3, FS_CardinalityType DEF GoneOut

LEMMA MailBegins == Init => MailInv
<1> SUFFICES ASSUME Mail!Init PROVE MailInv
  BY DEF Init
<1>1. PICK msgs \in Batches : /\ job = [Mail!Idle EXCEPT !.msgs = msgs]
                              /\ copies = [i \in DOMAIN msgs |-> 0] /\ real = copies
  BY DEF Mail!Init
<1>2. msgs \in Seq(BOOLEAN) /\ msgs # <<>>
  BY ServicesAssumption
<1>3. job \in JobRows /\ job.msgs = msgs /\ job.pc = "idle"
  BY <1>1, <1>2 DEF Mail!Idle, JobRows, JobStages
<1>4. reply \in ReplyRows /\ ~reply.ok /\ presses = 0 /\ mailFaults = 0
  BY DEF Mail!Init, Mail!NoReply, ReplyRows
<1>5. MailTypes
  BY <1>1, <1>2, <1>3, <1>4 DEF MailTypes, Places
<1>6. Counted /\ Paid /\ LiveIsReal
  BY <1>1, <1>2, <1>3, <1>4 DEF Counted, Paid, LiveIsReal, Places, Succeeds
<1>7. QED
  BY <1>5, <1>6 DEF MailInv

-----------------------------------------------------------------------------
\* What one more message does to the request.
LEMMA DoneRow ==
    ASSUME job \in JobRows, NEW ok \in BOOLEAN
    PROVE  /\ Mail!Done(ok) \in JobRows
           /\ Mail!Done(ok).pc = IF job.at + 1 = Len(job.msgs) THEN "reply" ELSE "send"
           /\ Mail!Done(ok).msgs = job.msgs /\ Mail!Done(ok).kind = job.kind
           /\ Mail!Done(ok).at = job.at + 1
           /\ Mail!Done(ok).sent = job.sent + IF ok THEN 1 ELSE 0
           /\ Mail!Done(ok).failed = job.failed + IF ok THEN 0 ELSE 1
           /\ Mail!Done(ok).live = job.live /\ Mail!Done(ok).error = job.error
<1> DEFINE n == job.at + 1
           s == IF ok THEN job.sent + 1 ELSE job.sent
           f == IF ok THEN job.failed ELSE job.failed + 1
           c == IF job.at + 1 = Len(job.msgs) THEN "reply" ELSE "send"
           w == [job EXCEPT !.at = n, !.sent = s, !.failed = f, !.pc = c]
<1>1. Mail!Done(ok) = w
  BY DEF Mail!Done, JobRows
<1>2. s \in Nat /\ f \in Nat /\ n \in Nat /\ s = job.sent + (IF ok THEN 1 ELSE 0) /\ f = job.failed + (IF ok THEN 0 ELSE 1)
  BY DEF JobRows
<1>3. c \in JobStages
  BY DEF JobStages
<1>4. n = job.at + 1
  OBVIOUS
<1> HIDE DEF n, s, f, c
<1>5. /\ w \in JobRows
      /\ w.pc = c /\ w.at = n /\ w.sent = s /\ w.failed = f
      /\ w.msgs = job.msgs /\ w.kind = job.kind /\ w.live = job.live /\ w.error = job.error
  BY <1>2, <1>3 DEF JobRows
<1> HIDE DEF w
<1>6. QED
  BY <1>1, <1>2, <1>4, <1>5 DEF c

\* The messages stay what they are.
LEMMA SameMessages ==
    ASSUME job'.msgs = job.msgs
    PROVE  Places' = Places /\ Addressed' = Addressed /\ Mail!Filled' = Mail!Filled
BY DEF Places, Addressed, Mail!Filled

LEMMA HandedOver ==
    ASSUME MailTypes, NEW S, NEW sends \in BOOLEAN, Mail!HandOver(S, sends)
    PROVE  /\ copies' \in [Places -> Nat] /\ real' \in [Places -> Nat]
           /\ \A i \in Places : /\ copies'[i] = copies[i] + (IF i \in S THEN 1 ELSE 0)
                                /\ real'[i] = real[i] + (IF i \in S /\ sends THEN 1 ELSE 0)
BY DEF Mail!HandOver, MailTypes

\* What has gone out stays out.
LEMMA GoneOutGrows ==
    ASSUME MailTypes, Places' = Places, real' \in [Places -> Nat], \A i \in Places : real'[i] >= real[i]
    PROVE  /\ GoneOut' \in Nat /\ GoneOut' >= GoneOut
           /\ \A S \in SUBSET Places : (\A i \in S : real'[i] > 0) => GoneOut' >= Cardinality(S)
           /\ \A i \in Places : real[i] = 0 /\ real'[i] > 0 => GoneOut' >= GoneOut + 1
<1> DEFINE A == {i \in DOMAIN real : real[i] > 0}
           B == {i \in DOMAIN real' : real'[i] > 0}
<1>1. DOMAIN real = Places /\ DOMAIN real' = Places
  BY DEF MailTypes
<1>2. IsFiniteSet(Places) /\ IsFiniteSet(A) /\ GoneOut \in Nat /\ GoneOut = Cardinality(A) /\ GoneOut' = Cardinality(B)
  BY GoneOutCount DEF GoneOut
<1>3. B \subseteq Places
  BY <1>1
<1>4. A \subseteq B
  BY <1>1 DEF MailTypes
<1>5. \A i \in Places : real[i] = 0 /\ real'[i] > 0 => i \in B /\ i \notin A
  BY <1>1
<1>6. \A S \in SUBSET Places : (\A i \in S : real'[i] > 0) => S \subseteq B
  BY <1>1
<1> HIDE DEF A, B
<1>7. IsFiniteSet(B) /\ Cardinality(B) \in Nat
  BY <1>2, <1>3, FS_Subset, FS_CardinalityType
<1>8. \A S \in SUBSET B : Cardinality(S) <= Cardinality(B)
  BY <1>7, FS_Subset
<1>9. ASSUME NEW i \in Places, real[i] = 0, real'[i] > 0 PROVE GoneOut' >= GoneOut + 1
  <2>1. i \in B /\ i \notin A
    BY <1>5, <1>9
  <2>2. A \union {i} \subseteq B /\ Cardinality(A \union {i}) = Cardinality(A) + 1
    BY <1>2, <1>4, <2>1, FS_AddElement
  <2>3. Cardinality(A \union {i}) <= Cardinality(B)
    BY <1>8, <2>2
  <2>4. QED
    BY <1>2, <2>2, <2>3
<1>10. ASSUME NEW S \in SUBSET Places, \A i \in S : real'[i] > 0 PROVE GoneOut' >= Cardinality(S)
  <2>1. S \subseteq B
    BY <1>6, <1>10
  <2>2. Cardinality(S) <= Cardinality(B) /\ IsFiniteSet(S)
    BY <1>7, <1>8, <2>1, FS_Subset
  <2>3. Cardinality(S) \in Nat
    BY <2>2, FS_CardinalityType
  <2>4. QED
    BY <1>2, <1>7, <2>2, <2>3
<1>11. GoneOut' >= GoneOut
  <2>1. Cardinality(A) <= Cardinality(B)
    BY <1>4, <1>8
  <2>2. QED
    BY <1>2, <1>7, <2>1
<1>12. QED
  BY <1>2, <1>7, <1>9, <1>10, <1>11

-----------------------------------------------------------------------------
LEMMA PressKept == ASSUME MailInv, NEW kind \in {"batch", "test"}, Mail!Press(kind) PROVE MailInv'
<1>1. /\ job.pc = "idle" /\ ~reply.ok /\ (kind = "test" => job.msgs = <<TRUE>>) /\ presses' = presses + 1
      /\ UNCHANGED <<env, provider, mta, reply, copies, real, mailFaults>>
  BY DEF Mail!Press
<1> DEFINE c == IF kind = "batch" THEN "live" ELSE IF Mail!mailer = "Http" THEN "post" ELSE "send"
           w == [Mail!Idle EXCEPT !.pc = c, !.kind = kind, !.msgs = job.msgs]
<1>2. job' = w
  BY DEF Mail!Press
<1>3. MailTypes /\ job \in JobRows /\ Len(job.msgs) \in Nat /\ job.msgs \in Seq(BOOLEAN)
  BY DEF MailInv, MailTypes, JobRows
<1>4. c \in JobStages
  BY DEF JobStages
<1>5. /\ kind = "batch" => c = "live"
      /\ kind = "test" => c = "send" \/ (c = "post" /\ Mail!mailer = "Http")
  OBVIOUS
<1> HIDE DEF c
<1>6. w \in JobRows /\ w.pc = c /\ w.kind = kind /\ w.msgs = job.msgs /\ w.at = 0 /\ w.sent = 0 /\ w.failed = 0 /\ ~w.error
  BY <1>3, <1>4 DEF Mail!Idle, JobRows
<1> HIDE DEF w
<1>7. Places' = Places /\ Addressed' = Addressed /\ GoneOut' = GoneOut /\ Mail!mailer' = Mail!mailer
  BY <1>1, <1>2, <1>6, SameMessages DEF GoneOut, Mail!mailer, Mail!get_mailer, Mail!_wants_sendmail
<1>8. GoneOut \in Nat /\ (kind = "test" => Len(job.msgs) = 1 /\ Addressed = 1)
  BY <1>1, <1>3, GoneOutCount, AddressedCount
<1>9. MailTypes'
  BY <1>1, <1>2, <1>3, <1>6, <1>7 DEF MailTypes
<1>10. Counted'
  <2>1. CASE c = "live" /\ kind = "batch"
    <3>1. job'.pc = "live" /\ job'.kind = "batch" /\ job'.sent = 0 /\ job'.at = 0 /\ ~job'.error
      BY <1>2, <1>6, <2>1
    <3>2. QED
      BY <3>1 DEF Counted
  <2>2. CASE c = "send" /\ kind = "test"
    <3>1. job'.pc = "send" /\ job'.sent = 0 /\ job'.failed = 0 /\ job'.at = 0 /\ ~job'.error
      BY <1>2, <1>6, <2>2
    <3>2. Len(job'.msgs) = 1
      BY <1>2, <1>6, <1>8, <2>2
    <3>3. QED
      BY <3>1, <3>2 DEF Counted
  <2>3. CASE c = "post" /\ kind = "test" /\ Mail!mailer = "Http"
    <3>1. job'.pc = "post" /\ job'.sent = 0 /\ job'.failed = 0 /\ ~job'.error
      BY <1>2, <1>6, <2>3
    <3>2. Len(job'.msgs) = 1 /\ Addressed' = 1 /\ Mail!mailer' = "Http"
      BY <1>2, <1>6, <1>7, <1>8, <2>3
    <3>3. QED
      BY <3>1, <3>2 DEF Counted
  <2>4. QED
    BY <1>5, <2>1, <2>2, <2>3
<1>11. \A i \in Places : copies[i] <= mailFaults /\ real[i] <= copies[i]
  BY <1>1 DEF MailInv, Paid, Succeeds
<1>12. Paid'
  BY <1>1, <1>2, <1>3, <1>7, <1>11 DEF Paid, MailTypes
<1>13. LiveIsReal'
  BY <1>1, <1>2, <1>5, <1>6, <1>7, <1>8 DEF MailInv, LiveIsReal
<1>14. QED
  BY <1>9, <1>10, <1>12, <1>13 DEF MailInv

LEMMA LooksKept == ASSUME MailInv, Mail!LooksLive PROVE MailInv'
<1> DEFINE c == IF Mail!mailer # "Http" THEN "send" ELSE IF Mail!Filled = {} THEN "reply" ELSE "post"
           f == IF Mail!mailer = "Http" THEN Len(job.msgs) - Addressed ELSE 0
           l == Mail!_mailer_is_live
           w == [job EXCEPT !.live = l, !.pc = c, !.failed = f]
<1>1. job.pc = "live" /\ job' = w /\ UNCHANGED <<env, provider, mta, reply, copies, real, presses, mailFaults>>
  BY SameLetters DEF Mail!LooksLive, Addressed
<1>2. MailTypes /\ job \in JobRows /\ Len(job.msgs) \in Nat /\ job.msgs # <<>> /\ Len(job.msgs) > 0
  BY DEF MailInv, MailTypes, JobRows
<1>3. Addressed \in Nat /\ Addressed <= Len(job.msgs) /\ (Mail!Filled = {} => Addressed = 0) /\ GoneOut \in Nat
  BY <1>2, AddressedCount, GoneOutCount
<1>4. c \in JobStages /\ f \in Nat /\ l \in BOOLEAN
  BY <1>2, <1>3 DEF JobStages, Mail!_mailer_is_live
<1>5. job.kind = "batch" /\ job.sent = 0 /\ job.at = 0 /\ ~job.error /\ ~reply.ok
  BY <1>1 DEF MailInv, Counted, Paid
<1>6. \/ c = "send" /\ f = 0
      \/ c = "post" /\ f + Addressed = Len(job.msgs) /\ Mail!mailer = "Http"
      \/ c = "reply" /\ f = Len(job.msgs)
  BY <1>2, <1>3
<1> HIDE DEF c, f, l
<1>7. /\ w \in JobRows /\ w.pc = c /\ w.failed = f /\ w.live = l
      /\ w.msgs = job.msgs /\ w.kind = "batch" /\ w.at = 0 /\ w.sent = 0 /\ ~w.error
  BY <1>2, <1>4, <1>5 DEF JobRows
<1> HIDE DEF w
<1>8. /\ Places' = Places /\ Addressed' = Addressed /\ GoneOut' = GoneOut /\ Mail!mailer' = Mail!mailer
      /\ Mail!_mailer_is_live' = l
  BY <1>1, <1>7, SameMessages DEF GoneOut, l, Mail!_mailer_is_live, Mail!mailer, Mail!get_mailer, Mail!_wants_sendmail
<1>9. MailTypes'
  BY <1>1, <1>2, <1>7, <1>8 DEF MailTypes
<1>10. Counted'
  BY <1>1, <1>2, <1>6, <1>7, <1>8 DEF Counted
<1>11. \A i \in Places : copies[i] <= mailFaults /\ real[i] <= copies[i]
  BY <1>1 DEF MailInv, Paid, Succeeds
<1>12. Paid'
  BY <1>1, <1>2, <1>5, <1>8, <1>11 DEF Paid, MailTypes
<1>13. LiveIsReal'
  BY <1>1, <1>3, <1>5, <1>6, <1>7, <1>8 DEF MailInv, LiveIsReal
<1>14. QED
  BY <1>9, <1>10, <1>12, <1>13 DEF MailInv

\* The three ways of one message: passed over, handed over, or handed over and
\* taken for lost, which costs a fault.
PassedOver(ok) == ~ok /\ UNCHANGED <<copies, real, mailFaults>>
Delivered(ok) ==
    /\ ok /\ UNCHANGED mailFaults
    /\ \E sends \in BOOLEAN : /\ Mail!HandOver({job.at + 1}, sends)
                              /\ sends \/ Mail!mailer = "Log"
TakenForLost(ok) == ~ok /\ Mail!HandOver({job.at + 1}, TRUE) /\ mailFaults' = mailFaults + 1

LEMMA NextPlace ==
    ASSUME MailInv, job.pc = "send"
    PROVE  /\ job.at \in Nat /\ job.at + 1 \in Places /\ Len(job.msgs) \in Nat
           /\ job.sent \in Nat /\ job.failed \in Nat /\ mailFaults \in Nat
           /\ job.sent + job.failed = job.at /\ ~job.error /\ ~reply.ok
<1>1. MailTypes /\ Counted /\ Paid
  BY DEF MailInv
<1>2. job.at \in Nat /\ Len(job.msgs) \in Nat /\ job.sent \in Nat /\ job.failed \in Nat /\ mailFaults \in Nat
  BY <1>1 DEF MailTypes, JobRows
<1>3. job.at < Len(job.msgs) /\ job.sent + job.failed = job.at /\ ~job.error /\ ~reply.ok
  BY <1>1 DEF Counted, Paid
<1>4. QED
  BY <1>2, <1>3 DEF Places

LEMMA MessageKept ==
    ASSUME MailInv, job.pc = "send", NEW ok \in BOOLEAN, job' = Mail!Done(ok),
           UNCHANGED <<env, reply, presses>>,
           \/ PassedOver(ok) /\ UNCHANGED provider
           \/ Delivered(ok) /\ UNCHANGED provider
           \/ TakenForLost(ok)
    PROVE  MailInv'
<1> DEFINE a == job.at + 1
<1>1. MailTypes /\ job \in JobRows /\ Len(job.msgs) \in Nat
  BY DEF MailInv, MailTypes, JobRows
<1>2. /\ a \in Places /\ job.at \in Nat /\ a = job.at + 1 /\ job.sent \in Nat /\ job.failed \in Nat
      /\ mailFaults \in Nat /\ job.sent + job.failed = job.at /\ ~job.error /\ ~reply.ok
  BY NextPlace
<1>3. /\ job' \in JobRows /\ job'.msgs = job.msgs /\ job'.kind = job.kind /\ job'.at = a
      /\ job'.sent = job.sent + (IF ok THEN 1 ELSE 0) /\ job'.failed = job.failed + (IF ok THEN 0 ELSE 1)
      /\ job'.live = job.live /\ job'.error = job.error
      /\ job'.pc = IF a = Len(job.msgs) THEN "reply" ELSE "send"
  BY <1>1, DoneRow
<1> HIDE DEF a
<1>4. Places' = Places /\ Addressed' = Addressed
  BY <1>3, SameMessages
<1>5. PICK sends \in BOOLEAN :
        /\ copies' \in [Places -> Nat] /\ real' \in [Places -> Nat]
        /\ \A i \in Places \ {a} : copies'[i] = copies[i] /\ real'[i] = real[i]
        /\ \/ /\ ~ok /\ UNCHANGED <<provider, mailFaults>> /\ real' = real /\ copies'[a] = copies[a] /\ real'[a] = real[a]
           \/ /\ ok /\ UNCHANGED <<provider, mailFaults>> /\ (sends \/ Mail!mailer = "Log")
              /\ copies'[a] = copies[a] + 1 /\ real'[a] = real[a] + (IF sends THEN 1 ELSE 0)
           \/ /\ ~ok /\ mailFaults' = mailFaults + 1
              /\ copies'[a] = copies[a] + 1 /\ real'[a] = real[a] + 1
  <2>1. CASE PassedOver(ok) /\ UNCHANGED provider
    BY <1>1, <1>2, <2>1 DEF PassedOver, MailTypes
  <2>2. CASE Delivered(ok) /\ UNCHANGED provider
    <3>1. PICK sends \in BOOLEAN : Mail!HandOver({a}, sends) /\ (sends \/ Mail!mailer = "Log")
      BY <2>2, <1>2 DEF Delivered
    <3>2. /\ copies' \in [Places -> Nat] /\ real' \in [Places -> Nat]
          /\ \A i \in Places : /\ copies'[i] = copies[i] + (IF i \in {a} THEN 1 ELSE 0)
                               /\ real'[i] = real[i] + (IF i \in {a} /\ sends THEN 1 ELSE 0)
      BY <1>1, <3>1, HandedOver
    <3>3. \A i \in Places : copies[i] \in Nat /\ real[i] \in Nat
      BY <1>1 DEF MailTypes
    <3>4. QED
      BY <1>2, <2>2, <3>1, <3>2, <3>3 DEF Delivered
  <2>3. CASE TakenForLost(ok)
    <3>1. Mail!HandOver({a}, TRUE)
      BY <2>3, <1>2 DEF TakenForLost
    <3>2. /\ copies' \in [Places -> Nat] /\ real' \in [Places -> Nat]
          /\ \A i \in Places : /\ copies'[i] = copies[i] + (IF i \in {a} THEN 1 ELSE 0)
                               /\ real'[i] = real[i] + (IF i \in {a} /\ TRUE THEN 1 ELSE 0)
      BY <1>1, <3>1, HandedOver
    <3>3. \A i \in Places : copies[i] \in Nat /\ real[i] \in Nat
      BY <1>1 DEF MailTypes
    <3>4. QED
      BY <1>2, <2>3, <3>2, <3>3 DEF TakenForLost
  <2>4. QED
    BY <2>1, <2>2, <2>3
<1>6. mailFaults' \in Nat /\ mailFaults' >= mailFaults
  BY <1>2, <1>5
<1>7. MailTypes'
  BY <1>1, <1>3, <1>4, <1>5, <1>6 DEF MailTypes
<1>8. Counted'
  BY <1>1, <1>2, <1>3 DEF Counted, Places
<1>9. Paid'
  <2>1. /\ \A i \in Places : /\ copies[i] \in Nat /\ real[i] \in Nat /\ real[i] <= copies[i]
                             /\ copies[i] <= mailFaults + 1
                             /\ (job.sent = 0 \/ i > job.at) => copies[i] <= mailFaults
    BY <1>1, <1>2 DEF MailInv, MailTypes, Paid, Succeeds
  <2>2. \A i \in Places : i \in Nat
    BY DEF Places
  <2>3. copies[a] <= mailFaults
    BY <1>2, <2>1
  <2>4. /\ \A i \in Places : real'[i] <= copies'[i] /\ copies'[i] <= mailFaults' + 1
    BY <1>2, <1>5, <2>1, <2>3
  <2>5. ASSUME NEW i \in Places, ~Succeeds' \/ (job'.pc = "send" /\ i > job'.at)
        PROVE  copies'[i] <= mailFaults'
    <3>1. ~Succeeds' => job'.sent = 0
      BY <1>1, <1>2, <1>3 DEF Succeeds
    <3>2. ~ok => job.sent = 0 \/ i > job.at
      BY <1>2, <1>3, <2>2, <2>5, <3>1
    <3>3. ok => i > a
      BY <1>2, <1>3, <2>2, <2>5, <3>1
    <3>4. QED
      BY <1>2, <1>5, <2>1, <2>2, <2>3, <3>2, <3>3
  <2>6. QED
    BY <1>2, <1>3, <1>4, <2>4, <2>5 DEF Paid
<1>10. LiveIsReal'
  <2> SUFFICES ASSUME mailFaults' = 0 PROVE LiveIsReal'
    BY DEF LiveIsReal
  <2>1. mailFaults = 0 /\ mailFaults' = mailFaults /\ UNCHANGED provider
    BY <1>2, <1>5
  <2>2. Mail!_mailer_is_live' = Mail!_mailer_is_live /\ Mail!mailer' = Mail!mailer
    BY <2>1 DEF Mail!_mailer_is_live, Mail!mailer, Mail!get_mailer, Mail!_wants_sendmail
  <2>3. job.kind = "batch" => job.live = Mail!_mailer_is_live
    BY <2>1 DEF MailInv, LiveIsReal
  <2>4. Mail!_mailer_is_live => GoneOut >= job.sent
    BY <1>2, <2>1 DEF MailInv, LiveIsReal
  <2>5. real[a] = 0
    BY <1>1, <1>2, <2>1 DEF MailInv, MailTypes, Paid
  <2>6. \A i \in Places : real[i] \in Nat /\ real'[i] >= real[i]
    <3>1. \A i \in Places : real[i] \in Nat
      BY <1>1 DEF MailTypes
    <3>2. QED
      BY <1>2, <1>5, <3>1
  <2>7. /\ GoneOut' \in Nat /\ GoneOut' >= GoneOut /\ GoneOut \in Nat
        /\ real'[a] > 0 => GoneOut' >= GoneOut + 1
    BY <1>1, <1>2, <1>4, <1>5, <2>5, <2>6, GoneOutGrows, GoneOutCount
  <2>8. ok /\ Mail!_mailer_is_live => real'[a] > 0
    BY <1>5, <2>1, <2>5 DEF Mail!_mailer_is_live
  <2>9. Mail!_mailer_is_live => GoneOut' >= job'.sent
    BY <1>2, <1>3, <2>4, <2>7, <2>8
  <2>10. QED
    BY <1>2, <1>3, <2>2, <2>3, <2>9 DEF LiveIsReal
<1>11. QED
  BY <1>7, <1>8, <1>9, <1>10 DEF MailInv

LEMMA LoopKept ==
    ASSUME MailInv, Mail!NoRecipient \/ Mail!SendmailRefuses \/ Mail!SendmailTakes \/ Mail!DirectSend
    PROVE  MailInv'
<1>1. MailInv /\ mailFaults \in Nat
  BY DEF MailInv, MailTypes
<1>2. CASE Mail!NoRecipient
  BY <1>1, <1>2, MessageKept DEF Mail!NoRecipient, PassedOver
<1>3. CASE Mail!SendmailRefuses
  BY <1>1, <1>3, MessageKept DEF Mail!SendmailRefuses, Mail!Sends, PassedOver
<1>4. CASE Mail!SendmailTakes
  <2>1. job.pc = "send" /\ Mail!HandOver({job.at + 1}, TRUE) /\ UNCHANGED <<env, provider, reply, presses>>
    BY <1>4 DEF Mail!SendmailTakes, Mail!Sends
  <2>2. \/ job' = Mail!Done(TRUE) /\ Delivered(TRUE)
        \/ job' = Mail!Done(FALSE) /\ TakenForLost(FALSE)
    BY <1>4, <2>1 DEF Mail!SendmailTakes, Mail!Fault, Delivered, TakenForLost
  <2>3. QED
    BY <1>1, <2>1, <2>2, MessageKept
<1>5. CASE Mail!DirectSend
  <2>1. job.pc = "send" /\ UNCHANGED <<env, provider, reply, presses>>
    BY <1>5 DEF Mail!DirectSend, Mail!Sends
  <2>2. \/ job' = Mail!Done(TRUE) /\ Delivered(TRUE)
        \/ job' = Mail!Done(FALSE) /\ PassedOver(FALSE)
        \/ job' = Mail!Done(FALSE) /\ TakenForLost(FALSE)
    <3>1. CASE Mail!HandOver({job.at + 1}, Mail!mailer = "Smtp") /\ job' = Mail!Done(TRUE) /\ UNCHANGED mailFaults
      <4>1. Mail!mailer = "Smtp" \/ Mail!mailer = "Log"
        BY <1>5 DEF Mail!DirectSend
      <4>2. PICK sends \in BOOLEAN : sends <=> Mail!mailer = "Smtp"
        OBVIOUS
      <4>3. Mail!HandOver({job.at + 1}, sends)
        BY <3>1, <4>2 DEF Mail!HandOver
      <4>4. QED
        BY <3>1, <4>1, <4>2, <4>3 DEF Delivered
    <3>2. CASE job' = Mail!Done(FALSE) /\ UNCHANGED <<copies, real, mailFaults>>
      BY <3>2 DEF PassedOver
    <3>3. CASE job' = Mail!Done(FALSE) /\ Mail!HandOver({job.at + 1}, TRUE) /\ Mail!Fault
      BY <3>3 DEF TakenForLost, Mail!Fault
    <3>4. QED
      BY <1>5, <3>1, <3>2, <3>3 DEF Mail!DirectSend
  <2>3. QED
    BY <1>1, <2>1, <2>2, MessageKept
<1>6. QED
  BY <1>2, <1>3, <1>4, <1>5

-----------------------------------------------------------------------------
\* A request at the mail service ends with the answer of the service.
LEMMA AtTheService ==
    ASSUME MailInv, job.pc = "post"
    PROVE  /\ MailTypes /\ job \in JobRows /\ Len(job.msgs) \in Nat /\ job.failed \in Nat /\ mailFaults \in Nat
           /\ job.sent = 0 /\ job.failed + Addressed = Len(job.msgs) /\ ~job.error /\ Mail!mailer = "Http" /\ ~reply.ok
           /\ Addressed \in Nat /\ (Addressed > 0 <=> Mail!Filled # {}) /\ Mail!Filled \subseteq Places
           /\ GoneOut \in Nat
           /\ \A i \in Places : /\ copies[i] \in Nat /\ real[i] \in Nat
                                /\ copies[i] <= mailFaults /\ real[i] <= copies[i]
<1>1. MailTypes /\ Counted /\ Paid
  BY DEF MailInv
<1>2. job \in JobRows /\ Len(job.msgs) \in Nat /\ job.failed \in Nat /\ mailFaults \in Nat
  BY <1>1 DEF MailTypes, JobRows
<1>3. job.sent = 0 /\ job.failed + Addressed = Len(job.msgs) /\ ~job.error /\ Mail!mailer = "Http" /\ ~reply.ok
  BY <1>1 DEF Counted, Paid
<1>4. Addressed \in Nat /\ (Addressed > 0 <=> Mail!Filled # {}) /\ GoneOut \in Nat
  BY <1>1, AddressedCount, GoneOutCount
<1>5. DOMAIN job.msgs = Places
  BY <1>2 DEF JobRows, Places
<1>6. Mail!Filled \subseteq Places
  BY <1>5 DEF Mail!Filled
<1>7. \A i \in Places : /\ copies[i] \in Nat /\ real[i] \in Nat
                        /\ copies[i] <= mailFaults /\ real[i] <= copies[i]
  BY <1>1 DEF MailTypes, Paid, Succeeds
<1>8. QED
  BY <1>1, <1>2, <1>3, <1>4, <1>6, <1>7

LEMMA TakesKept == ASSUME MailInv, Mail!ServiceTakes, UNCHANGED mailFaults PROVE MailInv'
<1>1. /\ job.pc = "post" /\ Mail!HandOver(Mail!Filled, provider \in {"smtp", "sendmail"})
      /\ UNCHANGED <<env, provider, mta, reply, presses>>
  BY DEF Mail!ServiceTakes
<1>2. /\ MailTypes /\ job \in JobRows /\ Len(job.msgs) \in Nat /\ job.failed \in Nat /\ mailFaults \in Nat
      /\ job.sent = 0 /\ job.failed + Addressed = Len(job.msgs) /\ ~job.error /\ Mail!mailer = "Http" /\ ~reply.ok
      /\ Addressed \in Nat /\ (Addressed > 0 <=> Mail!Filled # {}) /\ Mail!Filled \subseteq Places
      /\ GoneOut \in Nat
      /\ \A i \in Places : /\ copies[i] \in Nat /\ real[i] \in Nat
                           /\ copies[i] <= mailFaults /\ real[i] <= copies[i]
  BY <1>1, AtTheService
<1>3. PICK sends \in BOOLEAN : sends <=> provider \in {"smtp", "sendmail"}
  OBVIOUS
<1>4. Mail!HandOver(Mail!Filled, sends)
  BY <1>1, <1>3 DEF Mail!HandOver
<1>5. /\ copies' \in [Places -> Nat] /\ real' \in [Places -> Nat]
      /\ \A i \in Places : /\ copies'[i] = copies[i] + (IF i \in Mail!Filled THEN 1 ELSE 0)
                           /\ real'[i] = real[i] + (IF i \in Mail!Filled /\ sends THEN 1 ELSE 0)
  BY <1>2, <1>4, HandedOver
<1>6. job' = [job EXCEPT !.pc = "reply", !.sent = Addressed]
  <2>1. mailFaults' # mailFaults + 1
    BY <1>2
  <2>2. job' = [job EXCEPT !.pc = "reply", !.sent = Mail!Cardinality(Mail!Filled)]
    BY <2>1 DEF Mail!ServiceTakes, Mail!Fault
  <2>3. Mail!Cardinality(Mail!Filled) = Addressed
    BY SameLetters DEF Addressed
  <2>4. QED
    BY <2>2, <2>3
<1>7. /\ job' \in JobRows /\ job'.pc = "reply" /\ job'.sent = Addressed /\ job'.failed = job.failed
      /\ job'.msgs = job.msgs /\ job'.kind = job.kind /\ job'.live = job.live /\ job'.error = job.error
  BY <1>2, <1>6 DEF JobRows, JobStages
<1>8. Places' = Places
  BY <1>7, SameMessages
<1>9. MailTypes'
  BY <1>1, <1>2, <1>5, <1>7, <1>8 DEF MailTypes
<1>10. Counted'
  BY <1>2, <1>7 DEF Counted
<1>11. Paid'
  <2>1. ASSUME NEW i \in Places
        PROVE  /\ real'[i] <= copies'[i] /\ copies'[i] <= mailFaults + 1
               /\ Mail!Filled = {} => copies'[i] <= mailFaults
    <3>1. copies[i] \in Nat /\ real[i] \in Nat /\ copies[i] <= mailFaults /\ real[i] <= copies[i] /\ mailFaults \in Nat
      BY <1>2
    <3>2. /\ copies'[i] = copies[i] + (IF i \in Mail!Filled THEN 1 ELSE 0)
          /\ real'[i] = real[i] + (IF i \in Mail!Filled /\ sends THEN 1 ELSE 0)
      BY <1>5
    <3>3. Mail!Filled = {} => i \notin Mail!Filled
      OBVIOUS
    <3>4. QED
      BY <3>1, <3>2, <3>3
  <2>2. Succeeds' \/ Mail!Filled = {}
    BY <1>2, <1>7 DEF Succeeds
  <2>3. QED
    BY <1>1, <1>2, <1>7, <1>8, <2>1, <2>2 DEF Paid
<1>12. LiveIsReal'
  <2>1. Mail!_mailer_is_live' = Mail!_mailer_is_live /\ (Mail!_mailer_is_live => sends)
    BY <1>1, <1>2, <1>3 DEF Mail!_mailer_is_live, Mail!mailer, Mail!get_mailer, Mail!_wants_sendmail
  <2>2. \A i \in Places : real'[i] >= real[i]
    BY <1>2, <1>5
  <2>3. Mail!Filled \in SUBSET Places
    BY <1>2
  <2>4. sends => \A i \in Mail!Filled : real'[i] > 0
    BY <1>2, <1>5
  <2>5. sends => GoneOut' >= Cardinality(Mail!Filled)
    BY <1>2, <1>5, <1>8, <2>2, <2>3, <2>4, GoneOutGrows
  <2>6. mailFaults = 0 /\ job.kind = "batch" => job.live = Mail!_mailer_is_live
    BY <1>1 DEF MailInv, LiveIsReal
  <2>7. QED
    BY <1>1, <1>2, <1>7, <2>1, <2>5, <2>6 DEF LiveIsReal, Addressed
<1>13. QED
  BY <1>9, <1>10, <1>11, <1>12 DEF MailInv

\* What was handed over before the answer was lost costs a fault; a refusal hands
\* nothing over.
LEMMA FailureKept ==
    ASSUME MailInv, job.pc = "post", UNCHANGED <<env, provider, mta, reply, presses>>,
           job' = [job EXCEPT !.pc = "reply", !.error = TRUE, !.failed = Len(job.msgs)],
           \/ UNCHANGED <<copies, real, mailFaults>>
           \/ mailFaults' = mailFaults + 1 /\ \E S \in SUBSET Mail!Filled, sends \in BOOLEAN : Mail!HandOver(S, sends)
    PROVE  MailInv'
<1>1. /\ MailTypes /\ job \in JobRows /\ Len(job.msgs) \in Nat /\ mailFaults \in Nat
      /\ job.sent = 0 /\ ~reply.ok /\ GoneOut \in Nat
      /\ \A i \in Places : /\ copies[i] \in Nat /\ real[i] \in Nat
                           /\ copies[i] <= mailFaults /\ real[i] <= copies[i]
  BY AtTheService
<1>2. /\ job' \in JobRows /\ job'.pc = "reply" /\ job'.sent = 0 /\ job'.failed = Len(job.msgs) /\ job'.error
      /\ job'.msgs = job.msgs /\ job'.kind = job.kind /\ job'.live = job.live
  BY <1>1 DEF JobRows, JobStages
<1>3. Places' = Places
  BY <1>2, SameMessages
<1>4. /\ copies' \in [Places -> Nat] /\ real' \in [Places -> Nat] /\ mailFaults' \in Nat
      /\ \A i \in Places : copies'[i] <= mailFaults' /\ real'[i] <= copies'[i]
  <2>1. CASE UNCHANGED <<copies, real, mailFaults>>
    BY <1>1, <2>1 DEF MailTypes
  <2>2. ASSUME mailFaults' = mailFaults + 1, NEW S \in SUBSET Mail!Filled, NEW sends \in BOOLEAN, Mail!HandOver(S, sends)
        PROVE  /\ copies' \in [Places -> Nat] /\ real' \in [Places -> Nat] /\ mailFaults' \in Nat
               /\ \A i \in Places : copies'[i] <= mailFaults' /\ real'[i] <= copies'[i]
    <3>1. /\ copies' \in [Places -> Nat] /\ real' \in [Places -> Nat]
          /\ \A i \in Places : /\ copies'[i] = copies[i] + (IF i \in S THEN 1 ELSE 0)
                               /\ real'[i] = real[i] + (IF i \in S /\ sends THEN 1 ELSE 0)
      BY <1>1, <2>2, HandedOver
    <3>2. QED
      BY <1>1, <2>2, <3>1
  <2>3. QED
    BY <2>1, <2>2
<1>5. MailTypes'
  BY <1>1, <1>2, <1>3, <1>4 DEF MailTypes
<1>6. Counted'
  BY <1>1, <1>2 DEF Counted
<1>7. Paid'
  BY <1>1, <1>2, <1>3, <1>4 DEF Paid, MailTypes
<1>8. LiveIsReal'
  <2>1. mailFaults' = 0 => mailFaults = 0
    BY <1>1
  <2>2. Mail!_mailer_is_live' = Mail!_mailer_is_live
    BY DEF Mail!_mailer_is_live, Mail!mailer, Mail!get_mailer, Mail!_wants_sendmail
  <2>3. mailFaults = 0 /\ job.kind = "batch" => job.live = Mail!_mailer_is_live
    BY DEF MailInv, LiveIsReal
  <2>4. QED
    BY <1>1, <1>2, <2>1, <2>2, <2>3 DEF LiveIsReal
<1>9. QED
  BY <1>5, <1>6, <1>7, <1>8 DEF MailInv

LEMMA ServiceKept ==
    ASSUME MailInv, Mail!ServiceTakes \/ Mail!ServiceBreaksOff \/ Mail!ServiceFails
    PROVE  MailInv'
<1> DEFINE sends == provider \in {"smtp", "sendmail"}
           Broken == mailFaults' = mailFaults + 1
                     /\ \E S \in SUBSET Mail!Filled, b \in BOOLEAN : Mail!HandOver(S, b)
           Refused == job' = [job EXCEPT !.pc = "reply", !.error = TRUE, !.failed = Len(job.msgs)]
<1>1. PICK b \in BOOLEAN : b <=> sends
  OBVIOUS
<1>2. ASSUME NEW S \in SUBSET Mail!Filled, Mail!HandOver(S, sends), Mail!Fault PROVE Broken
  <2>1. Mail!HandOver(S, b)
    BY <1>1, <1>2 DEF Mail!HandOver
  <2>2. QED
    BY <1>2, <2>1 DEF Mail!Fault
<1>3. CASE Mail!ServiceTakes
  <2>1. CASE UNCHANGED mailFaults
    BY <1>3, <2>1, TakesKept
  <2>2. CASE Mail!Fault /\ Refused
    <3>1. Broken
      BY <1>2, <1>3, <2>2 DEF Mail!ServiceTakes
    <3>2. QED
      BY <1>3, <2>2, <3>1, FailureKept DEF Mail!ServiceTakes
  <2>3. QED
    BY <1>3, <2>1, <2>2 DEF Mail!ServiceTakes
<1>4. CASE Mail!ServiceBreaksOff
  <2>1. PICK i \in Mail!Filled : Mail!HandOver({j \in Mail!Filled : j < i}, sends)
    BY <1>4 DEF Mail!ServiceBreaksOff
  <2>2. {j \in Mail!Filled : j < i} \in SUBSET Mail!Filled
    OBVIOUS
  <2>3. Broken
    BY <1>2, <1>4, <2>1, <2>2 DEF Mail!ServiceBreaksOff
  <2>4. QED
    BY <1>4, <2>3, FailureKept DEF Mail!ServiceBreaksOff
<1>5. CASE Mail!ServiceFails
  BY <1>5, FailureKept DEF Mail!ServiceFails
<1>6. QED
  BY <1>3, <1>4, <1>5

LEMMA AnswerKept == ASSUME MailInv, Mail!Answer PROVE MailInv'
<1> DEFINE l == IF job.kind = "batch" THEN job.live ELSE Mail!_mailer_is_live
           r == [ok |-> job.sent > 0 /\ ~job.error, queued |-> job.sent, failed |-> job.failed, live |-> l]
           w == [Mail!Idle EXCEPT !.msgs = job.msgs, !.kind = job.kind]
<1>1. job.pc = "reply" /\ reply' = r /\ job' = w /\ UNCHANGED <<env, provider, mta, copies, real, presses, mailFaults>>
  BY DEF Mail!Answer
<1>2. /\ MailTypes /\ job \in JobRows /\ job.msgs \in Seq(BOOLEAN) /\ job.kind \in {"batch", "test"}
      /\ job.sent \in Nat /\ job.failed \in Nat /\ job.live \in BOOLEAN /\ Len(job.msgs) \in Nat
  BY DEF MailInv, MailTypes, JobRows
<1>3. l \in BOOLEAN /\ (l <=> IF job.kind = "batch" THEN job.live ELSE Mail!_mailer_is_live)
  BY <1>2 DEF Mail!_mailer_is_live
<1> HIDE DEF l
<1>4. PICK o \in BOOLEAN : o <=> job.sent > 0 /\ ~job.error
  OBVIOUS
<1>5. r = [ok |-> o, queued |-> job.sent, failed |-> job.failed, live |-> l]
  BY <1>4
<1>6. r \in ReplyRows /\ r.queued = job.sent /\ r.failed = job.failed /\ r.ok = o /\ r.live = l
  BY <1>2, <1>3, <1>5 DEF ReplyRows
<1>7. w \in JobRows /\ w.pc = "idle" /\ w.msgs = job.msgs /\ w.kind = job.kind
  BY <1>2 DEF Mail!Idle, JobRows, JobStages
<1> HIDE DEF r, w
<1>8. Places' = Places /\ GoneOut' = GoneOut
  BY <1>1, <1>7, SameMessages DEF GoneOut
<1>9. MailTypes'
  BY <1>1, <1>2, <1>6, <1>7, <1>8 DEF MailTypes
<1>10. Counted'
  <2>1. job.sent + job.failed = Len(job.msgs)
    BY <1>1 DEF MailInv, Counted
  <2>2. QED
    BY <1>1, <1>6, <1>7, <2>1 DEF Counted
<1>11. Paid'
  <2>1. Succeeds <=> job.sent > 0 /\ ~job.error
    BY <1>1 DEF Succeeds
  <2>2. Succeeds' <=> o
    BY <1>1, <1>6, <1>7 DEF Succeeds
  <2>3. QED
    BY <1>1, <1>4, <1>7, <1>8, <2>1, <2>2 DEF MailInv, Paid
<1>12. LiveIsReal'
  <2> SUFFICES ASSUME mailFaults = 0, o, l PROVE GoneOut >= job.sent
    BY <1>1, <1>6, <1>7, <1>8 DEF LiveIsReal
  <2>1. Mail!_mailer_is_live
    BY <1>1, <1>3 DEF MailInv, LiveIsReal
  <2>2. QED
    BY <1>1, <1>4, <2>1 DEF MailInv, LiveIsReal
<1>13. QED
  BY <1>9, <1>10, <1>11, <1>12 DEF MailInv

LEMMA ChangesKept == ASSUME MailInv, Mail!ProviderChanges \/ Mail!MtaSwitches PROVE MailInv'
<1>1. mailFaults' = mailFaults + 1 /\ UNCHANGED <<env, job, reply, copies, real, presses>>
  BY DEF Mail!ProviderChanges, Mail!MtaSwitches, Mail!Fault
<1>2. MailTypes /\ mailFaults \in Nat /\ mailFaults' \in Nat /\ mailFaults' # 0
  BY <1>1 DEF MailInv, MailTypes
<1>3. Places' = Places /\ Addressed' = Addressed /\ Mail!mailer' = Mail!mailer
  BY <1>1, SameMessages DEF Mail!mailer, Mail!get_mailer, Mail!_wants_sendmail
<1>4. MailTypes'
  BY <1>1, <1>2, <1>3 DEF MailTypes
<1>5. Counted'
  BY <1>1, <1>3 DEF MailInv, Counted
<1>6. Paid'
  <2>1. Succeeds' <=> Succeeds
    BY <1>1 DEF Succeeds
  <2>2. \A i \in Places : copies[i] \in Nat
    BY <1>2 DEF MailTypes
  <2>3. QED
    BY <1>1, <1>2, <1>3, <2>1, <2>2 DEF MailInv, Paid
<1>7. LiveIsReal'
  BY <1>2 DEF LiveIsReal
<1>8. QED
  BY <1>4, <1>5, <1>6, <1>7 DEF MailInv

-----------------------------------------------------------------------------
LEMMA MailKept == ASSUME MailInv, Mail!Next \/ UNCHANGED mt PROVE MailInv'
<1>1. CASE Mail!Press("batch") \/ Mail!Press("test")
  BY <1>1, PressKept
<1>2. CASE Mail!NoRecipient \/ Mail!SendmailRefuses \/ Mail!SendmailTakes \/ Mail!DirectSend
  BY <1>2, LoopKept
<1>3. CASE Mail!ServiceTakes \/ Mail!ServiceBreaksOff \/ Mail!ServiceFails
  BY <1>3, ServiceKept
<1>4. CASE Mail!ProviderChanges \/ Mail!MtaSwitches
  BY <1>4, ChangesKept
<1>5. CASE UNCHANGED mt
  <2>1. UNCHANGED <<env, provider, mta, job, reply, copies, real, presses, mailFaults>>
    BY <1>5 DEF mt
  <2>2. /\ Places' = Places /\ Addressed' = Addressed /\ GoneOut' = GoneOut /\ Mail!mailer' = Mail!mailer
        /\ Mail!_mailer_is_live' = Mail!_mailer_is_live
    BY <2>1, SameMessages DEF GoneOut, Mail!_mailer_is_live, Mail!mailer, Mail!get_mailer, Mail!_wants_sendmail
  <2>3. MailTypes'
    BY <2>1, <2>2 DEF MailInv, MailTypes
  <2>4. Counted'
    BY <2>1, <2>2 DEF MailInv, Counted
  <2>5. Paid' /\ LiveIsReal'
    BY <2>1, <2>2 DEF MailInv, Paid, Succeeds, LiveIsReal
  <2>6. QED
    BY <2>3, <2>4, <2>5 DEF MailInv
<1>6. QED
  BY <1>1, <1>2, <1>3, <1>4, <1>5, LooksKept, AnswerKept DEF Mail!Next

\* Of a step of the services, the transports see their own steps or none.
LEMMA MailAlone == ASSUME [Next]_vars PROVE Mail!Next \/ UNCHANGED mt
BY DEF Next, vars, mt, OfferStep, ChoiceStep, MailboxStep, WheelStep, AttributionStep, TemplateStep,
       CatalogueStep, PictureStep, MailStep, SettingsStep

LEMMA MailAlways == Spec => []MailInv
<1>1. MailInv /\ [Next]_vars => MailInv'
  BY MailAlone, MailKept
<1>2. QED
  BY MailBegins, <1>1, PTL DEF Spec

\* An admin who presses again only after "not ok" sends nobody a second copy,
\* except one for each fault between hand-over and answer, whichever transport
\* is configured (mailer.py, admin.mail_send_batch, scenario_test).
THEOREM RepeatsPaid == Spec => []RepeatsAreExplained
<1>1. MailInv => RepeatsAreExplained
  <2> SUFFICES ASSUME MailInv, NEW i \in DOMAIN copies PROVE copies[i] <= 1 + mailFaults
    BY DEF RepeatsAreExplained, Mail!RepeatsAreExplained
  <2>1. i \in Places /\ copies[i] \in Nat /\ mailFaults \in Nat
    BY DEF MailInv, MailTypes
  <2>2. QED
    BY <2>1 DEF MailInv, Paid
<1>2. QED
  BY MailAlways, <1>1, PTL

\* The answer accounts for every message, and as many letters as it calls sent
\* have left for real if it says the transport is live and there was no fault.
THEOREM AnswersTrue == Spec => []AnswerIsTrue
<1>1. MailInv => AnswerIsTrue
  <2> SUFFICES ASSUME MailInv PROVE AnswerIsTrue
    OBVIOUS
  <2>1. presses > 0 /\ job.pc = "idle" => reply.queued + reply.failed = Len(job.msgs)
    BY DEF MailInv, Counted
  <2>2. reply.ok /\ reply.live /\ mailFaults = 0 => GoneOut >= reply.queued
    BY DEF MailInv, LiveIsReal
  <2>3. QED
    BY <2>1, <2>2, SameLetters DEF AnswerIsTrue, Mail!AnswerIsTrue, GoneOut
<1>2. QED
  BY MailAlways, <1>1, PTL
-----------------------------------------------------------------------------
(* The types of these parts, bounds included.                              *)

PanelRows == [pc : {"idle", "put", "load", "site", "onec", "token"}, left : Seq(Set!Entries), read : Set!Value]
TickRows == [pc : {"idle", "load", "write"}, read : Set!Value]
PullRows == [pc : {"absent", "idle", "load", "pull"}, read : Set!Value]
SavedRows == [url : Set!Value, number : Numbers \union {None}, onec : Set!Value]
SettingsTypes ==
    /\ saved \in SavedRows
    /\ site \in [Set!Procs -> Set!Value] /\ onec \in [Set!Procs -> Set!Value]
    /\ admin \in [Admins -> PanelRows] /\ tick \in [Ticks -> TickRows]
    /\ catalogue \in PullRows /\ interval \in Numbers \union {None}
    /\ since \in [Ticks \union {"catalogue"} -> SUBSET Set!Value]
    /\ saves \in 0 .. MaxSaves /\ starts \in 0 .. MaxStarts
    /\ aborted \in BOOLEAN /\ overlaps \in BOOLEAN /\ loaded \in BOOLEAN

LEMMA NothingUnderWay == Set!NoRequest \in PanelRows /\ Set!NoTick \in TickRows /\ None \in Set!Value
<1>1. <<>> \in Seq(Set!Entries)
  OBVIOUS
<1>2. QED
  BY <1>1 DEF Set!NoRequest, Set!NoTick, PanelRows, TickRows, Set!Value

LEMMA SettingsTypesBegin == Set!Init => SettingsTypes
<1> SUFFICES ASSUME Set!Init PROVE SettingsTypes
  OBVIOUS
<1>1. saved \in SavedRows
  BY DEF Set!Init, Set!Keys, SavedRows, Set!Value
<1>2. admin \in [Admins -> PanelRows] /\ tick \in [Ticks -> TickRows]
  BY NothingUnderWay DEF Set!Init
<1>5. /\ site \in [Set!Procs -> Set!Value] /\ onec \in [Set!Procs -> Set!Value]
      /\ catalogue \in PullRows /\ interval \in Numbers \union {None}
      /\ since \in [Ticks \union {"catalogue"} -> SUBSET Set!Value]
  BY NothingUnderWay DEF Set!Init, PullRows
<1>6. saves \in 0 .. MaxSaves /\ starts \in 0 .. MaxStarts
  BY BoundsAssumption DEF Set!Init
<1>7. aborted \in BOOLEAN /\ overlaps \in BOOLEAN /\ loaded \in BOOLEAN
  BY Zenon DEF Set!Init
<1>8. QED
  BY <1>1, <1>2, <1>5, <1>6, <1>7, Zenon DEF SettingsTypes

LEMMA SettingsParts == SettingsTypes => Set!TypeOK
<1> SUFFICES ASSUME SettingsTypes PROVE Set!TypeOK
  OBVIOUS
<1>1. \A a \in Admins : admin[a].pc \in {"idle", "put", "load", "site", "onec", "token"}
  BY DEF SettingsTypes, PanelRows
<1>2. \A t \in Ticks : tick[t].pc \in {"idle", "load", "write"}
  BY DEF SettingsTypes, TickRows
<1>3. QED
  BY <1>1, <1>2, Zenon DEF SettingsTypes, Set!TypeOK, SavedRows, PullRows

\* A key of the settings is saved.
LEMMA SavedTyped ==
    ASSUME SettingsTypes, NEW key, NEW value, Set!Save(key, value),
           \/ key \in {"url", "onec"} /\ value \in Set!Value
           \/ key = "number" /\ value \in Numbers \union {None}
    PROVE  saved' \in SavedRows /\ since' \in [Ticks \union {"catalogue"} -> SUBSET Set!Value]
<1>1. saved \in SavedRows /\ since \in [Ticks \union {"catalogue"} -> SUBSET Set!Value]
  BY DEF SettingsTypes
<1>2. saved' = [saved EXCEPT ![key] = value]
  BY DEF Set!Save
<1>3. saved' \in SavedRows
  BY <1>1, <1>2 DEF SavedRows
<1>4. \A t \in Ticks \union {"catalogue"} :
         since'[t] = since[t] \/ (since'[t] = since[t] \union {value} /\ key \in {"url", "onec"})
  BY <1>1 DEF Set!Save
<1>5. DOMAIN since' = Ticks \union {"catalogue"} /\ since' = [t \in DOMAIN since' |-> since'[t]]
  BY <1>1 DEF Set!Save
<1>6. since' \in [Ticks \union {"catalogue"} -> SUBSET Set!Value]
  BY <1>1, <1>4, <1>5
<1>7. QED
  BY <1>3, <1>6

LEMMA RequestTyped ==
    ASSUME SettingsTypes, NEW a \in Admins,
           \/ \E p \in Patches : Set!PutSettings(a, p)
           \/ Set!GetAdmin(a) \/ Set!SaveKey(a) \/ Set!ReadSite(a) \/ Set!SetSite(a)
           \/ Set!PutOnec(a) \/ Set!GetOnec(a) \/ Set!SyncNow(a) \/ Set!ReadOnec(a) \/ Set!SetOnec(a)
    PROVE  SettingsTypes'
<1>0. /\ saved \in SavedRows /\ saved["url"] \in Set!Value /\ saved["onec"] \in Set!Value
      /\ site \in [Set!Procs -> Set!Value] /\ onec \in [Set!Procs -> Set!Value]
      /\ admin \in [Admins -> PanelRows] /\ tick \in [Ticks -> TickRows]
      /\ catalogue \in PullRows /\ interval \in Numbers \union {None}
      /\ since \in [Ticks \union {"catalogue"} -> SUBSET Set!Value]
      /\ saves \in 0 .. MaxSaves /\ starts \in 0 .. MaxStarts
      /\ aborted \in BOOLEAN /\ overlaps \in BOOLEAN /\ loaded \in BOOLEAN
      /\ admin[a] \in PanelRows /\ admin[a].read \in Set!Value
      /\ Set!NoRequest \in PanelRows /\ MaxSaves \in Nat
  BY NothingUnderWay, BoundsAssumption DEF SettingsTypes, SavedRows, PanelRows
<1> DEFINE Rest == UNCHANGED <<tick, catalogue, interval, starts>>
<1>1. ASSUME NEW w \in PanelRows, Set!Begin(a, w),
             saved' \in SavedRows, since' \in [Ticks \union {"catalogue"} -> SUBSET Set!Value]
      PROVE  SettingsTypes'
  <2>1. /\ saves < MaxSaves /\ saves' = saves + 1 /\ admin' = [admin EXCEPT ![a] = w]
        /\ UNCHANGED <<site, onec, tick, catalogue, interval, starts, aborted, loaded>>
    BY <1>1 DEF Set!Begin
  <2>2. overlaps' \in BOOLEAN
    BY <1>0, <1>1 DEF Set!Begin
  <2>3. saves' \in 0 .. MaxSaves /\ admin' \in [Admins -> PanelRows]
    BY <1>0, <2>1
  <2>4. QED
    BY <1>0, <1>1, <2>1, <2>2, <2>3, Zenon DEF SettingsTypes
<1>2. ASSUME NEW w \in PanelRows, admin' = [admin EXCEPT ![a] = w], Rest, saves' = saves, overlaps' = overlaps,
             aborted' \in BOOLEAN, loaded' \in BOOLEAN, saved' \in SavedRows,
             since' \in [Ticks \union {"catalogue"} -> SUBSET Set!Value],
             site' \in [Set!Procs -> Set!Value], onec' \in [Set!Procs -> Set!Value]
      PROVE  SettingsTypes'
  <2>1. admin' \in [Admins -> PanelRows]
    BY <1>0, <1>2
  <2>2. QED
    BY <1>0, <1>2, <2>1, Zenon DEF SettingsTypes
<1>3. ASSUME NEW p \in Patches, Set!PutSettings(a, p) PROVE SettingsTypes'
  <2> DEFINE w == [Set!NoRequest EXCEPT !.pc = "put", !.left = p]
  <2>1. w \in PanelRows
    BY <1>0, ServicesAssumption DEF Set!NoRequest, PanelRows
  <2>2. Set!Begin(a, w) /\ UNCHANGED <<saved, since>>
    BY <1>3 DEF Set!PutSettings
  <2> HIDE DEF w
  <2>3. QED
    BY <1>0, <1>1, <2>1, <2>2
<1>4. CASE Set!GetAdmin(a)
  <2> DEFINE w == [Set!NoRequest EXCEPT !.pc = "load"]
  <2>1. w \in PanelRows
    BY <1>0 DEF Set!NoRequest, PanelRows
  <2>2. Set!Begin(a, w) /\ UNCHANGED <<saved, since>>
    BY <1>4 DEF Set!GetAdmin
  <2> HIDE DEF w
  <2>3. QED
    BY <1>0, <1>1, <2>1, <2>2
<1>5. CASE Set!SaveKey(a)
  <2> DEFINE key == Head(admin[a].left)[1]
             value == Head(admin[a].left)[2]
             kept == IF value = Empty THEN None ELSE value
             on == [admin[a] EXCEPT !.left = Tail(admin[a].left)]
  <2>1. admin[a].left \in Seq(Set!Entries) /\ admin[a].left # <<>>
    BY <1>0, <1>5 DEF Set!SaveKey, PanelRows
  <2>2. Head(admin[a].left) \in Set!Entries /\ Tail(admin[a].left) \in Seq(Set!Entries)
    BY <2>1, HeadTailProperties
  <2>3. on \in PanelRows
    BY <1>0, <2>2 DEF PanelRows
  <2>4. /\ key = "url" => value \in Urls \union {Bad, Empty}
        /\ key # "url" => key = "number" /\ value \in Numbers \union {Bad, Empty}
    BY <2>2 DEF Set!Entries
  <2>5. CASE key = "number" /\ value \in {Bad, Empty}
    <3>1. admin' = [admin EXCEPT ![a] = Set!NoRequest] /\ aborted' /\ UNCHANGED <<saved, since, saves, overlaps, site, onec>>
          /\ Rest /\ loaded' = loaded
      BY <1>5, <2>5 DEF Set!SaveKey
    <3>2. aborted' \in BOOLEAN
      BY <1>5, <2>5 DEF Set!SaveKey
    <3>3. QED
      BY <1>0, <1>2, <3>1, <3>2
  <2>6. CASE ~(key = "number" /\ value \in {Bad, Empty})
    <3>1. /\ admin' = [admin EXCEPT ![a] = on] /\ Rest /\ UNCHANGED <<saves, overlaps, site, onec, aborted, loaded>>
          /\ IF value = Bad THEN UNCHANGED <<saved, since>> ELSE Set!Save(key, kept)
      BY <1>5, <2>6 DEF Set!SaveKey
    <3>2. value # Bad => (key = "url" /\ kept \in Set!Value) \/ (key = "number" /\ kept \in Numbers \union {None})
      BY <2>4, <2>6 DEF Set!Value
    <3> HIDE DEF key, kept, on, value
    <3>3. saved' \in SavedRows /\ since' \in [Ticks \union {"catalogue"} -> SUBSET Set!Value]
      BY <1>0, <3>1, <3>2, SavedTyped
    <3>4. QED
      BY <1>0, <1>2, <2>3, <3>1, <3>3
  <2>7. QED
    BY <2>5, <2>6
<1>6. CASE Set!ReadSite(a) \/ Set!ReadOnec(a)
  <2> DEFINE w == [Set!NoRequest EXCEPT !.pc = "site", !.read = saved["url"]]
             v == [Set!NoRequest EXCEPT !.pc = "onec", !.read = saved["onec"]]
  <2>1. w \in PanelRows /\ v \in PanelRows
    BY <1>0 DEF Set!NoRequest, PanelRows
  <2>2. /\ admin' = [admin EXCEPT ![a] = w] \/ admin' = [admin EXCEPT ![a] = v]
        /\ Rest /\ UNCHANGED <<saved, since, saves, overlaps, site, onec, aborted, loaded>>
    BY <1>6 DEF Set!ReadSite, Set!ReadOnec
  <2> HIDE DEF w, v
  <2>3. QED
    BY <1>0, <1>2, <2>1, <2>2
<1>7. CASE Set!SetSite(a) \/ Set!SetOnec(a)
  <2>1. /\ admin' = [admin EXCEPT ![a] = Set!NoRequest]
        /\ Rest /\ UNCHANGED <<saved, since, saves, overlaps>>
        /\ \/ site' = [site EXCEPT !["web"] = admin[a].read] /\ onec' = onec
           \/ onec' = [onec EXCEPT !["web"] = admin[a].read] /\ site' = site
    BY <1>7 DEF Set!SetSite, Set!SetOnec
  <2>2. aborted' \in BOOLEAN /\ loaded' \in BOOLEAN
    BY <1>0, <1>7 DEF Set!SetSite, Set!SetOnec
  <2>3. site' \in [Set!Procs -> Set!Value] /\ onec' \in [Set!Procs -> Set!Value]
    BY <1>0, <2>1
  <2>4. QED
    BY <1>0, <1>2, <2>1, <2>2, <2>3
<1>8. CASE Set!PutOnec(a)
  <2> DEFINE w == [Set!NoRequest EXCEPT !.pc = "token"]
  <2>1. w \in PanelRows
    BY <1>0 DEF Set!NoRequest, PanelRows
  <2>2. PICK value \in Set!Value : Set!Begin(a, w) /\ Set!Save("onec", value)
    BY <1>8 DEF Set!PutOnec
  <2> HIDE DEF w
  <2>3. saved' \in SavedRows /\ since' \in [Ticks \union {"catalogue"} -> SUBSET Set!Value]
    BY <2>2, SavedTyped
  <2>4. QED
    BY <1>0, <1>1, <2>1, <2>2, <2>3
<1>9. CASE Set!GetOnec(a) \/ Set!SyncNow(a)
  <2> DEFINE w == [Set!NoRequest EXCEPT !.pc = "token"]
  <2>1. w \in PanelRows
    BY <1>0 DEF Set!NoRequest, PanelRows
  <2>2. Set!Begin(a, w) /\ UNCHANGED <<saved, since>>
    BY <1>9 DEF Set!GetOnec, Set!SyncNow
  <2> HIDE DEF w
  <2>3. QED
    BY <1>0, <1>1, <2>1, <2>2
<1>10. QED
  BY <1>3, <1>4, <1>5, <1>6, <1>7, <1>8, <1>9

LEMMA WebTyped == ASSUME SettingsTypes, Set!WebStarts PROVE SettingsTypes'
<1>1. /\ saved["url"] \in Set!Value /\ MaxSaves \in Nat /\ saves \in 0 .. MaxSaves
      /\ site \in [Set!Procs -> Set!Value] /\ onec \in [Set!Procs -> Set!Value]
  BY BoundsAssumption DEF SettingsTypes, SavedRows
<1>2. PICK v \in Set!Value : site' = [site EXCEPT !["web"] = v]
  BY <1>1, NothingUnderWay DEF Set!WebStarts
<1>3. /\ saves < MaxSaves /\ saves' = saves + 1 /\ aborted' \in BOOLEAN
      /\ onec' = [onec EXCEPT !["web"] = None] /\ loaded' = FALSE /\ overlaps' = FALSE
      /\ admin' = [a \in Admins |-> Set!NoRequest]
      /\ UNCHANGED <<saved, tick, catalogue, interval, since, starts>>
  BY DEF Set!WebStarts
<1>4. /\ site' \in [Set!Procs -> Set!Value] /\ onec' \in [Set!Procs -> Set!Value]
      /\ admin' \in [Admins -> PanelRows] /\ saves' \in 0 .. MaxSaves
  <2>1. site' \in [Set!Procs -> Set!Value]
    BY <1>1, <1>2
  <2>2. onec' \in [Set!Procs -> Set!Value]
    BY <1>1, <1>3, NothingUnderWay
  <2>3. admin' \in [Admins -> PanelRows]
    BY <1>3, NothingUnderWay
  <2>4. saves' \in 0 .. MaxSaves
    BY <1>1, <1>3
  <2>5. QED
    BY <2>1, <2>2, <2>3, <2>4
<1>5. loaded' \in BOOLEAN /\ overlaps' \in BOOLEAN
  BY <1>3
<1>6. QED
  BY <1>3, <1>4, <1>5, Zenon DEF SettingsTypes

LEMMA WorkerTyped ==
    ASSUME SettingsTypes,
           \/ Set!WorkerStarts \/ Set!PullReads \/ Set!PullLoads \/ Set!PullEnds
           \/ \E t \in Ticks : Set!TickReads(t) \/ Set!TickLoads(t) \/ Set!TickEnds(t)
    PROVE  SettingsTypes'
<1>0. /\ saved \in SavedRows /\ saved["url"] \in Set!Value /\ saved["onec"] \in Set!Value
      /\ saved["number"] \in Numbers \union {None}
      /\ site \in [Set!Procs -> Set!Value] /\ onec \in [Set!Procs -> Set!Value]
      /\ admin \in [Admins -> PanelRows] /\ tick \in [Ticks -> TickRows]
      /\ catalogue \in PullRows /\ interval \in Numbers \union {None}
      /\ since \in [Ticks \union {"catalogue"} -> SUBSET Set!Value]
      /\ saves \in 0 .. MaxSaves /\ starts \in 0 .. MaxStarts
      /\ aborted \in BOOLEAN /\ overlaps \in BOOLEAN /\ loaded \in BOOLEAN
      /\ Set!NoTick \in TickRows /\ MaxStarts \in Nat /\ None \in Set!Value
      /\ \A t \in Ticks : tick[t] \in TickRows /\ tick[t].read \in Set!Value
  BY NothingUnderWay, BoundsAssumption DEF SettingsTypes, SavedRows, TickRows
<1> DEFINE Panel == UNCHANGED <<saved, admin, saves, aborted, overlaps, loaded>>
<1>1. CASE Set!WorkerStarts
  <2>1. /\ Panel /\ since' = since /\ starts < MaxStarts /\ starts' = starts + 1 /\ interval' = saved["number"]
        /\ site' = [site EXCEPT !["worker"] = None] /\ onec' = [onec EXCEPT !["worker"] = saved["onec"]]
        /\ tick' = [t \in Ticks |-> Set!NoTick]
        /\ catalogue' \in PullRows
    BY <1>0, <1>1 DEF Set!WorkerStarts, PullRows
  <2>2. site' \in [Set!Procs -> Set!Value] /\ onec' \in [Set!Procs -> Set!Value]
    BY <1>0, <2>1
  <2>3. starts' \in 0 .. MaxStarts
    BY <1>0, <2>1
  <2>4. tick' \in [Ticks -> TickRows]
    BY <1>0, <2>1
  <2>5. QED
    BY <1>0, <2>1, <2>2, <2>3, <2>4, Zenon DEF SettingsTypes
<1>2. ASSUME NEW t \in Ticks, Set!TickReads(t) \/ Set!TickLoads(t) \/ Set!TickEnds(t) PROVE SettingsTypes'
  <2> DEFINE w == [pc |-> "load", read |-> saved["url"]]
             v == [tick[t] EXCEPT !.pc = "write"]
             reads == {tick[q].read : q \in {x \in Ticks : tick[x].pc = "load"}}
  <2>1. w \in TickRows /\ v \in TickRows /\ reads \subseteq Set!Value
    BY <1>0, <1>2 DEF TickRows
  <2>2. Panel /\ UNCHANGED <<onec, catalogue, interval, starts>>
    BY <1>2 DEF Set!TickReads, Set!TickLoads, Set!TickEnds
  <2>3. /\ tick' = [tick EXCEPT ![t] = w] \/ tick' = [tick EXCEPT ![t] = v] \/ tick' = [tick EXCEPT ![t] = Set!NoTick]
        /\ site' = site \/ site' = [site EXCEPT !["worker"] = tick[t].read]
        /\ \/ since' = since \/ since' = [since EXCEPT ![t] = {}]
           \/ since' = [since EXCEPT ![t] = {saved["url"]} \union reads]
    BY <1>2 DEF Set!TickReads, Set!TickLoads, Set!TickEnds
  <2> HIDE DEF w, v, reads
  <2>4. tick' \in [Ticks -> TickRows]
    BY <1>0, <2>1, <2>3
  <2>5. site' \in [Set!Procs -> Set!Value]
    BY <1>0, <2>3
  <2>6. since' \in [Ticks \union {"catalogue"} -> SUBSET Set!Value]
    BY <1>0, <2>1, <2>3
  <2>7. QED
    BY <1>0, <2>2, <2>4, <2>5, <2>6, Zenon DEF SettingsTypes
<1>3. CASE Set!PullReads \/ Set!PullLoads \/ Set!PullEnds
  <2>1. Panel /\ UNCHANGED <<site, tick, interval, starts>>
    BY <1>3 DEF Set!PullReads, Set!PullLoads, Set!PullEnds
  <2>2. catalogue' \in PullRows
    BY <1>0, <1>3 DEF Set!PullReads, Set!PullLoads, Set!PullEnds, PullRows
  <2>3. /\ since' = since \/ since' = [since EXCEPT !["catalogue"] = {saved["onec"]}] \/ since' = [since EXCEPT !["catalogue"] = {}]
        /\ onec' = onec \/ onec' = [onec EXCEPT !["worker"] = catalogue.read]
    BY <1>3 DEF Set!PullReads, Set!PullLoads, Set!PullEnds
  <2>4. since' \in [Ticks \union {"catalogue"} -> SUBSET Set!Value] /\ onec' \in [Set!Procs -> Set!Value]
    BY <1>0, <2>3 DEF PullRows
  <2>5. QED
    BY <1>0, <2>1, <2>2, <2>4, Zenon DEF SettingsTypes
<1>4. QED
  BY <1>1, <1>2, <1>3

LEMMA SettingsTypesKept == ASSUME SettingsTypes, Set!Next \/ UNCHANGED st PROVE SettingsTypes'
<1>1. CASE UNCHANGED st
  BY <1>1 DEF SettingsTypes, st
<1>2. QED
  BY <1>1, RequestTyped, WebTyped, WorkerTyped DEF Set!Next

\* A request to the transports that has just begun has counted nothing.
NothingCounted == job.pc \in {"idle", "live"} => job.sent = 0 /\ job.failed = 0

LEMMA NothingCountedKept == ASSUME MailInv, NothingCounted, Mail!Next \/ UNCHANGED mt PROVE NothingCounted'
<1>1. job \in JobRows /\ (job.pc = "live" => job.sent = 0)
  BY DEF MailInv, MailTypes, Counted
<1>2. ASSUME NEW kind, Mail!Press(kind) PROVE NothingCounted'
  BY <1>2 DEF Mail!Press, Mail!Idle, NothingCounted
<1>3. CASE Mail!Answer
  BY <1>3 DEF Mail!Answer, Mail!Idle, NothingCounted
<1>4. CASE job' = job
  BY <1>4 DEF NothingCounted
<1>5. CASE job'.pc \in {"send", "post", "reply"}
  BY <1>5 DEF NothingCounted
<1>6. \A ok : Mail!Done(ok).pc \in {"send", "post", "reply"}
  BY <1>1 DEF Mail!Done, JobRows
<1>7. CASE Mail!LooksLive
  <2>1. job'.pc \in {"send", "post", "reply"}
    BY <1>1, <1>7 DEF Mail!LooksLive, JobRows
  <2>2. QED
    BY <1>5, <2>1
<1>8. CASE Mail!NoRecipient \/ Mail!SendmailRefuses \/ Mail!SendmailTakes \/ Mail!DirectSend
  <2>1. \E ok : job' = Mail!Done(ok)
    BY <1>8 DEF Mail!NoRecipient, Mail!SendmailRefuses, Mail!SendmailTakes, Mail!DirectSend
  <2>2. QED
    BY <1>5, <1>6, <2>1
<1>9. CASE Mail!ServiceTakes \/ Mail!ServiceBreaksOff \/ Mail!ServiceFails
  <2>1. job'.pc \in {"send", "post", "reply"}
    BY <1>1, <1>9 DEF Mail!ServiceTakes, Mail!ServiceBreaksOff, Mail!ServiceFails, JobRows
  <2>2. QED
    BY <1>5, <2>1
<1>10. CASE Mail!ProviderChanges \/ Mail!MtaSwitches \/ UNCHANGED mt
  BY <1>4, <1>10 DEF Mail!ProviderChanges, Mail!MtaSwitches, mt
<1>11. QED
  BY <1>2, <1>3, <1>7, <1>8, <1>9, <1>10 DEF Mail!Next

\* The transports keep their types, and presses and faults their bounds.
MailKinds ==
    /\ env \in Mail!Envs /\ provider \in {"smtp", "sendmail", "dev", "down"} /\ mta \in BOOLEAN
    /\ presses \in 0 .. MaxPresses /\ mailFaults \in 0 .. MailFaults

LEMMA MailKindsBegin == Mail!Init => MailKinds
<1> SUFFICES ASSUME Mail!Init PROVE MailKinds
  OBVIOUS
<1>1. env \in Mail!Envs /\ provider \in {"smtp", "sendmail", "dev", "down"} /\ mta \in BOOLEAN
  BY DEF Mail!Init
<1>2. presses \in 0 .. MaxPresses /\ mailFaults \in 0 .. MailFaults
  BY BoundsAssumption DEF Mail!Init
<1>3. QED
  BY <1>1, <1>2 DEF MailKinds

LEMMA MailKindsKept == ASSUME MailKinds, Mail!Next \/ UNCHANGED mt PROVE MailKinds'
<1>1. env' = env
  BY DEF mt, Mail!Next, Mail!Press, Mail!LooksLive, Mail!NoRecipient, Mail!SendmailRefuses, Mail!SendmailTakes,
         Mail!DirectSend, Mail!ServiceTakes, Mail!ServiceBreaksOff, Mail!ServiceFails, Mail!Answer,
         Mail!ProviderChanges, Mail!MtaSwitches
<1>2. provider' = provider \/ provider' \in {"smtp", "sendmail", "dev", "down"} \ {provider}
  BY DEF mt, Mail!Next, Mail!Press, Mail!LooksLive, Mail!NoRecipient, Mail!SendmailRefuses, Mail!SendmailTakes,
         Mail!DirectSend, Mail!ServiceTakes, Mail!ServiceBreaksOff, Mail!ServiceFails, Mail!Answer,
         Mail!ProviderChanges, Mail!MtaSwitches
<1>3. mta' = mta \/ mta' = FALSE \/ mta' = ~mta
  BY Zenon DEF mt, Mail!Next, Mail!Press, Mail!LooksLive, Mail!NoRecipient, Mail!SendmailRefuses, Mail!SendmailTakes,
         Mail!DirectSend, Mail!ServiceTakes, Mail!ServiceBreaksOff, Mail!ServiceFails, Mail!Answer,
         Mail!ProviderChanges, Mail!MtaSwitches
<1>4. presses' = presses \/ (presses < MaxPresses /\ presses' = presses + 1)
  BY DEF mt, Mail!Next, Mail!Press, Mail!LooksLive, Mail!NoRecipient, Mail!SendmailRefuses, Mail!SendmailTakes,
         Mail!DirectSend, Mail!ServiceTakes, Mail!ServiceBreaksOff, Mail!ServiceFails, Mail!Answer,
         Mail!ProviderChanges, Mail!MtaSwitches
<1>5. mailFaults' = mailFaults \/ (mailFaults < MailFaults /\ mailFaults' = mailFaults + 1)
  BY DEF mt, Mail!Next, Mail!Press, Mail!LooksLive, Mail!NoRecipient, Mail!SendmailRefuses, Mail!SendmailTakes,
         Mail!DirectSend, Mail!ServiceTakes, Mail!ServiceBreaksOff, Mail!ServiceFails, Mail!Answer,
         Mail!ProviderChanges, Mail!MtaSwitches, Mail!Fault
<1>6. presses' \in 0 .. MaxPresses
  <2>1. presses \in 0 .. MaxPresses /\ MaxPresses \in Nat
    BY BoundsAssumption DEF MailKinds
  <2>2. QED
    BY <1>4, <2>1
<1>7. mailFaults' \in 0 .. MailFaults
  <2>1. mailFaults \in 0 .. MailFaults /\ MailFaults \in Nat
    BY BoundsAssumption DEF MailKinds
  <2>2. QED
    BY <1>5, <2>1
<1>8. mta' \in BOOLEAN
  BY <1>3, Zenon DEF MailKinds
<1>9. env' \in Mail!Envs /\ provider' \in {"smtp", "sendmail", "dev", "down"}
  BY <1>1, <1>2 DEF MailKinds
<1>10. QED
  BY <1>6, <1>7, <1>8, <1>9, Zenon DEF MailKinds

LEMMA MailTyped == ASSUME MailInv, NothingCounted, MailKinds PROVE Mail!TypeOK
<1>1. /\ job \in JobRows /\ Len(job.msgs) \in Nat
      /\ copies \in [1 .. Len(job.msgs) -> Nat] /\ real \in [1 .. Len(job.msgs) -> Nat]
  BY DEF MailInv, MailTypes, JobRows, Places
<1>2. job.pc \in {"idle", "live", "send", "post", "reply"} /\ job.sent \in Nat /\ job.failed \in Nat
  BY <1>1 DEF JobRows, JobStages
<1>3. Addressed \in Nat
  <2>1. Mail!Filled \subseteq 1 .. Len(job.msgs)
    BY <1>1 DEF Mail!Filled, JobRows
  <2>2. IsFiniteSet(1 .. Len(job.msgs))
    BY <1>1, FS_Interval
  <2>3. IsFiniteSet(Mail!Filled)
    BY <2>1, <2>2, FS_Subset
  <2>4. QED
    BY <2>3, FS_CardinalityType DEF Addressed
<1>4. job.sent + job.failed <= Len(job.msgs)
  <2>1. CASE job.pc \in {"idle", "live"}
    BY <1>1, <1>2, <2>1 DEF NothingCounted
  <2>2. CASE job.pc = "send"
    <3>1. job.sent + job.failed = job.at /\ job.at < Len(job.msgs) /\ job.at \in Nat
      BY <1>1, <2>2 DEF MailInv, Counted, JobRows
    <3>2. QED
      BY <1>1, <3>1
  <2>3. CASE job.pc = "post"
    <3>1. job.sent = 0 /\ job.failed + Addressed = Len(job.msgs)
      BY <2>3 DEF MailInv, Counted
    <3>2. QED
      BY <1>1, <1>2, <1>3, <3>1
  <2>4. CASE job.pc = "reply"
    <3>1. job.sent + job.failed = Len(job.msgs)
      BY <2>4 DEF MailInv, Counted
    <3>2. QED
      BY <1>1, <3>1
  <2>5. QED
    BY <1>2, <2>1, <2>2, <2>3, <2>4
<1>5. Len(copies) = Len(job.msgs) /\ DOMAIN copies = 1 .. Len(job.msgs)
  BY <1>1
<1>6. \A i \in DOMAIN copies : real[i] <= copies[i]
  BY <1>5 DEF MailInv, Paid, Places
<1>7. QED
  BY <1>2, <1>4, <1>5, <1>6, Zenon DEF MailKinds, Mail!TypeOK

PanelsTyped == Tpl!TypeOK /\ Set!TypeOK /\ Mail!TypeOK

\* The template library, the settings and the transports keep their types.
LEMMA PanelTypesKept == Spec => []PanelsTyped
<1> DEFINE I == SettingsTypes /\ MailInv /\ NothingCounted /\ MailKinds
<1>1. Init => I
  BY SettingsTypesBegin, MailBegins, MailKindsBegin DEF Init, Mail!Init, Mail!Idle, NothingCounted
<1>2. I /\ [Next]_vars => I'
  BY SettingsAlone, SettingsTypesKept, MailAlone, MailKept, NothingCountedKept, MailKindsKept
<1>3. I => Set!TypeOK /\ Mail!TypeOK
  BY SettingsParts, MailTyped
<1> HIDE DEF I
<1>4. QED
  BY <1>1, <1>2, <1>3, TemplatesAlways, PTL DEF Spec, PanelsTyped, TplInv
=================================================================================
