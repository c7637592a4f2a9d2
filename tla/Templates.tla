------------------------------ MODULE Templates ------------------------------
(***************************************************************************)
(* The template library of the admin panel (app/admin.py): templates are   *)
(* drafts or attached to a scenario, at most one of a scenario is active   *)
(* (unique index email_templates_active_ux), and a scenario without an     *)
(* active one is mailed with the built-in blocks.  Requests of several     *)
(* admins interleave between their statements, also inside a transaction   *)
(* (READ COMMITTED): tpl is what is committed, the rows a transaction has  *)
(* written are locked until it ends.  What the index refuses ends its      *)
(* request, and its transaction changes nothing.                           *)
(***************************************************************************)
EXTENDS Naturals, FiniteSets

CONSTANTS
    Ids,       \* ids of templates
    Services,  \* scenarios
    Requests,  \* concurrent requests of admins
    None,      \* null: a draft; no active template
    Gone       \* not there (yet, or any more)

VARIABLES
    tpl,       \* email_templates: service and is_active
    req        \* create, attach and activate between their statements

vars == <<tpl, req>>

Idle == [pc |-> "idle", tid |-> None, service |-> None, active |-> FALSE, locks |-> {}]

TypeOK ==
    /\ tpl \in [Ids -> [service : Services \union {None, Gone}, active : BOOLEAN]]
    /\ req \in [Requests -> [pc : {"idle", "create", "attach", "activate", "set"}, tid : Ids \union {None},
                             service : Services \union {None}, active : BOOLEAN, locks : SUBSET Ids]]

Init ==
    /\ tpl = [t \in Ids |-> [service |-> Gone, active |-> FALSE]]
    /\ req = [q \in Requests |-> Idle]

ActiveOf(table, s) == {t \in Ids : table[t].service = s /\ table[t].active}

\* app_settings.active_template: what a tick renders with.
active_template(s) == IF ActiveOf(tpl, s) = {} THEN None ELSE CHOOSE t \in ActiveOf(tpl, s) : TRUE

\* The rows q can write now: no other transaction holds them.
Free(q) == {t \in Ids : \A p \in Requests \ {q} : t \notin req[p].locks}

\* What is written is committed, unless the unique index refuses it.
Commit(table) ==
    tpl' = IF \A s \in Services : Cardinality(ActiveOf(table, s)) <= 1 THEN table ELSE tpl

\* create_template: look whether the scenario has an active template ...
CreateLooks(q) ==
    /\ req[q].pc = "idle"
    /\ \E s \in Services \union {None} :
        req' = [req EXCEPT ![q] = [Idle EXCEPT !.pc = "create", !.service = s,
                                   !.active = s # None /\ active_template(s) = None]]
    /\ UNCHANGED tpl

\* ... and insert with what was seen.
CreateInserts(q) ==
    /\ req[q].pc = "create"
    /\ \E t \in Ids :
        /\ tpl[t].service = Gone /\ \A p \in Requests : req[p].tid # t  \* a new id
        /\ Commit([tpl EXCEPT ![t] = [service |-> req[q].service, active |-> req[q].active]])
    /\ req' = [req EXCEPT ![q] = Idle]

\* attach_template: another scenario, or none; active if nothing else there is
\* when it looks ...
AttachLooks(q, t, s) ==
    /\ req[q].pc = "idle" /\ tpl[t].service # Gone
    /\ req' = [req EXCEPT ![q] = [Idle EXCEPT !.pc = "attach", !.tid = t, !.service = s,
                                  !.active = s # None /\ ActiveOf(tpl, s) \ {t} = {}]]
    /\ UNCHANGED tpl

\* Mutant: whatever is attached starts inactive.
AttachWritesInactive(q) ==
    /\ req[q].pc = "attach" /\ req[q].tid \in Free(q)
    /\ IF tpl[req[q].tid].service = Gone THEN UNCHANGED tpl
       ELSE Commit([tpl EXCEPT ![req[q].tid] = [service |-> req[q].service, active |-> FALSE]])
    /\ req' = [req EXCEPT ![q] = Idle]

\* ... and written with what was seen, if the template is still there.
AttachWrites(q) ==
    /\ req[q].pc = "attach" /\ req[q].tid \in Free(q)
    /\ IF tpl[req[q].tid].service = Gone THEN UNCHANGED tpl
       ELSE Commit([tpl EXCEPT ![req[q].tid] = [service |-> req[q].service, active |-> req[q].active]])
    /\ req' = [req EXCEPT ![q] = Idle]

\* activate_template: the scenario is read before the transaction ...
ActivateLooks(q, t) ==
    /\ req[q].pc = "idle" /\ tpl[t].service \notin {None, Gone}
    /\ req' = [req EXCEPT ![q] = [Idle EXCEPT !.pc = "activate", !.tid = t, !.service = tpl[t].service]]
    /\ UNCHANGED tpl

\* ... which makes all of the scenario inactive ...
ActivateClears(q) ==
    LET rows == {t \in Ids : tpl[t].service = req[q].service}
    IN  /\ req[q].pc = "activate" /\ rows \subseteq Free(q)
        /\ req' = [req EXCEPT ![q].pc = "set", ![q].locks = rows]
        /\ UNCHANGED tpl

\* ... and this one active, wherever it is by now.
ActivateCommits(q) ==
    /\ req[q].pc = "set" /\ req[q].tid \in Free(q)
    /\ Commit([t \in Ids |->
                 IF t = req[q].tid /\ tpl[t].service # Gone THEN [tpl[t] EXCEPT !.active = TRUE]
                 ELSE IF t \in req[q].locks THEN [tpl[t] EXCEPT !.active = FALSE]
                 ELSE tpl[t]])
    /\ req' = [req EXCEPT ![q] = Idle]

\* The transaction is rolled back: a deadlock with another, a lost connection.
ActivateFails(q) ==
    /\ req[q].pc = "set"
    /\ req' = [req EXCEPT ![q] = Idle]
    /\ UNCHANGED tpl

Delete(t) ==
    /\ tpl[t].service # Gone /\ \A p \in Requests : t \notin req[p].locks
    /\ tpl' = [tpl EXCEPT ![t] = [service |-> Gone, active |-> FALSE]]
    /\ UNCHANGED req

Next ==
    \/ \E q \in Requests : \/ CreateLooks(q) \/ CreateInserts(q) \/ AttachWrites(q)
                           \/ ActivateClears(q) \/ ActivateCommits(q) \/ ActivateFails(q)
                           \/ \E t \in Ids : \/ ActivateLooks(q, t)
                                             \/ \E s \in Services \union {None} : AttachLooks(q, t, s)
    \/ \E t \in Ids : Delete(t)

Spec == Init /\ [][Next]_vars

-----------------------------------------------------------------------------
\* A scenario falls back to the built-in letter in three ways only: its active
\* template is deleted or moved; the template being activated was, before the
\* transaction of activate_template took its rows; or attach_template writes to
\* the active template of the scenario that another one is active, as it was
\* when the request looked.
ActiveLostOnlyByRemoval ==
    [][\A s \in Services : active_template(s) # None /\ active_template(s)' = None =>
          \/ tpl'[active_template(s)].service # s
          \/ \E q \in Requests : req[q].pc = "set" /\ req[q].service = s
                                 /\ tpl[req[q].tid].service # s
          \/ \E q \in Requests : req[q].pc = "attach" /\ req[q].service = s /\ ~req[q].active
                                 /\ req[q].tid = active_template(s)]_vars

=============================================================================
