-------------------------------- MODULE Settings --------------------------------
(***************************************************************************)
(* Settings that live in app_config and in the memory of two processes     *)
(* (app/app_settings.py, app/onec.py): the web process the admin saves     *)
(* with, and the worker whose ticks write the letters.  "url" is the       *)
(* address in every link of a letter, "onec" the address of 1C; both fall  *)
(* back to .env (None here).  "number" is a tick interval, read when the   *)
(* worker starts.  Loading is a query and, when its answer is there, an    *)
(* assignment; the ticks of the worker run in one process.                 *)
(***************************************************************************)
EXTENDS Naturals, Sequences, FiniteSets

CONSTANTS
    Urls,        \* addresses
    Numbers,     \* tick intervals
    Bad, Empty,  \* neither an address nor a number; nothing
    Admins,      \* concurrent requests of the admin panel
    Ticks,       \* loops of the worker that write letters
    None,        \* no row in app_config
    Patches,     \* bodies of PUT /settings: sequences of Entries
    EnvOnec,     \* onec_base_url of .env, or None
    MaxSaves, MaxStarts \* bounds: requests and starts of the web process, starts of the worker

Keys == {"url", "number", "onec"}
Procs == {"web", "worker"}

VARIABLES
    saved,     \* app_config
    site,      \* _site of each process: the url it last loaded
    onec,      \* _overrides of each process
    admin,     \* requests between their statements
    tick,      \* ticks of the worker: stage, answer of the query, address used
    catalogue, \* the catalogue loop: "absent", "off" between runs, or its stage
    interval,  \* the number the worker started with
    since,     \* history: addresses each tick, or pull, may use
    saves, starts, \* counters of the bounds
    aborted,   \* history: a request died after saving, or the web process could not
               \* read the addresses when it started, and nothing was loaded since
    overlaps,  \* history: requests of this web process have overlapped
    loaded     \* history: this web process has loaded _overrides

vars == <<saved, site, onec, admin, tick, catalogue, interval, since, saves, starts, aborted, overlaps, loaded>>

Value == Urls \union {None}

\* A key and what set_many makes of its value.
Entries == ({"url"} \X (Urls \union {Bad, Empty})) \union ({"number"} \X (Numbers \union {Bad, Empty}))
NoRequest == [pc |-> "idle", left |-> <<>>, read |-> None]
NoTick == [pc |-> "idle", read |-> None]

TypeOK ==
    /\ saved \in [url : Value, number : Numbers \union {None}, onec : Value]
    /\ site \in [Procs -> Value] /\ onec \in [Procs -> Value]
    /\ \A a \in Admins : admin[a].pc \in {"idle", "put", "load", "site", "onec", "token"}
    /\ \A t \in Ticks : tick[t].pc \in {"idle", "load", "write"}
    /\ catalogue \in [pc : {"absent", "idle", "load", "pull"}, read : Value]
    /\ interval \in Numbers \union {None}
    /\ since \in [Ticks \union {"catalogue"} -> SUBSET Value]
    /\ saves \in 0 .. MaxSaves /\ starts \in 0 .. MaxStarts
    /\ aborted \in BOOLEAN /\ overlaps \in BOOLEAN /\ loaded \in BOOLEAN

Init ==
    /\ saved = [k \in Keys |-> None]
    /\ site = [p \in Procs |-> None] /\ onec = [p \in Procs |-> None]
    /\ admin = [a \in Admins |-> NoRequest] /\ tick = [t \in Ticks |-> NoTick]
    /\ catalogue = [pc |-> "absent", read |-> None] /\ interval = None
    /\ since = [t \in Ticks \union {"catalogue"} |-> {}]
    /\ saves = 0 /\ starts = 0 /\ aborted = FALSE /\ overlaps = FALSE /\ loaded = FALSE

Effective(value) == IF value = None THEN EnvOnec ELSE value  \* onec.base_url

-----------------------------------------------------------------------------
Save(key, value) ==
    /\ saved' = [saved EXCEPT ![key] = value]
    /\ since' = [t \in DOMAIN since |->
                    IF key = (IF t = "catalogue" THEN "onec" ELSE "url") THEN since[t] \union {value}
                    ELSE since[t]]

Begin(a, request) ==
    /\ admin[a].pc = "idle" /\ saves < MaxSaves
    /\ saves' = saves + 1
    /\ admin' = [admin EXCEPT ![a] = request]
    /\ overlaps' = (overlaps \/ \E b \in Admins : admin[b].pc # "idle")
    /\ UNCHANGED <<site, onec, tick, catalogue, interval, starts, aborted, loaded>>

PutSettings(a, patch) ==
    Begin(a, [NoRequest EXCEPT !.pc = "put", !.left = patch]) /\ UNCHANGED <<saved, since>>

\* Pages of the panel that load the addresses before they show them.
GetAdmin(a) == Begin(a, [NoRequest EXCEPT !.pc = "load"]) /\ UNCHANGED <<saved, since>>

\* set_many, one key: a row, its removal, nothing (an address that is none), or
\* an exception that ends the request with the keys before it saved.
SaveKey(a) ==
    LET key == Head(admin[a].left)[1]
        value == Head(admin[a].left)[2]
        on == [admin EXCEPT ![a].left = Tail(@)]
    IN
    /\ admin[a].pc = "put" /\ admin[a].left # <<>>
    /\ IF key = "number" /\ value \in {Bad, Empty}
       THEN admin' = [admin EXCEPT ![a] = NoRequest] /\ aborted' = TRUE /\ UNCHANGED <<saved, since>>
       ELSE /\ admin' = on /\ UNCHANGED aborted
            /\ IF value = Bad THEN UNCHANGED <<saved, since>>
               ELSE Save(key, IF value = Empty THEN None ELSE value)
    /\ UNCHANGED <<site, onec, tick, catalogue, interval, saves, starts, overlaps, loaded>>

\* Mutant: set_many does not load.
ReadSiteLater(a) ==
    /\ admin[a].pc = "put" /\ admin[a].left = <<>>
    /\ admin' = [admin EXCEPT ![a] = NoRequest]
    /\ UNCHANGED <<saved, site, onec, tick, catalogue, interval, since, saves, starts, aborted, overlaps, loaded>>

\* load_site: the query ...
ReadSite(a) ==
    /\ admin[a].pc = "load" \/ (admin[a].pc = "put" /\ admin[a].left = <<>>)
    /\ admin' = [admin EXCEPT ![a] = [NoRequest EXCEPT !.pc = "site", !.read = saved["url"]]]
    /\ UNCHANGED <<saved, site, onec, tick, catalogue, interval, since, saves, starts, aborted, overlaps, loaded>>

\* ... and the assignment.
SetSite(a) ==
    /\ admin[a].pc = "site"
    /\ site' = [site EXCEPT !["web"] = admin[a].read]
    /\ admin' = [admin EXCEPT ![a] = NoRequest] /\ aborted' = FALSE
    /\ UNCHANGED <<saved, onec, tick, catalogue, interval, since, saves, starts, overlaps, loaded>>

\* put_onec_config: the address is stored or removed; then load_overrides.
PutOnec(a) ==
    /\ Begin(a, [NoRequest EXCEPT !.pc = "token"])
    /\ \E value \in Value : value # saved["onec"] /\ Save("onec", value)

\* Pages that load the address of 1C before they show or test it.
GetOnec(a) == Begin(a, [NoRequest EXCEPT !.pc = "token"]) /\ UNCHANGED <<saved, since>>

\* sync_catalog_now: refused if no address is in memory; sync_catalog then loads it.
SyncNow(a) == Effective(onec["web"]) # None /\ GetOnec(a)

ReadOnec(a) ==
    /\ admin[a].pc = "token"
    /\ admin' = [admin EXCEPT ![a] = [NoRequest EXCEPT !.pc = "onec", !.read = saved["onec"]]]
    /\ UNCHANGED <<saved, site, onec, tick, catalogue, interval, since, saves, starts, aborted, overlaps, loaded>>

SetOnec(a) ==
    /\ admin[a].pc = "onec"
    /\ onec' = [onec EXCEPT !["web"] = admin[a].read] /\ loaded' = TRUE
    /\ admin' = [admin EXCEPT ![a] = NoRequest]
    /\ UNCHANGED <<saved, site, tick, catalogue, interval, since, saves, starts, aborted, overlaps>>

\* main.lifespan: a new web process loads the site, if it can, and not the
\* address of 1C; the requests of the old one are gone.
WebStarts ==
    /\ saves < MaxSaves /\ saves' = saves + 1
    /\ \E failed \in BOOLEAN :
        /\ aborted' = failed
        /\ site' = [site EXCEPT !["web"] = IF failed THEN None ELSE saved["url"]]
    /\ onec' = [onec EXCEPT !["web"] = None] /\ loaded' = FALSE
    /\ admin' = [a \in Admins |-> NoRequest] /\ overlaps' = FALSE
    /\ UNCHANGED <<saved, tick, catalogue, interval, since, starts>>

-----------------------------------------------------------------------------
\* worker_loop.main: a new process, which runs the catalogue loop if 1C is
\* configured at that moment.
WorkerStarts ==
    /\ starts < MaxStarts
    /\ starts' = starts + 1
    /\ interval' = saved["number"]
    /\ site' = [site EXCEPT !["worker"] = None]
    /\ onec' = [onec EXCEPT !["worker"] = saved["onec"]]
    /\ tick' = [t \in Ticks |-> NoTick]
    /\ catalogue' = [pc |-> IF Effective(saved["onec"]) # None THEN "idle" ELSE "absent", read |-> None]
    /\ UNCHANGED <<saved, admin, since, saves, aborted, overlaps, loaded>>

\* Mutant: a tick goes by what the process has loaded before.
TickReadsNothing(t) ==
    /\ starts > 0 /\ tick[t].pc = "idle"
    /\ tick' = [tick EXCEPT ![t] = [pc |-> "write", read |-> None]]
    /\ since' = [since EXCEPT ![t] = {saved["url"]}]
    /\ UNCHANGED <<saved, site, onec, admin, catalogue, interval, saves, starts, aborted, overlaps, loaded>>

\* A tick begins with load_site and then writes letters.  A query of another
\* tick that is answered already may still be assigned after this one's.
TickReads(t) ==
    /\ starts > 0 /\ tick[t].pc = "idle"
    /\ tick' = [tick EXCEPT ![t] = [pc |-> "load", read |-> saved["url"]]]
    /\ since' = [since EXCEPT ![t] = {saved["url"]} \union
                    {tick[q].read : q \in {x \in Ticks : tick[x].pc = "load"}}]
    /\ UNCHANGED <<saved, site, onec, admin, catalogue, interval, saves, starts, aborted, overlaps, loaded>>

TickLoads(t) ==
    /\ tick[t].pc = "load"
    /\ site' = [site EXCEPT !["worker"] = tick[t].read]
    /\ tick' = [tick EXCEPT ![t].pc = "write"]
    /\ UNCHANGED <<saved, onec, admin, catalogue, interval, since, saves, starts, aborted, overlaps, loaded>>

TickEnds(t) ==
    /\ tick[t].pc = "write"
    /\ tick' = [tick EXCEPT ![t] = NoTick]
    /\ since' = [since EXCEPT ![t] = {}]
    /\ UNCHANGED <<saved, site, onec, admin, catalogue, interval, saves, starts, aborted, overlaps, loaded>>

\* sync_catalog begins with load_overrides.
PullReads ==
    /\ catalogue.pc = "idle"
    /\ catalogue' = [pc |-> "load", read |-> saved["onec"]]
    /\ since' = [since EXCEPT !["catalogue"] = {saved["onec"]}]
    /\ UNCHANGED <<saved, site, onec, admin, tick, interval, saves, starts, aborted, overlaps, loaded>>

PullLoads ==
    /\ catalogue.pc = "load"
    /\ onec' = [onec EXCEPT !["worker"] = catalogue.read]
    /\ catalogue' = [catalogue EXCEPT !.pc = "pull"]
    /\ UNCHANGED <<saved, site, admin, tick, interval, since, saves, starts, aborted, overlaps, loaded>>

PullEnds ==
    /\ catalogue.pc = "pull"
    /\ catalogue' = [pc |-> "idle", read |-> None]
    /\ since' = [since EXCEPT !["catalogue"] = {}]
    /\ UNCHANGED <<saved, site, onec, admin, tick, interval, saves, starts, aborted, overlaps, loaded>>

Next ==
    \/ \E a \in Admins : \/ \E p \in Patches : PutSettings(a, p)
                         \/ GetAdmin(a) \/ SaveKey(a) \/ ReadSite(a) \/ SetSite(a)
                         \/ PutOnec(a) \/ GetOnec(a) \/ SyncNow(a) \/ ReadOnec(a) \/ SetOnec(a)
    \/ WebStarts \/ WorkerStarts \/ PullReads \/ PullLoads \/ PullEnds
    \/ \E t \in Ticks : TickReads(t) \/ TickLoads(t) \/ TickEnds(t)

Spec == Init /\ [][Next]_vars

-----------------------------------------------------------------------------
\* A tick writes its letters with an address that was saved at some time since
\* it began (or that a tick beside it had just read), never with one from
\* before or from another process; the catalogue is pulled likewise from a 1C
\* that was configured at some time since the pull began.
TicksUseSaved ==
    /\ \A t \in Ticks : tick[t].pc = "write" => site["worker"] \in since[t]
    /\ catalogue.pc = "pull" => onec["worker"] \in since["catalogue"]

\* Between requests that did not overlap the web process has what is saved:
\* the addresses, unless a request died half-way or the start could not read
\* them, and that of 1C once a page has loaded it since the process started
\* (until then a manual pull may be refused although the address is saved).
PanelShowsSaved ==
    (\A a \in Admins : admin[a].pc = "idle") /\ ~overlaps =>
        /\ ~aborted => site["web"] = saved["url"]
        /\ loaded => onec["web"] = saved["onec"]

=============================================================================
