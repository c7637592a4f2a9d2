------------------------------- MODULE ImageCache -------------------------------
(***************************************************************************)
(* Pictures of products (app/images.py).  The export names every file      *)
(* .png, the CDN may hold it under another extension: a lookup probes the  *)
(* extensions one after the other and the process remembers the URL that   *)
(* answered, or for ever that the file is missing.  Lookups run in threads *)
(* (asyncio.to_thread) and share that memory; meanwhile files appear and   *)
(* go on the CDN, and probes meet timeouts and 5xx.                        *)
(***************************************************************************)
EXTENDS Naturals, Sequences, SequencesExt

CONSTANTS
    Names,      \* file names the database refers to, without extension
    Exts,       \* EXTS, in the order of probing
    Threads,    \* concurrent lookups
    None,       \* null
    Miss,       \* "" in the cache
    MaxChanges, \* bound: files that appear or go
    MaxFaults   \* bound: soft failures of the CDN

VARIABLES
    cdn,        \* external: pairs of name and extension that are there
    resolved,   \* _resolved: the extension, Miss, or None
    thread,     \* lookups: kind of URL, what is left to probe
    answer,     \* the last answer of each thread
    changes, faults

vars == <<cdn, resolved, thread, answer, changes, faults>>

\* Kinds of image_url: none, /img/<name>, the CDN prefix, any other URL (or a
\* name under the prefix that is no picture name), and what is no URL.
Kinds == {"none", "img", "cdn", "other", "bad"}

\* images.proxied: a link built from the product id is dropped, one under the
\* prefix becomes /img/<name>.
proxied(kind, byId) ==
    IF kind = "none" \/ byId THEN "none" ELSE IF kind = "cdn" THEN "img" ELSE kind

\* stays: history, the extensions of this name that were there all along.
Idle == [pc |-> "idle", name |-> None, left |-> <<>>, soft |-> FALSE, stays |-> {}]

There(name) == {e \in ToSet(Exts) : <<name, e>> \in cdn}

TypeOK ==
    /\ cdn \subseteq Names \X ToSet(Exts)
    /\ resolved \in [Names -> ToSet(Exts) \union {Miss, None}]
    /\ \A t \in Threads : /\ thread[t].pc \in {"idle", "probe", "plain"}
                          /\ thread[t].pc # "idle" => thread[t].name \in Names
                          /\ thread[t].stays \subseteq There(thread[t].name)
    /\ answer \in [Threads -> ToSet(Exts) \union {None, "as is"}]
    /\ changes \in 0 .. MaxChanges /\ faults \in 0 .. MaxFaults

Init ==
    /\ cdn \in SUBSET (Names \X ToSet(Exts))
    /\ resolved = [n \in Names |-> None]
    /\ thread = [t \in Threads |-> Idle]
    /\ answer = [t \in Threads |-> None]
    /\ changes = 0 /\ faults = 0

Answers(t, a) ==
    /\ thread' = [thread EXCEPT ![t] = Idle]
    /\ answer' = [answer EXCEPT ![t] = a]

-----------------------------------------------------------------------------
\* live_url_sync and _resolve_sync up to the first probe: a name that is
\* remembered is answered at once, another URL is probed as it stands.
Lookup(t, name, kind) ==
    /\ thread[t].pc = "idle"
    /\ IF kind \in {"none", "bad"} THEN Answers(t, None)
       ELSE IF kind = "other"
       THEN /\ thread' = [thread EXCEPT ![t] = [Idle EXCEPT !.pc = "plain", !.name = name]]
            /\ UNCHANGED answer
       ELSE IF resolved[name] # None
       THEN Answers(t, IF resolved[name] = Miss THEN None ELSE resolved[name])
       ELSE /\ thread' = [thread EXCEPT ![t] = [Idle EXCEPT !.pc = "probe", !.name = name,
                                                !.left = Exts, !.stays = There(name)]]
            /\ UNCHANGED answer
    /\ UNCHANGED <<cdn, resolved, changes, faults>>

\* Mutant: a timeout counts as 404.
ProbeAllHard(name, ext) == IF faults' = faults /\ <<name, ext>> \in cdn THEN "ok" ELSE "hard"

\* _probe_sync: what HEAD, or GET after a refused HEAD, finds; hard is 404.
Probe(name, ext) ==
    IF faults' # faults THEN "soft" ELSE IF <<name, ext>> \in cdn THEN "ok" ELSE "hard"

\* The next extension: found is remembered; all of them 404 is remembered as a
\* miss; a soft failure among them leaves the memory alone.
ProbeNext(t) ==
    LET job == thread[t]
        ext == Head(job.left)
        soft == job.soft \/ Probe(job.name, ext) = "soft"
    IN
    /\ job.pc = "probe"
    /\ \/ UNCHANGED faults
       \/ faults < MaxFaults /\ faults' = faults + 1
    /\ IF Probe(job.name, ext) = "ok"
       THEN resolved' = [resolved EXCEPT ![job.name] = ext] /\ Answers(t, ext)
       ELSE IF Len(job.left) > 1
       THEN /\ thread' = [thread EXCEPT ![t].left = Tail(@), ![t].soft = soft]
            /\ UNCHANGED <<resolved, answer>>
       ELSE /\ resolved' = IF soft THEN resolved ELSE [resolved EXCEPT ![job.name] = Miss]
            /\ Answers(t, None)
    /\ UNCHANGED <<cdn, changes>>

\* A URL outside the scheme: one probe, no memory.
ProbePlain(t) ==
    /\ thread[t].pc = "plain"
    /\ \E found \in BOOLEAN : Answers(t, IF found THEN "as is" ELSE None)
    /\ UNCHANGED <<cdn, resolved, changes, faults>>

\* external: somebody uploads or removes files, or renames one (png to jpg).
FilesChange ==
    /\ changes < MaxChanges /\ changes' = changes + 1
    /\ \E n \in Names : \E exts \in SUBSET ToSet(Exts) :
        /\ exts # There(n)
        /\ cdn' = {f \in cdn : f[1] # n} \union {<<n, e>> : e \in exts}
        /\ thread' = [t \in Threads |-> IF thread[t].name = n
                                        THEN [thread[t] EXCEPT !.stays = @ \intersect exts]
                                        ELSE thread[t]]
    /\ UNCHANGED <<resolved, answer, faults>>

Next ==
    \/ \E t \in Threads : \/ \E n \in Names, k \in Kinds, byId \in BOOLEAN : Lookup(t, n, proxied(k, byId))
                          \/ ProbeNext(t) \/ ProbePlain(t)
    \/ FilesChange

Spec == Init /\ [][Next]_vars

-----------------------------------------------------------------------------
\* A picture is given up for good only on proof: a name is remembered as missing
\* by a lookup without a soft failure, and no file of it was in its place during
\* the whole of that lookup.  A timeout alone burns no picture.  A file that is
\* uploaded meanwhile may still be: another thread that finds it is overwritten.
MissNeedsProof ==
    [][\A n \in Names : resolved'[n] = Miss /\ resolved[n] # Miss =>
          \E t \in Threads : /\ thread[t].pc = "probe" /\ thread[t].name = n
                             /\ thread[t].stays = {} /\ ~thread[t].soft]_vars
================================================================================
