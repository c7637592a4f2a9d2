------------------------------ MODULE SupplyProofs ------------------------------
(***************************************************************************)
(* Proofs about what letters are filled with, for any pictures, threads,   *)
(* products, files and writers: a picture is given up only on proof,       *)
(* tidying the top lists loses nothing, a pull that is left alone brings   *)
(* all of 1C's catalogue, and a file that parses is stored.                *)
(***************************************************************************)
EXTENDS Services, FiniteSetTheorems, SequenceTheorems, TLAPS

-----------------------------------------------------------------------------
LookupRows == [pc : {"idle", "probe", "plain"}, name : Names \union {None}, left : Seq(STRING),
               soft : BOOLEAN, stays : SUBSET Img!ToSet(Exts)]

\* A file that stayed in its place has not been passed over yet, unless a soft
\* failure is remembered: every extension probed before was not there then.
LookupTypes ==
    /\ thread \in [Threads -> LookupRows]
    /\ DOMAIN resolved = Names
NotPassedOver ==
    \A t \in Threads : thread[t].pc = "probe" =>
        /\ thread[t].name \in Names /\ thread[t].left # <<>>
        /\ thread[t].stays \subseteq Img!There(thread[t].name)
        /\ ~thread[t].soft => thread[t].stays \subseteq Img!ToSet(thread[t].left)
PictureInv == LookupTypes /\ NotPassedOver

LEMMA NoLookup == Img!Idle \in LookupRows /\ Img!Idle.pc = "idle"
<1>1. <<>> \in Seq(STRING)
  OBVIOUS
<1>2. QED
  BY <1>1 DEF Img!Idle, LookupRows

LEMMA PictureBegins == Init => PictureInv
BY NoLookup DEF Init, Img!Init, PictureInv, LookupTypes, NotPassedOver

\* The first extension and the others.
LEMMA FirstAndRest ==
    ASSUME NEW s \in Seq(STRING)
    PROVE  /\ Len(s) <= 1 => Img!ToSet(s) \subseteq {Head(s)}
           /\ Len(s) > 1 => /\ Tail(s) \in Seq(STRING) /\ Tail(s) # <<>>
                            /\ Img!ToSet(s) \subseteq {Head(s)} \union Img!ToSet(Tail(s))
<1>1. CASE Len(s) <= 1
  BY <1>1 DEF Img!ToSet
<1>2. CASE Len(s) > 1
  <2>1. s # <<>>
    BY <1>2
  <2>2. Tail(s) \in Seq(STRING) /\ Len(Tail(s)) = Len(s) - 1 /\ \A i \in 1 .. Len(Tail(s)) : Tail(s)[i] = s[i + 1]
    BY <2>1, HeadTailProperties
  <2>3. ASSUME NEW i \in DOMAIN s PROVE s[i] = Head(s) \/ s[i] \in Img!ToSet(Tail(s))
    <3>1. CASE i = 1
      BY <3>1
    <3>2. CASE i # 1
      <4>1. i - 1 \in 1 .. Len(Tail(s)) /\ Tail(s)[i - 1] = s[i]
        BY <2>2, <2>3, <3>2
      <4>2. DOMAIN Tail(s) = 1 .. Len(Tail(s))
        BY <2>2
      <4>3. QED
        BY <4>1, <4>2 DEF Img!ToSet
    <3>3. QED
      BY <3>1, <3>2
  <2>4. QED
    BY <1>2, <2>2, <2>3 DEF Img!ToSet
<1>3. QED
  BY <1>1, <1>2

\* A step of one lookup to the row w, the files as they are.
LEMMA LookupStep ==
    ASSUME PictureInv, NEW t \in Threads, NEW w \in LookupRows, thread' = [thread EXCEPT ![t] = w],
           cdn' = cdn, DOMAIN resolved' = Names,
           w.pc = "probe" => /\ w.name \in Names /\ w.left # <<>>
                             /\ w.stays \subseteq Img!There(w.name)
                             /\ ~w.soft => w.stays \subseteq Img!ToSet(w.left)
    PROVE  PictureInv'
<1>1. /\ thread' \in [Threads -> LookupRows]
      /\ \A q \in Threads : thread'[q] = w \/ thread'[q] = thread[q]
  BY DEF PictureInv, LookupTypes
<1>2. \A n : Img!There(n)' = Img!There(n)
  BY DEF Img!There
<1>3. NotPassedOver'
  BY <1>1, <1>2 DEF PictureInv, NotPassedOver
<1>4. QED
  BY <1>1, <1>3 DEF PictureInv, LookupTypes

\* What a probe does to its row.
LEMMA ProbeMoves ==
    ASSUME PictureInv, NEW t \in Threads, Img!ProbeNext(t)
    PROVE  /\ PictureInv'
           /\ \A n \in Names : resolved'[n] = Miss /\ resolved[n] # Miss =>
                 thread[t].pc = "probe" /\ thread[t].name = n /\ thread[t].stays = {} /\ ~thread[t].soft
<1> DEFINE name == thread[t].name
           left == thread[t].left
           ext == Head(left)
           ok == Img!Probe(name, ext) = "ok"
           soft == thread[t].soft \/ Img!Probe(name, ext) = "soft"
<1>1. /\ thread[t].pc = "probe" /\ cdn' = cdn
      /\ ok => resolved' = [resolved EXCEPT ![name] = ext] /\ thread' = [thread EXCEPT ![t] = Img!Idle]
      /\ ~ok /\ Len(left) > 1 =>
            resolved' = resolved /\ thread' = [thread EXCEPT ![t].left = Tail(@), ![t].soft = soft]
      /\ ~ok /\ ~(Len(left) > 1) =>
            /\ resolved' = IF soft THEN resolved ELSE [resolved EXCEPT ![name] = Miss]
            /\ thread' = [thread EXCEPT ![t] = Img!Idle]
  BY DEF Img!ProbeNext, Img!Answers
<1>2. /\ thread[t] \in LookupRows /\ thread \in [Threads -> LookupRows] /\ DOMAIN resolved = Names
      /\ left \in Seq(STRING) /\ left # <<>> /\ thread[t].soft \in BOOLEAN /\ name \in Names
      /\ thread[t].stays \subseteq Img!There(name)
      /\ ~thread[t].soft => thread[t].stays \subseteq Img!ToSet(left)
  BY <1>1 DEF PictureInv, LookupTypes, NotPassedOver, LookupRows
<1>3. ~ok /\ ~soft => ext \notin thread[t].stays
  BY <1>2 DEF Img!Probe, Img!There
<1>4. Img!Idle \in LookupRows /\ Img!Idle.pc # "probe"
  BY NoLookup
<1>5. soft \in BOOLEAN /\ (soft \/ ~thread[t].soft)
  BY <1>2
<1>6. DOMAIN resolved' = Names
  BY <1>1, <1>2
<1> HIDE DEF ok, soft
<1>7. CASE ok
  <2>1. PictureInv'
    BY <1>1, <1>4, <1>6, <1>7, LookupStep
  <2>2. ext \in STRING
    BY <1>2, HeadTailProperties
  <2>3. \A n \in Names : resolved'[n] = Miss => resolved[n] = Miss
    BY <1>1, <1>2, <1>7, <2>2, ServicesAssumption
  <2>4. QED
    BY <2>1, <2>3
<1>8. CASE ~ok /\ Len(left) > 1
  <2>1. Tail(left) \in Seq(STRING) /\ Tail(left) # <<>> /\ Img!ToSet(left) \subseteq {ext} \union Img!ToSet(Tail(left))
    BY <1>2, <1>8, FirstAndRest
  <2> DEFINE w == [thread[t] EXCEPT !.left = Tail(left), !.soft = soft]
  <2>2. w \in LookupRows
    BY <1>2, <1>5, <2>1 DEF LookupRows
  <2>3. /\ w.name = name /\ w.left = Tail(left) /\ w.soft = soft /\ w.stays = thread[t].stays
    BY <1>2 DEF LookupRows
  <2>4. thread' = [thread EXCEPT ![t] = w]
    BY <1>1, <1>8
  <2>5. ~soft => thread[t].stays \subseteq Img!ToSet(Tail(left))
    BY <1>2, <1>3, <1>5, <1>8, <2>1
  <2> HIDE DEF w, name, left, ext
  <2>6. PictureInv'
    BY <1>1, <1>2, <1>6, <2>1, <2>2, <2>3, <2>4, <2>5, LookupStep DEF name
  <2>7. QED
    BY <1>1, <1>8, <2>6
<1>9. CASE ~ok /\ ~(Len(left) > 1)
  <2>1. PictureInv'
    BY <1>1, <1>4, <1>6, <1>9, LookupStep
  <2>2. Img!ToSet(left) \subseteq {ext}
    BY <1>2, <1>9, FirstAndRest
  <2>3. ~soft => thread[t].stays = {}
    BY <1>2, <1>3, <1>5, <1>9, <2>2
  <2>4. \A n \in Names : resolved'[n] = Miss /\ resolved[n] # Miss => ~soft /\ n = name
    BY <1>1, <1>2, <1>9
  <2>5. QED
    BY <1>1, <1>5, <2>1, <2>3, <2>4
<1>10. QED
  BY <1>7, <1>8, <1>9

LEMMA PictureKept == ASSUME PictureInv, Img!Next \/ UNCHANGED im PROVE PictureInv'
<1>1. thread \in [Threads -> LookupRows] /\ DOMAIN resolved = Names
  BY DEF PictureInv, LookupTypes
<1>2. ASSUME NEW t \in Threads, NEW n \in Names, NEW kind, Img!Lookup(t, n, kind) PROVE PictureInv'
  <2>1. /\ cdn' = cdn /\ resolved' = resolved
        /\ \/ thread' = [thread EXCEPT ![t] = Img!Idle]
           \/ thread' = [thread EXCEPT ![t] = [Img!Idle EXCEPT !.pc = "plain", !.name = n]]
           \/ thread' = [thread EXCEPT ![t] = [Img!Idle EXCEPT !.pc = "probe", !.name = n,
                                               !.left = Exts, !.stays = Img!There(n)]]
    BY <1>2 DEF Img!Lookup, Img!Answers
  <2> DEFINE p == [Img!Idle EXCEPT !.pc = "plain", !.name = n]
             w == [Img!Idle EXCEPT !.pc = "probe", !.name = n, !.left = Exts, !.stays = Img!There(n)]
  <2>2. p \in LookupRows /\ p.pc = "plain"
    BY NoLookup DEF Img!Idle, LookupRows
  <2>3. Img!There(n) \subseteq Img!ToSet(Exts) /\ Exts \in Seq(STRING) /\ Exts # <<>>
    BY ServicesAssumption DEF Img!There
  <2>4. w \in LookupRows /\ w.name = n /\ w.left = Exts /\ w.stays = Img!There(n)
    BY NoLookup, <2>3 DEF Img!Idle, LookupRows
  <2>5. \/ thread' = [thread EXCEPT ![t] = Img!Idle]
        \/ thread' = [thread EXCEPT ![t] = p]
        \/ thread' = [thread EXCEPT ![t] = w]
    BY <2>1
  <2> HIDE DEF p, w
  <2>6. CASE thread' = [thread EXCEPT ![t] = Img!Idle]
    BY <1>1, <2>1, <2>6, NoLookup, LookupStep
  <2>7. CASE thread' = [thread EXCEPT ![t] = p]
    BY <1>1, <2>1, <2>2, <2>7, LookupStep
  <2>8. CASE thread' = [thread EXCEPT ![t] = w]
    BY <1>1, <2>1, <2>3, <2>4, <2>8, LookupStep
  <2>9. QED
    BY <2>5, <2>6, <2>7, <2>8
<1>3. ASSUME NEW t \in Threads, Img!ProbePlain(t) PROVE PictureInv'
  <2>1. cdn' = cdn /\ resolved' = resolved /\ thread' = [thread EXCEPT ![t] = Img!Idle]
    BY <1>3 DEF Img!ProbePlain, Img!Answers
  <2>2. QED
    BY <1>1, <2>1, NoLookup, LookupStep
<1>4. CASE Img!FilesChange
  <2>1. PICK n \in Names, exts \in SUBSET Img!ToSet(Exts) :
            /\ cdn' = {f \in cdn : f[1] # n} \union {<<n, e>> : e \in exts}
            /\ thread' = [t \in Threads |-> IF thread[t].name = n
                                            THEN [thread[t] EXCEPT !.stays = @ \intersect exts]
                                            ELSE thread[t]]
            /\ resolved' = resolved
    BY <1>4 DEF Img!FilesChange
  <2>3. exts \subseteq Img!There(n)'
    BY <2>1 DEF Img!There
  <2>4. \A m : m # n => Img!There(m) \subseteq Img!There(m)'
    BY <2>1 DEF Img!There
  <2>5. ASSUME NEW t \in Threads
        PROVE  /\ thread'[t] \in LookupRows /\ thread'[t].pc = thread[t].pc /\ thread'[t].name = thread[t].name
               /\ thread'[t].left = thread[t].left /\ thread'[t].soft = thread[t].soft
               /\ thread'[t].stays = IF thread[t].name = n THEN thread[t].stays \intersect exts ELSE thread[t].stays
    <3>1. thread[t] \in LookupRows
      BY <1>1
    <3> DEFINE w == [thread[t] EXCEPT !.stays = thread[t].stays \intersect exts]
    <3>2. w \in LookupRows /\ w.pc = thread[t].pc /\ w.name = thread[t].name /\ w.left = thread[t].left
          /\ w.soft = thread[t].soft /\ w.stays = thread[t].stays \intersect exts
      BY <3>1 DEF LookupRows
    <3>3. thread'[t] = IF thread[t].name = n THEN w ELSE thread[t]
      BY <2>1
    <3> HIDE DEF w
    <3>4. QED
      BY <3>1, <3>2, <3>3
  <2>6. thread' \in [Threads -> LookupRows]
    BY <2>1, <2>5
  <2>7. NotPassedOver'
    BY <2>3, <2>4, <2>5 DEF PictureInv, NotPassedOver
  <2>8. QED
    BY <1>1, <2>1, <2>6, <2>7 DEF PictureInv, LookupTypes
<1>5. CASE UNCHANGED im
  BY <1>5 DEF im, PictureInv, LookupTypes, NotPassedOver, Img!There
<1>6. QED
  BY <1>2, <1>3, <1>4, <1>5, ProbeMoves DEF Img!Next

\* Who but a probe gives a picture up?
LEMMA OnlyProbesGiveUp ==
    ASSUME PictureInv, Img!Next \/ UNCHANGED im, NEW n \in Names, resolved'[n] = Miss, resolved[n] # Miss
    PROVE  \E t \in Threads : /\ thread[t].pc = "probe" /\ thread[t].name = n
                              /\ thread[t].stays = {} /\ ~thread[t].soft
<1>1. resolved' # resolved
  OBVIOUS
<1>2. PICK t \in Threads : Img!ProbeNext(t)
  BY <1>1 DEF Img!Next, Img!Lookup, Img!ProbePlain, Img!FilesChange, im
<1>3. QED
  BY <1>2, ProbeMoves

\* Of a step of the services, the pictures see their own steps or none.
LEMMA PicturesAlone == ASSUME [Next]_vars PROVE Img!Next \/ UNCHANGED im
BY DEF Next, vars, im, OfferStep, ChoiceStep, MailboxStep, WheelStep, AttributionStep, TemplateStep,
       CatalogueStep, PictureStep, MailStep, SettingsStep

\* A picture is remembered as missing only by a lookup during which no file of
\* it stayed in its place and every probe had its answer, whatever files come
\* and go and other threads find meanwhile (images._resolve_sync).
THEOREM MissIsProved == Spec => MissNeedsProof
<1>1. PictureInv /\ [Next]_vars => PictureInv'
  BY PicturesAlone, PictureKept
<1>2. PictureInv /\ [Next]_vars =>
        [\A n \in Names : resolved'[n] = Miss /\ resolved[n] # Miss =>
          \E t \in Threads : /\ thread[t].pc = "probe" /\ thread[t].name = n
                             /\ thread[t].stays = {} /\ ~thread[t].soft]_Img!vars
  BY PicturesAlone, OnlyProbesGiveUp
<1>3. QED
  BY PictureBegins, <1>1, <1>2, PTL DEF Spec, MissNeedsProof, Img!MissNeedsProof

-----------------------------------------------------------------------------
(* Pictures keep their types, and changes and faults their bounds.         *)

Found == Img!ToSet(Exts)
IdleThreads == \A t \in Threads : /\ thread[t].pc # "probe" => thread[t].stays = {}
                                  /\ thread[t].pc # "idle" => thread[t].name \in Names
PictureKinds ==
    /\ cdn \subseteq Names \X Found
    /\ resolved \in [Names -> Found \union {Miss, None}]
    /\ answer \in [Threads -> Found \union {None, "as is"}]
    /\ IdleThreads
    /\ changes \in 0 .. FileChanges /\ softFaults \in 0 .. ProbeFaults

LEMMA PictureKindsBegin == Init => PictureKinds
<1> SUFFICES ASSUME Img!Init PROVE PictureKinds
  BY DEF Init
<1>1. changes \in 0 .. FileChanges /\ softFaults \in 0 .. ProbeFaults
  BY BoundsAssumption DEF Img!Init
<1>2. IdleThreads
  BY DEF Img!Init, Img!Idle, IdleThreads
<1>3. QED
  BY <1>1, <1>2 DEF Img!Init, PictureKinds, Found

\* One lookup goes on to the row w.
LEMMA ThreadTyped ==
    ASSUME PictureInv, PictureKinds, NEW t \in Threads, NEW w, thread' = [thread EXCEPT ![t] = w],
           w.pc # "probe" => w.stays = {}, w.pc # "idle" => w.name \in Names
    PROVE  IdleThreads'
<1>1. \A q \in Threads : thread'[q] = w \/ thread'[q] = thread[q]
  BY DEF PictureInv, LookupTypes
<1>2. QED
  BY <1>1 DEF PictureKinds, IdleThreads

LEMMA IdleIsTyped == Img!Idle.pc = "idle" /\ Img!Idle.stays = {}
  BY DEF Img!Idle

LEMMA LookupTyped ==
    ASSUME PictureInv, PictureKinds, NEW t \in Threads, NEW n \in Names, NEW kind, Img!Lookup(t, n, kind)
    PROVE  PictureKinds'
<1> DEFINE p == [Img!Idle EXCEPT !.pc = "plain", !.name = n]
           w == [Img!Idle EXCEPT !.pc = "probe", !.name = n, !.left = Exts, !.stays = Img!There(n)]
<1>1. UNCHANGED <<cdn, resolved, changes, softFaults>>
  BY DEF Img!Lookup
<1>2. \/ \E a \in Found \union {None, "as is"} : thread' = [thread EXCEPT ![t] = Img!Idle] /\ answer' = [answer EXCEPT ![t] = a]
      \/ thread' = [thread EXCEPT ![t] = p] /\ answer' = answer
      \/ thread' = [thread EXCEPT ![t] = w] /\ answer' = answer
  <2>1. resolved[n] \in Found \union {Miss, None}
    BY DEF PictureKinds
  <2>2. QED
    BY <2>1 DEF Img!Lookup, Img!Answers
<1>3. p.pc = "plain" /\ p.stays = {} /\ p.name = n
  BY DEF Img!Idle
<1>4. w.pc = "probe" /\ w.name = n
  BY DEF Img!Idle
<1> HIDE DEF p, w
<1>5. IdleThreads'
  <2>1. CASE thread' = [thread EXCEPT ![t] = Img!Idle]
    BY <2>1, IdleIsTyped, ThreadTyped
  <2>2. CASE thread' = [thread EXCEPT ![t] = p]
    BY <1>3, <2>2, ThreadTyped
  <2>3. CASE thread' = [thread EXCEPT ![t] = w]
    BY <1>4, <2>3, ThreadTyped
  <2>4. QED
    BY <1>2, <2>1, <2>2, <2>3
<1>6. answer' \in [Threads -> Found \union {None, "as is"}]
  BY <1>2 DEF PictureKinds
<1>7. QED
  BY <1>1, <1>5, <1>6 DEF PictureKinds, Found

LEMMA ProbeTyped ==
    ASSUME PictureInv, PictureKinds, NEW t \in Threads, Img!ProbeNext(t) PROVE PictureKinds'
<1> DEFINE name == thread[t].name
           left == thread[t].left
           ext == Head(left)
           ok == Img!Probe(name, ext) = "ok"
           soft == thread[t].soft \/ Img!Probe(name, ext) = "soft"
           on == [thread[t] EXCEPT !.left = Tail(left), !.soft = soft]
<1>1. /\ thread[t].pc = "probe" /\ UNCHANGED <<cdn, changes>>
      /\ softFaults' = softFaults \/ (softFaults < ProbeFaults /\ softFaults' = softFaults + 1)
  BY DEF Img!ProbeNext
<1>2. thread[t] \in LookupRows /\ name \in Names
  BY <1>1 DEF PictureInv, LookupTypes, NotPassedOver
<1>3. ok => ext \in Found
  BY DEF Img!Probe, PictureKinds
<1>4. \/ ok /\ resolved' = [resolved EXCEPT ![name] = ext] /\ thread' = [thread EXCEPT ![t] = Img!Idle]
            /\ answer' = [answer EXCEPT ![t] = ext]
      \/ UNCHANGED <<resolved, answer>> /\ thread' = [thread EXCEPT ![t].left = Tail(@), ![t].soft = soft]
      \/ /\ resolved' = resolved \/ resolved' = [resolved EXCEPT ![name] = Miss]
         /\ thread' = [thread EXCEPT ![t] = Img!Idle] /\ answer' = [answer EXCEPT ![t] = None]
  BY DEF Img!ProbeNext, Img!Answers
<1>5. on.pc = "probe" /\ on.name = name
  BY <1>1, <1>2 DEF LookupRows
<1>6. [thread EXCEPT ![t].left = Tail(@), ![t].soft = soft] = [thread EXCEPT ![t] = on]
  BY DEF PictureInv, LookupTypes
<1> HIDE DEF ok, soft, on, ext
<1>7. IdleThreads'
  <2>1. CASE thread' = [thread EXCEPT ![t] = Img!Idle]
    BY <2>1, IdleIsTyped, ThreadTyped
  <2>2. CASE thread' = [thread EXCEPT ![t] = on]
    BY <1>2, <1>5, <2>2, ThreadTyped
  <2>3. QED
    BY <1>4, <1>6, <2>1, <2>2
<1>8. resolved' \in [Names -> Found \union {Miss, None}]
  BY <1>2, <1>3, <1>4 DEF PictureKinds
<1>9. answer' \in [Threads -> Found \union {None, "as is"}]
  BY <1>3, <1>4 DEF PictureKinds
<1>10. softFaults' \in 0 .. ProbeFaults
  <2>1. softFaults \in 0 .. ProbeFaults /\ ProbeFaults \in Nat
    BY BoundsAssumption DEF PictureKinds
  <2>2. QED
    BY <1>1, <2>1
<1>11. cdn' \subseteq Names \X Found /\ changes' \in 0 .. FileChanges
  BY <1>1 DEF PictureKinds
<1>12. QED
  BY <1>7, <1>8, <1>9, <1>10, <1>11, Zenon DEF PictureKinds, Found

LEMMA FilesTyped == ASSUME PictureInv, PictureKinds, Img!FilesChange PROVE PictureKinds'
<1>1. PICK n \in Names, exts \in SUBSET Found :
          /\ cdn' = {f \in cdn : f[1] # n} \union {<<n, e>> : e \in exts}
          /\ thread' = [t \in Threads |-> IF thread[t].name = n
                                          THEN [thread[t] EXCEPT !.stays = @ \intersect exts]
                                          ELSE thread[t]]
  BY DEF Img!FilesChange, Found
<1>2. UNCHANGED <<resolved, answer, softFaults>> /\ changes < FileChanges /\ changes' = changes + 1
  BY DEF Img!FilesChange
<1>3. cdn' \subseteq Names \X Found
  <2>1. {f \in cdn : f[1] # n} \subseteq Names \X Found
    BY DEF PictureKinds
  <2>2. {<<n, e>> : e \in exts} \subseteq Names \X Found
    OBVIOUS
  <2>3. QED
    BY <1>1, <2>1, <2>2
<1>4. changes' \in 0 .. FileChanges
  <2>1. changes \in 0 .. FileChanges /\ FileChanges \in Nat
    BY BoundsAssumption DEF PictureKinds
  <2>2. QED
    BY <1>2, <2>1
<1>5. ASSUME NEW t \in Threads
      PROVE  /\ thread'[t].pc # "probe" => thread'[t].stays = {}
             /\ thread'[t].pc # "idle" => thread'[t].name \in Names
  <2>1. thread[t] \in LookupRows
    BY DEF PictureInv, LookupTypes
  <2> DEFINE w == [thread[t] EXCEPT !.stays = thread[t].stays \intersect exts]
  <2>2. w.pc = thread[t].pc /\ w.name = thread[t].name /\ w.stays = thread[t].stays \intersect exts
    BY <2>1 DEF LookupRows
  <2>3. thread'[t] = w \/ thread'[t] = thread[t]
    BY <1>1
  <2> HIDE DEF w
  <2>4. QED
    BY <2>2, <2>3 DEF PictureKinds, IdleThreads
<1>6. QED
  BY <1>2, <1>3, <1>4, <1>5 DEF PictureKinds, IdleThreads, Found

LEMMA PictureKindsKept ==
    ASSUME PictureInv, PictureKinds, Img!Next \/ UNCHANGED im PROVE PictureKinds'
<1>1. ASSUME NEW t \in Threads, Img!ProbePlain(t) PROVE PictureKinds'
  <2>1. UNCHANGED <<cdn, resolved, changes, softFaults>> /\ thread' = [thread EXCEPT ![t] = Img!Idle]
        /\ \E a \in {None, "as is"} : answer' = [answer EXCEPT ![t] = a]
    BY <1>1 DEF Img!ProbePlain, Img!Answers
  <2>2. IdleThreads'
    BY <2>1, IdleIsTyped, ThreadTyped
  <2>3. QED
    BY <2>1, <2>2 DEF PictureKinds, Found
<1>2. CASE UNCHANGED im
  BY <1>2 DEF im, PictureKinds, IdleThreads, Found
<1>3. QED
  BY <1>1, <1>2, LookupTyped, ProbeTyped, FilesTyped DEF Img!Next

LEMMA PicturesTyped == ASSUME PictureInv, PictureKinds PROVE Img!TypeOK
<1>1. ASSUME NEW t \in Threads
      PROVE  /\ thread[t].pc \in {"idle", "probe", "plain"}
             /\ thread[t].pc # "idle" => thread[t].name \in Names
             /\ thread[t].stays \subseteq Img!There(thread[t].name)
  BY DEF PictureInv, LookupTypes, LookupRows, NotPassedOver, PictureKinds, IdleThreads
<1>2. QED
  BY <1>1 DEF PictureKinds, Found, Img!TypeOK

LEMMA PictureTypesKept == Spec => []Img!TypeOK
<1>1. PictureInv /\ PictureKinds /\ [Next]_vars => PictureInv' /\ PictureKinds'
  BY PicturesAlone, PictureKept, PictureKindsKept
<1>2. PictureInv /\ PictureKinds => Img!TypeOK
  BY PicturesTyped
<1>3. QED
  BY PictureBegins, PictureKindsBegin, <1>1, <1>2, PTL DEF Spec

-----------------------------------------------------------------------------
(* The top lists.                                                          *)

IsRecord(r, fields) == r = [f \in DOMAIN r |-> r[f]] /\ fields \subseteq DOMAIN r

Fields == {"pc", "page", "items", "total", "new", "start", "rows", "file", "clean"}

\* A row of top5_by_category, a list of them, and a writer between statements.
IsPlace(t) == IsRecord(t, {"cat", "pos", "id"}) /\ t.pos \in Int
IsList(S) == IsFiniteSet(S) /\ \A t \in S : IsPlace(t)
IsWriter(w) ==
    /\ IsRecord(w, Fields)
    /\ w.pc = "top" => IsList(w.rows)
    /\ w.pc = "import" => w.file \in Files

ListInv == /\ IsList(top5)
           /\ writer = [r \in Runners |-> writer[r]] /\ \A r \in Runners : IsWriter(writer[r])

LEMMA ListsBegin == Init => ListInv
<1> SUFFICES ASSUME Cat!Init PROVE ListInv
  BY DEF Init
<1>1. IsList(top5)
  BY FS_EmptySet DEF Cat!Init, IsList
<1>2. IsWriter(Cat!Idle)
  BY DEF Cat!Idle, IsWriter, IsRecord, Fields
<1>3. QED
  BY <1>1, <1>2 DEF Cat!Init, ListInv

LEMMA SameSizes == \A S : Cat!Cardinality(S) = Cardinality(S)
  BY Zenon DEF Cat!Cardinality, Cardinality

\* What the ranking selects is a list.
LEMMA RankedIsList == IsList({t \in Cat!Ranked : t.pos <= TopN})
<1>1. IsFiniteSet({x \in Products : Cat!Shown(x)})
  BY CatalogueAssumption, FS_Subset
<1>2. \A p \in Products : Cat!Place(p) \in Int
  <2> SUFFICES ASSUME NEW p \in Products PROVE Cat!Place(p) \in Int
    OBVIOUS
  <2> DEFINE Q == {q \in Products : Cat!Shown(q) /\ products[q].cat = products[p].cat /\ Cat!Outranks(q, p)}
  <2>1. IsFiniteSet(Q)
    BY CatalogueAssumption, FS_Subset
  <2>2. Cardinality(Q) \in Nat
    BY <2>1, FS_CardinalityType
  <2>3. Cat!Place(p) = 1 + Cardinality(Q)
    BY SameSizes DEF Cat!Place
  <2> HIDE DEF Q
  <2>4. QED
    BY <2>2, <2>3
<1>3. IsFiniteSet(Cat!Ranked)
  <2> DEFINE S == {x \in Products : Cat!Shown(x)}
             f == [p \in S |-> [cat |-> products[p].cat, pos |-> Cat!Place(p), id |-> p]]
  <2>1. f \in Surjection(S, Cat!Ranked)
    BY DEF Cat!Ranked, Surjection
  <2>2. QED
    BY <1>1, <2>1, FS_Surjection
<1>4. \A t \in Cat!Ranked : IsPlace(t)
  BY <1>2 DEF Cat!Ranked, IsPlace, IsRecord
<1>5. QED
  BY <1>3, <1>4, FS_Subset DEF IsList

\* Another's write marks a writer, and no more.
Marked(w) == [w EXCEPT !.clean = FALSE]
LEMMA MarkedWriter == ASSUME NEW w, IsWriter(w) PROVE IsWriter(Marked(w)) /\ Marked(w).pc = w.pc
<1>1. /\ IsRecord(Marked(w), Fields)
      /\ Marked(w).pc = w.pc /\ Marked(w).rows = w.rows /\ Marked(w).file = w.file
  BY DEF IsWriter, IsRecord, Marked, Fields
<1> HIDE DEF Marked
<1>2. QED
  BY <1>1 DEF IsWriter

\* Where a writer goes that is not at its tidying.
Goes(r, w) ==
    /\ writer[r].pc # "renumber" /\ w.pc # "renumber" /\ IsWriter(w)
    /\ \/ writer' = [writer EXCEPT ![r] = w]
       \/ Cat!Step(r, w)

LEMMA WriterGoes ==
    ASSUME ListInv, NEW r \in Runners, NEW w, Goes(r, w)
    PROVE  /\ writer' = [q \in Runners |-> writer'[q]] /\ \A q \in Runners : IsWriter(writer'[q])
           /\ \A q \in Runners : "renumber" \in {writer[q].pc, writer'[q].pc} => writer[q].pc = writer'[q].pc
<1>1. DOMAIN writer = Runners /\ \A q \in Runners : IsWriter(writer[q])
  BY DEF ListInv
<1>2. CASE writer' = [writer EXCEPT ![r] = w]
  BY <1>1, <1>2 DEF Goes, ListInv
<1>3. CASE Cat!Step(r, w)
  <2>1. writer' = [[q \in Runners |-> Marked(writer[q])] EXCEPT ![r] = w]
    BY <1>3 DEF Cat!Step, Cat!Disturb, Marked
  <2>2. \A q \in Runners \ {r} : writer'[q] = Marked(writer[q])
    BY <2>1
  <2>3. \A q \in Runners \ {r} : IsWriter(writer'[q]) /\ writer'[q].pc = writer[q].pc
    BY <1>1, <2>2, MarkedWriter
  <2>4. writer' = [q \in Runners |-> writer'[q]] /\ writer'[r] = w
    BY <2>1
  <2>5. QED
    BY <2>3, <2>4 DEF Goes
<1>4. QED
  BY <1>2, <1>3 DEF Goes

\* Every statement of a writer but the two of its tidying.
Writes(r) ==
    \/ Cat!BeginPull(r) \/ Cat!Fetch(r) \/ Cat!FetchFails(r) \/ Cat!EnsureCategories(r)
    \/ Cat!InsertCategories(r) \/ Cat!UpsertPage(r)
    \/ Cat!CommitFile(r) \/ (\E f \in Files : Cat!TakeFile(r, f))
    \/ Cat!ComputeTop(r) \/ Cat!ReplaceTop(r)
Tidies(r) == Cat!Purge(r) \/ Cat!Renumber(r)

Elsewhere(c) == c \notin {"top", "import", "renumber"}

LEMMA WriterWrites ==
    ASSUME ListInv, NEW r \in Runners, Writes(r)
    PROVE  \E w : Goes(r, w)
<1>1. IsWriter(writer[r]) /\ IsRecord(writer[r], Fields) /\ DOMAIN writer = Runners
  BY DEF ListInv, IsWriter, Fields
<1>2. IsRecord(Cat!Idle, Fields) /\ Cat!Idle.pc = "idle"
  BY DEF Cat!Idle, IsRecord, Fields
<1>3. ASSUME NEW w, IsRecord(w, Fields), Elsewhere(w.pc), writer[r].pc # "renumber",
             writer' = [writer EXCEPT ![r] = w] \/ Cat!Step(r, w)
      PROVE  \E v : Goes(r, v)
  BY <1>3 DEF Goes, IsWriter, Fields, Elsewhere
<1>4. CASE Cat!BeginPull(r)
  <2> DEFINE w == [Cat!Idle EXCEPT !.pc = "fetch", !.page = 1, !.clean = TRUE]
  <2>1. IsRecord(w, Fields) /\ w.pc = "fetch"
    BY DEF Cat!Idle, IsRecord, Fields
  <2>2. QED
    BY <1>3, <1>4, <2>1 DEF Cat!BeginPull, Elsewhere
<1>5. CASE Cat!Fetch(r)
  <2>1. PICK c, items, total : /\ c \in {"done", "ensure"} /\ writer[r].pc = "fetch"
                               /\ writer' = [writer EXCEPT ![r].pc = c, ![r].items = items, ![r].total = total]
    BY <1>5 DEF Cat!Fetch
  <2> DEFINE w == [writer[r] EXCEPT !.pc = c, !.items = items, !.total = total]
  <2>2. IsRecord(w, Fields) /\ w.pc = c
    BY <1>1 DEF IsRecord, Fields
  <2>3. writer' = [writer EXCEPT ![r] = w]
    BY <1>1, <2>1
  <2> HIDE DEF w
  <2>4. QED
    BY <1>3, <2>1, <2>2, <2>3 DEF Elsewhere
<1>6. CASE Cat!FetchFails(r)
  BY <1>2, <1>3, <1>6 DEF Cat!FetchFails, Elsewhere
<1>7. CASE Cat!EnsureCategories(r)
  <2>1. PICK c, new, start : /\ c \in {"upsert", "insert"} /\ writer[r].pc = "ensure"
                             /\ writer' = [writer EXCEPT ![r].pc = c, ![r].new = new, ![r].start = start]
    BY <1>7 DEF Cat!EnsureCategories
  <2> DEFINE w == [writer[r] EXCEPT !.pc = c, !.new = new, !.start = start]
  <2>2. IsRecord(w, Fields) /\ w.pc = c
    BY <1>1 DEF IsRecord, Fields
  <2>3. writer' = [writer EXCEPT ![r] = w]
    BY <1>1, <2>1
  <2> HIDE DEF w
  <2>4. QED
    BY <1>3, <2>1, <2>2, <2>3 DEF Elsewhere
<1>8. CASE Cat!InsertCategories(r)
  <2> DEFINE w == [writer[r] EXCEPT !.pc = "upsert"]
  <2>1. IsRecord(w, Fields) /\ w.pc = "upsert"
    BY <1>1 DEF IsRecord, Fields
  <2>2. Cat!Step(r, w) \/ writer' = [writer EXCEPT ![r] = Cat!Idle]
    BY <1>8 DEF Cat!InsertCategories
  <2> HIDE DEF w
  <2>3. QED
    BY <1>2, <1>3, <1>8, <2>1, <2>2 DEF Cat!InsertCategories, Elsewhere
<1>9. CASE Cat!UpsertPage(r)
  <2> DEFINE v == [writer[r] EXCEPT !.pc = "fetch", !.page = @ + 1]
             w == [writer[r] EXCEPT !.pc = "done"]
  <2>1. /\ IsRecord(v, Fields) /\ v.pc = "fetch"
        /\ IsRecord(w, Fields) /\ w.pc = "done"
    BY <1>1 DEF IsRecord, Fields
  <2>2. (Cat!Step(r, v) \/ Cat!Step(r, w)) /\ writer[r].pc = "upsert"
    BY <1>9 DEF Cat!UpsertPage
  <2> HIDE DEF v, w
  <2>3. QED
    BY <1>3, <2>1, <2>2 DEF Elsewhere
<1>10. CASE Cat!CommitFile(r)
  BY <1>2, <1>3, <1>10 DEF Cat!CommitFile, Elsewhere
<1>11. ASSUME NEW f \in Files, Cat!TakeFile(r, f) PROVE \E v : Goes(r, v)
  <2>1. CASE writer' = writer
    <3>1. writer' = [writer EXCEPT ![r] = writer[r]]
      BY <1>1, <2>1 DEF ListInv
    <3>2. QED
      BY <1>1, <1>3, <1>11, <3>1 DEF Cat!TakeFile, Elsewhere
  <2>2. ASSUME writer' # writer PROVE \E v : Goes(r, v)
    <3> DEFINE new == IF f.format = "feed" THEN <<>> ELSE Cat!NewCategories(Cat!ParsedCategories(f))
               w == [Cat!Idle EXCEPT !.pc = "import", !.file = f, !.items = Cat!Parsed(f),
                                     !.start = Cat!LastOrder, !.clean = TRUE, !.new = new]
    <3>1. writer' = [writer EXCEPT ![r] = w]
      BY <1>11, <2>2, Zenon DEF Cat!TakeFile
    <3>2. IsRecord(w, Fields) /\ w.pc = "import" /\ w.file = f
      BY DEF Cat!Idle, IsRecord, Fields
    <3>3. writer[r].pc = "idle"
      BY <1>11 DEF Cat!TakeFile
    <3> HIDE DEF w
    <3>4. QED
      BY <3>1, <3>2, <3>3 DEF Goes, IsWriter, Fields
  <2>3. QED
    BY <2>1, <2>2
<1>12. CASE Cat!ComputeTop(r)
  <2> DEFINE L == {t \in Cat!Ranked : t.pos <= TopN}
             w == [Cat!Idle EXCEPT !.pc = "top", !.rows = L]
  <2>1. writer' = [writer EXCEPT ![r] = w] /\ writer[r].pc = "idle"
    BY <1>12 DEF Cat!ComputeTop
  <2>2. IsList(L)
    BY RankedIsList
  <2> HIDE DEF L
  <2>3. IsRecord(w, Fields) /\ w.pc = "top" /\ w.rows = L
    BY DEF Cat!Idle, IsRecord, Fields
  <2> HIDE DEF w
  <2>4. QED
    BY <2>1, <2>2, <2>3 DEF Goes, IsWriter, Fields
<1>13. CASE Cat!ReplaceTop(r)
  BY <1>2, <1>3, <1>13 DEF Cat!ReplaceTop, Elsewhere
<1>14. QED
  BY <1>4, <1>5, <1>6, <1>7, <1>8, <1>9, <1>10, <1>11, <1>12, <1>13 DEF Writes

\* Disturbing all of them changes no stage.
LEMMA AllDisturbed ==
    ASSUME ListInv, writer' = Cat!Disturb(writer)
    PROVE  /\ writer' = [q \in Runners |-> writer'[q]] /\ \A q \in Runners : IsWriter(writer'[q])
           /\ \A q \in Runners : writer[q].pc = writer'[q].pc
<1>1. writer' = [q \in Runners |-> Marked(writer[q])]
  BY DEF Cat!Disturb, Marked
<1>2. \A q \in Runners : IsWriter(writer[q])
  BY DEF ListInv
<1>3. \A q \in Runners : IsWriter(writer'[q]) /\ writer'[q].pc = writer[q].pc
  BY <1>1, <1>2, MarkedWriter
<1>4. QED
  BY <1>1, <1>3

LEMMA FileIsList == ASSUME NEW f \in Files PROVE IsList(f.top5)
<1>1. IsFiniteSet(f.top5) /\ f.top5 \subseteq [cat : Cats, pos : Int, id : Products]
  BY CatalogueAssumption DEF Cat!Places
<1>2. \A t \in [cat : Cats, pos : Int, id : Products] : IsPlace(t)
  BY DEF IsPlace, IsRecord
<1>3. QED
  BY <1>1, <1>2 DEF IsList

\* Both statements of a tidying leave lists, and are done by one writer.
LEMMA TidiedList ==
    ASSUME ListInv, NEW r \in Runners, Tidies(r)
    PROVE  ListInv'
<1>1. IsList(top5) /\ IsWriter(Cat!Idle)
  BY DEF ListInv, Cat!Idle, IsWriter, IsRecord, Fields
<1>2. IsList(top5')
  <2>1. CASE Cat!Purge(r)
    <3>1. top5' \subseteq top5
      BY <2>1 DEF Cat!Purge
    <3>2. QED
      BY <1>1, <3>1, FS_Subset DEF IsList
  <2>2. ASSUME NEW place \in [top5 -> 1 .. TopN], top5' = {[t EXCEPT !.pos = place[t]] : t \in top5}
        PROVE  IsList(top5')
    <3> DEFINE f == [t \in top5 |-> [t EXCEPT !.pos = place[t]]]
    <3>1. f \in Surjection(top5, top5')
      BY <2>2 DEF Surjection
    <3>2. IsFiniteSet(top5')
      BY <1>1, <3>1, FS_Surjection DEF IsList
    <3>3. ASSUME NEW t \in top5 PROVE IsPlace([t EXCEPT !.pos = place[t]])
      <4>1. place[t] \in Int /\ IsPlace(t)
        BY <1>1 DEF IsList
      <4>2. QED
        BY <4>1 DEF IsPlace, IsRecord
    <3>4. QED
      BY <2>2, <3>2, <3>3 DEF IsList
  <2>3. QED
    BY <1>1, <2>1, <2>2 DEF Tidies, Cat!Renumber
<1>3. writer' = [q \in Runners |-> writer'[q]] /\ \A q \in Runners : IsWriter(writer'[q])
  <2> DEFINE w == [Cat!Idle EXCEPT !.pc = "renumber"]
  <2>1. IsRecord(w, Fields) /\ w.pc = "renumber"
    BY DEF Cat!Idle, IsRecord, Fields
  <2>2. IsWriter(w)
    BY <2>1 DEF IsWriter
  <2>3. writer' = [writer EXCEPT ![r] = w] \/ writer' = [writer EXCEPT ![r] = Cat!Idle]
    BY DEF Tidies, Cat!Purge, Cat!Renumber
  <2> HIDE DEF w
  <2>4. QED
    BY <1>1, <2>2, <2>3 DEF ListInv
<1>4. QED
  BY <1>2, <1>3 DEF ListInv

LEMMA ListKept == ASSUME ListInv, Cat!Next \/ UNCHANGED ct PROVE ListInv'
<1>1. ASSUME NEW r \in Runners, Writes(r) PROVE ListInv'
  <2>1. PICK w : Goes(r, w)
    BY <1>1, WriterWrites
  <2>2. writer' = [q \in Runners |-> writer'[q]] /\ \A q \in Runners : IsWriter(writer'[q])
    BY <2>1, WriterGoes
  <2>3. IsWriter(writer[r]) /\ IsList(top5)
    BY DEF ListInv
  <2>4. IsList(top5')
    <3>1. CASE UNCHANGED top5
      BY <2>3, <3>1
    <3>2. CASE Cat!CommitFile(r)
      <4>1. writer[r].file \in Files
        BY <2>3, <3>2 DEF Cat!CommitFile, IsWriter
      <4>2. top5' = top5 \/ top5' = writer[r].file.top5
        BY <3>2 DEF Cat!CommitFile
      <4>3. QED
        BY <2>3, <4>1, <4>2, FileIsList
    <3>3. CASE Cat!ReplaceTop(r)
      BY <2>3, <3>3 DEF Cat!ReplaceTop, IsWriter
    <3>4. QED
      BY <1>1, <3>1, <3>2, <3>3 DEF Writes, Cat!BeginPull, Cat!Fetch, Cat!FetchFails, Cat!EnsureCategories,
            Cat!InsertCategories, Cat!UpsertPage, Cat!TakeFile, Cat!ComputeTop
  <2>5. QED
    BY <2>2, <2>4 DEF ListInv
<1>2. ASSUME NEW r \in Runners, Tidies(r) PROVE ListInv'
  BY <1>2, TidiedList
<1>3. ASSUME NEW p \in Products, Cat!Sale(p) PROVE ListInv'
  BY <1>3 DEF Cat!Sale, ListInv
<1>4. CASE Cat!OnecChanges \/ \E c \in Cats, n \in SortOrders : Cat!FeedCategory(c, n)
  BY <1>4, AllDisturbed DEF Cat!OnecChanges, Cat!FeedCategory, ListInv
<1>5. CASE UNCHANGED ct
  BY <1>5 DEF ct, ListInv
<1>6. QED
  BY <1>1, <1>2, <1>3, <1>4, <1>5 DEF Cat!Next, Writes, Tidies

\* A row renumbered lower than another of its list had a place before it: the
\* fewer rows come before a place, the lower it is.
LEMMA LowerPlaceBefore ==
    ASSUME IsList(top5), NEW t \in top5, NEW s \in top5, t.cat = s.cat,
           NEW i \in Cat!Renumbered(t), NEW j \in Cat!Renumbered(s), i < j
    PROVE  \E u, v \in top5 : u.cat = t.cat /\ v.cat = t.cat /\ u.id = t.id /\ v.id = s.id /\ u.pos < v.pos
<1> DEFINE Before(u) == {x \in top5 : x.cat = u.cat /\ x.pos < u.pos}
<1>1. PICK u \in top5 : u.cat = t.cat /\ u.id = t.id /\ i = 1 + Cardinality(Before(u))
  BY SameSizes DEF Cat!Renumbered
<1>2. PICK v \in top5 : v.cat = s.cat /\ v.id = s.id /\ j = 1 + Cardinality(Before(v))
  BY SameSizes DEF Cat!Renumbered
<1>3. u.pos \in Int /\ v.pos \in Int /\ \A x \in top5 : x.pos \in Int
  BY DEF IsList, IsPlace
<1>4. ASSUME ~(u.pos < v.pos) PROVE FALSE
  <2>1. Before(v) \subseteq Before(u)
    BY <1>1, <1>2, <1>3, <1>4
  <2>2. IsFiniteSet(Before(u)) /\ IsFiniteSet(Before(v))
    BY FS_Subset DEF IsList
  <2>3. Cardinality(Before(v)) <= Cardinality(Before(u))
    BY <2>1, <2>2, FS_Subset
  <2>4. Cardinality(Before(u)) \in Nat /\ Cardinality(Before(v)) \in Nat
    BY <2>2, FS_CardinalityType
  <2> HIDE DEF Before
  <2>5. QED
    BY <1>1, <1>2, <2>3, <2>4
<1>5. QED
  BY <1>1, <1>2, <1>4

\* What a tidying keeps.
KeepsPictures == \A t \in top5 : products[t.id].photo => \E n \in top5' : n.cat = t.cat /\ n.id = t.id
KeepsOrder == \A n, m \in top5' : n.cat = m.cat /\ n.id # m.id /\ n.pos < m.pos =>
                 \E t, s \in top5 : /\ t.cat = n.cat /\ s.cat = n.cat
                                    /\ t.id = n.id /\ s.id = m.id /\ t.pos < s.pos

LEMMA TidyingKeeps == ASSUME ListInv, NEW r \in Runners, Tidies(r) PROVE KeepsPictures /\ KeepsOrder
<1>1. IsList(top5)
  BY DEF ListInv
<1>2. CASE Cat!Purge(r)
  BY <1>2 DEF Cat!Purge, KeepsPictures, KeepsOrder
<1>3. CASE UNCHANGED top5
  BY <1>3 DEF KeepsPictures, KeepsOrder
<1>4. ASSUME NEW place \in [top5 -> 1 .. TopN], \A t \in top5 : place[t] \in Cat!Renumbered(t),
             top5' = {[t EXCEPT !.pos = place[t]] : t \in top5}
      PROVE  KeepsPictures /\ KeepsOrder
  <2> DEFINE moved(t) == [t EXCEPT !.pos = place[t]]
  <2>1. \A t \in top5 : moved(t).cat = t.cat /\ moved(t).id = t.id /\ moved(t).pos = place[t]
    BY <1>1 DEF IsList, IsPlace, IsRecord
  <2>2. top5' = {moved(t) : t \in top5}
    BY <1>4
  <2> HIDE DEF moved
  <2>3. KeepsPictures
    BY <2>1, <2>2 DEF KeepsPictures
  <2>4. ASSUME NEW n \in top5', NEW m \in top5', n.cat = m.cat, n.id # m.id, n.pos < m.pos
        PROVE  \E t, s \in top5 : t.cat = n.cat /\ s.cat = n.cat /\ t.id = n.id /\ s.id = m.id /\ t.pos < s.pos
    <3>1. PICK t \in top5, s \in top5 : n = moved(t) /\ m = moved(s)
      BY <2>2
    <3>2. t.cat = s.cat /\ t.cat = n.cat /\ t.id = n.id /\ s.id = m.id /\ place[t] < place[s]
      BY <2>1, <2>4, <3>1
    <3>3. PICK i \in Cat!Renumbered(t), j \in Cat!Renumbered(s) : i < j
      BY <1>4, <3>2
    <3>4. PICK u \in top5, v \in top5 : u.cat = t.cat /\ v.cat = t.cat /\ u.id = t.id /\ v.id = s.id /\ u.pos < v.pos
      <4>1. t.cat = s.cat
        BY <3>2
      <4>2. QED
        BY <1>1, <3>3, <4>1, LowerPlaceBefore, Zenon
    <3>5. QED
      BY <3>2, <3>4
  <2>5. QED
    BY <2>3, <2>4 DEF KeepsOrder
<1>5. QED
  BY <1>2, <1>3, <1>4 DEF Tidies, Cat!Renumber

\* Only the statements of a tidying lead to or away from its second one.
LEMMA OnlyTidying ==
    ASSUME ListInv, Cat!Next \/ UNCHANGED ct, NEW r \in Runners,
           "renumber" \in {writer[r].pc, writer'[r].pc}, writer[r].pc # writer'[r].pc
    PROVE  KeepsPictures /\ KeepsOrder
<1>1. ASSUME NEW q \in Runners, Writes(q) PROVE FALSE
  <2>1. PICK w : Goes(q, w)
    BY <1>1, WriterWrites
  <2>2. QED
    BY <2>1, WriterGoes
<1>2. ASSUME NEW p \in Products, Cat!Sale(p) PROVE FALSE
  BY <1>2 DEF Cat!Sale
<1>3. CASE Cat!OnecChanges \/ \E c \in Cats, n \in SortOrders : Cat!FeedCategory(c, n)
  BY <1>3, AllDisturbed DEF Cat!OnecChanges, Cat!FeedCategory
<1>4. CASE UNCHANGED ct
  BY <1>4 DEF ct
<1>5. ASSUME NEW q \in Runners, Tidies(q) PROVE KeepsPictures /\ KeepsOrder
  BY <1>5, TidyingKeeps
<1>6. QED
  BY <1>1, <1>2, <1>3, <1>4, <1>5 DEF Cat!Next, Writes, Tidies

LEMMA CatalogueAlone == ASSUME [Next]_vars PROVE Cat!Next \/ UNCHANGED ct
BY DEF Next, vars, ct, OfferStep, ChoiceStep, MailboxStep, WheelStep, AttributionStep, TemplateStep,
       CatalogueStep, PictureStep, MailStep, SettingsStep

\* Opening the recommendations loses no product with a picture from a top list
\* and keeps the order of the list, whoever writes between the two statements,
\* whichever products are listed twice and whether the second one fails
\* (admin.recommendations, _purge_top5_no_photo).
THEOREM TidyingIsHarmless == Spec => TidyingKeepsLists
<1>1. ListInv /\ [Next]_vars => ListInv'
  BY CatalogueAlone, ListKept
<1>2. ListInv /\ [Next]_vars =>
        [(\E r \in Runners : "renumber" \in {writer[r].pc, writer'[r].pc} /\ writer[r].pc # writer'[r].pc) =>
        /\ \A t \in top5 : products[t.id].photo => \E n \in top5' : n.cat = t.cat /\ n.id = t.id
        /\ \A n, m \in top5' : n.cat = m.cat /\ n.id # m.id /\ n.pos < m.pos =>
              \E t, s \in top5 : /\ t.cat = n.cat /\ s.cat = n.cat
                                 /\ t.id = n.id /\ s.id = m.id /\ t.pos < s.pos]_Cat!vars
  BY CatalogueAlone, OnlyTidying DEF KeepsPictures, KeepsOrder
<1>3. QED
  BY ListsBegin, <1>1, <1>2, PTL DEF Spec, TidyingKeepsLists, Cat!TidyingKeepsLists

-----------------------------------------------------------------------------
(* The catalogue.                                                          *)

Stages == Cat!Pulling \union {"idle", "done", "import", "top", "renumber"}

\* A row of the top-5 refers to rows (of the tables cs and ps); a list has one
\* row in a place.
RefersTo(t, cs, ps) == /\ t.cat \in Cats /\ cs[t.cat] > 0 /\ t.pos \in 1 .. TopN
                       /\ t.id \in Products /\ ps[t.id] # None
OnePlaceEach(S) == \A t, s \in S : t.cat = s.cat /\ t.pos = s.pos => t = s

\* New categories have places of their own; each line has a category, or a new one.
Numbered(new) == /\ DOMAIN new \subseteq Cats /\ \A c \in DOMAIN new : new[c] \in Nat \ {0}
                 /\ \A c, d \in DOMAIN new : new[c] = new[d] => c = d
Placed(items, new, cs) == \A n \in DOMAIN items : cs[items[n].cat] > 0 \/ items[n].cat \in DOMAIN new
Free(new, start, cs) == \A c \in DOMAIN new : cs[c] = 0 /\ \A d \in Cats : cs[d] # start + new[c]

TablesOk ==
    /\ listing \in Listings /\ sold \in [Products -> Nat]
    /\ products \in [Products -> Cat!Rows \union {None}] /\ cats \in [Cats -> Nat]
    /\ \A p \in Products : products[p] # None => cats[products[p].cat] > 0
    /\ \A c, d \in Cats : c # d /\ cats[c] > 0 => cats[c] # cats[d]
    /\ OnePlaceEach(top5) /\ \A t \in top5 : RefersTo(t, cats, products)
    /\ fileAnswer \in {"none", "rejected", "db_error", "ok"} /\ catChanges \in 0 .. CatalogueChanges

\* What a writer carries from one statement to the next, whoever writes between.
Parcel == [id : Products, cat : Cats, stock : BOOLEAN, photo : BOOLEAN, tags : SUBSET Cat!Tags]
Carries(w) ==
    /\ w.pc \in Stages
    /\ w.pc = "top" => OnePlaceEach(w.rows)
    /\ w.pc \in {"ensure", "insert", "upsert", "import"} => w.items \in Seq(Parcel)
    /\ w.pc \in {"insert", "import"} => Numbered(w.new) /\ w.start \in Nat
    /\ w.pc \in Cat!Pulling => w.page \in Nat \ {0}
Steady(w, cs, ps) ==
    /\ Carries(w)
    /\ w.pc = "top" => \A t \in w.rows : RefersTo(t, cs, ps)
    /\ w.pc = "insert" => Placed(w.items, w.new, cs)
    /\ w.pc = "upsert" => \A n \in DOMAIN w.items : cs[w.items[n].cat] > 0

\* And as long as nobody does: the first k lines of the listing ls have been
\* brought to the table ps.
Arrived(n, k, ls, ps) ==
    LET i == ls[n] IN
    /\ ps[i.id] # None
    /\ i.photo => ps[i.id].photo
    /\ (\A m \in DOMAIN ls : n < m /\ m <= k => ls[m].id # i.id) => ps[i.id].cat = i.cat /\ ps[i.id].stock = i.stock
Brought(k, ls, ps) == \A n \in DOMAIN ls : n <= k => Arrived(n, k, ls, ps)
Before(page) == (page - 1) * PageSize
PageEnd(page, ls) == IF page * PageSize < Len(ls) THEN page * PageSize ELSE Len(ls)
PageOf(page, ls) == SubSeq(ls, Before(page) + 1, PageEnd(page, ls))
Fresh(w, ls, cs, ps) ==
    /\ w.pc = "import" /\ w.file.format # "feed" => Free(w.new, w.start, cs) /\ Placed(w.items, w.new, cs)
    /\ w.pc \in Cat!Pulling => Brought(Before(w.page), ls, ps)
    /\ w.pc \in Cat!Pulling \ {"fetch"} => w.total = Len(ls) /\ w.items = PageOf(w.page, ls)
    /\ w.pc = "done" => Brought(Len(ls), ls, ps)
WritersOk == \A r \in Runners : /\ Steady(writer[r], cats, products)
                                /\ writer[r].clean => Fresh(writer[r], listing, cats, products)
CatInv == ListInv /\ TablesOk /\ WritersOk

-----------------------------------------------------------------------------
(* What the operators of the statements compute.                           *)

\* A set of naturals has a least element, and a finite one a greatest.
LEMMA LeastExists == ASSUME NEW S \in SUBSET Nat, S # {} PROVE \E m \in S : \A x \in S : m <= x
<1>1. PICK m \in S : \A x \in S : <<x, m>> \notin OpToRel(<, Nat)
  BY NatLessThanWellFounded, WFMin, Zenon
<1>2. ASSUME NEW x \in S PROVE m <= x
  <2>1. <<x, m>> \in Nat \X Nat
    OBVIOUS
  <2>2. ~(x < m)
    BY <1>1, <2>1 DEF OpToRel
  <2>3. QED
    BY <2>2
<1>3. QED
  BY <1>2

LEMMA MinIsLeast ==
    ASSUME NEW S \in SUBSET Nat, S # {}
    PROVE  Cat!Min(S) \in S /\ \A x \in S : Cat!Min(S) <= x
<1>1. \E m \in S : \A x \in S : m <= x
  BY LeastExists
<1>2. QED
  BY <1>1 DEF Cat!Min

LEMMA MaxIsGreatest ==
    ASSUME NEW S \in SUBSET Nat, S # {}, IsFiniteSet(S)
    PROVE  Cat!Max(S) \in S /\ \A x \in S : x <= Cat!Max(S)
<1> DEFINE Above(n) == {x \in S : x > n}
           Sizes == {Cardinality(Above(n)) : n \in S}
<1>1. \A n \in S : IsFiniteSet(Above(n)) /\ Cardinality(Above(n)) \in Nat
  BY FS_Subset, FS_CardinalityType
<1>2. PICK k \in Sizes : \A x \in Sizes : k <= x
  <2>1. Sizes \in SUBSET Nat /\ Sizes # {}
    BY <1>1
  <2> HIDE DEF Sizes
  <2>2. QED
    BY <2>1, LeastExists
<1>3. PICK n \in S : k = Cardinality(Above(n))
  BY <1>2
<1>4. ASSUME NEW y \in S, y > n PROVE FALSE
  <2>1. Above(y) \subseteq Above(n) /\ y \in Above(n) /\ y \notin Above(y)
    <3>1. n \in Nat /\ y \in Nat /\ ~(y > y) /\ \A x \in Nat : x > y => x > n
      BY <1>4
    <3>2. S \subseteq Nat
      OBVIOUS
    <3>3. QED
      BY <1>4, <3>1, <3>2, Zenon
  <2>2. Cardinality(Above(y)) <= Cardinality(Above(n)) /\ Cardinality(Above(n)) # Cardinality(Above(y))
    <3> HIDE DEF Above
    <3>1. QED
      BY <1>1, <2>1, FS_Subset
  <2>3. Cardinality(Above(n)) <= Cardinality(Above(y))
    BY <1>2, <1>3
  <2> HIDE DEF Above
  <2>4. QED
    BY <1>1, <2>2, <2>3
<1>5. \E m \in S : \A x \in S : m >= x
  BY <1>4
<1>6. QED
  BY <1>5 DEF Cat!Max

\* _ensure_categories starts after every category there is.
LEMMA StartIsLast == ASSUME cats \in [Cats -> Nat] PROVE Cat!LastOrder \in Nat /\ \A c \in Cats : cats[c] <= Cat!LastOrder
<1> DEFINE S == {cats[c] : c \in Cats}
           T == {0} \union S
<1>1. IsFiniteSet(S)
  <2>1. [c \in Cats |-> cats[c]] \in Surjection(Cats, S)
    BY DEF Surjection
  <2>2. IsFiniteSet(Cats)
    BY CatalogueAssumption
  <2> HIDE DEF S
  <2>3. QED
    BY <2>1, <2>2, FS_Surjection
<1>2. IsFiniteSet(T) /\ T \in SUBSET Nat /\ T # {}
  <2>1. T \in SUBSET Nat /\ T # {} /\ T = S \union {0}
    OBVIOUS
  <2> HIDE DEF S
  <2>2. QED
    BY <1>1, <2>1, FS_AddElement
<1>3. Cat!LastOrder = Cat!Max(T)
  BY DEF Cat!LastOrder
<1>4. \A c \in Cats : cats[c] \in T
  OBVIOUS
<1> HIDE DEF T
<1>5. QED
  BY <1>2, <1>3, <1>4, MaxIsGreatest

\* It numbers the new categories from 1 without repeating a number.
LEMMA NewAreNumbered ==
    ASSUME cats \in [Cats -> Nat], NEW X, NEW items \in Seq(X), \A n \in DOMAIN items : items[n].cat \in Cats
    PROVE  /\ Numbered(Cat!NewCategories(items)) /\ Placed(items, Cat!NewCategories(items), cats)
           /\ \A c \in DOMAIN Cat!NewCategories(items) : cats[c] = 0
<1> DEFINE new == {c \in Cats : cats[c] = 0 /\ \E n \in DOMAIN items : items[n].cat = c}
           lines(c) == {n \in DOMAIN items : items[n].cat = c}
           first(c) == Cat!Min(lines(c))
           upTo(c) == {d \in new : first(d) <= first(c)}
           N == Cat!NewCategories(items)
<1>1. N = [c \in new |-> Cardinality(upTo(c))]
  BY SameSizes DEF Cat!NewCategories
<1>2. ASSUME NEW c \in new PROVE first(c) \in Nat /\ first(c) \in DOMAIN items /\ items[first(c)].cat = c
  <2>1. lines(c) \in SUBSET Nat /\ lines(c) # {}
    OBVIOUS
  <2>2. first(c) \in lines(c)
    BY <2>1, MinIsLeast
  <2>3. QED
    BY <2>1, <2>2
<1> HIDE DEF first, N
<1>3. IsFiniteSet(new)
  BY CatalogueAssumption, FS_Subset
<1>4. \A c \in new : IsFiniteSet(upTo(c)) /\ c \in upTo(c)
  BY <1>2, <1>3, FS_Subset
<1>5. \A c \in new : Cardinality(upTo(c)) \in Nat /\ Cardinality(upTo(c)) # 0
  BY <1>4, FS_CardinalityType, FS_EmptySet
<1>6. ASSUME NEW c \in new, NEW d \in new, first(c) < first(d) PROVE Cardinality(upTo(c)) # Cardinality(upTo(d))
  <2>1. upTo(c) \subseteq upTo(d) /\ d \notin upTo(c)
    BY <1>2, <1>6
  <2> HIDE DEF upTo, new
  <2>2. QED
    BY <1>4, <2>1, FS_Subset
<1>7. ASSUME NEW c \in new, NEW d \in new, c # d PROVE Cardinality(upTo(c)) # Cardinality(upTo(d))
  <2>1. first(c) # first(d) /\ first(c) \in Nat /\ first(d) \in Nat
    BY <1>2, <1>7
  <2>2. first(c) < first(d) \/ first(d) < first(c)
    BY <2>1
  <2>3. QED
    BY <1>6, <2>2
<1>8. /\ \A n \in DOMAIN items : cats[items[n].cat] > 0 \/ items[n].cat \in new
      /\ new \subseteq Cats /\ \A c \in new : cats[c] = 0
  OBVIOUS
<1> HIDE DEF new, upTo
<1>9. QED
  BY <1>1, <1>5, <1>7, <1>8 DEF Numbered, Placed, N

\* What the products statement makes of a product's row.
LEMMA UpsertedRow ==
    ASSUME products \in [Products -> Cat!Rows \union {None}], NEW items \in Seq(Parcel), NEW p \in Products,
           NEW res, res = Cat!Upserted(products, items)[p]
    PROVE  /\ res \in Cat!Rows \union {None}
           /\ (\A n \in DOMAIN items : items[n].id # p) => res = products[p]
           /\ products[p] # None => res # None /\ (products[p].photo => res.photo)
           /\ \A n \in DOMAIN items : items[n].id = p =>
                 /\ res # None /\ (items[n].photo => res.photo)
                 /\ (\A m \in DOMAIN items : m > n => items[m].id # p) =>
                       res.cat = items[n].cat /\ res.stock = items[n].stock
           /\ res # None => \/ products[p] # None /\ res.cat = products[p].cat
                            \/ \E n \in DOMAIN items : res.cat = items[n].cat
<1> DEFINE lines == {n \in DOMAIN items : items[n].id = p}
           k == Cat!Max(lines)
           old == IF products[p] = None THEN [photo |-> FALSE, tags |-> {}] ELSE products[p]
           photo == old.photo \/ \E n \in lines : items[n].photo
           tags == old.tags \union UNION {items[n].tags : n \in lines}
           made == [cat |-> items[k].cat, stock |-> items[k].stock, photo |-> photo, tags |-> tags]
<1>1. res = IF lines = {} THEN products[p] ELSE made
  BY DEF Cat!Upserted
<1>2. products[p] \in Cat!Rows \union {None}
  OBVIOUS
<1>3. CASE lines = {}
  <2>1. res = products[p] /\ \A n \in DOMAIN items : items[n].id # p
    BY <1>1, <1>3
  <2>2. QED
    BY <1>2, <2>1
<1>4. CASE lines # {}
  <2>1. DOMAIN items = 1 .. Len(items) /\ Len(items) \in Nat /\ \A n \in DOMAIN items : items[n] \in Parcel
    OBVIOUS
  <2>2. lines \in SUBSET Nat /\ IsFiniteSet(lines)
    <3>1. lines \subseteq 1 .. Len(items) /\ IsFiniteSet(1 .. Len(items))
      BY <2>1, FS_Interval
    <3>2. QED
      BY <3>1, FS_Subset
  <2>3. k \in lines /\ \A n \in lines : n <= k
    <3> HIDE DEF lines
    <3>1. QED
      BY <1>4, <2>2, MaxIsGreatest
  <2> HIDE DEF k
  <2>4. /\ items[k].cat \in Cats /\ items[k].stock \in BOOLEAN
        /\ \A n \in lines : items[n].photo \in BOOLEAN /\ items[n].tags \in SUBSET Cat!Tags
    BY <2>1, <2>3 DEF Parcel
  <2>5. old.photo \in BOOLEAN /\ old.tags \in SUBSET Cat!Tags /\ (products[p] # None => old = products[p])
    BY <1>2 DEF Cat!Rows
  <2>6. photo \in BOOLEAN /\ tags \in SUBSET Cat!Tags
    BY <2>4, <2>5
  <2>7. /\ old.photo => photo
        /\ \A n \in lines : items[n].photo => photo
    OBVIOUS
  <2> HIDE DEF old, photo, tags
  <2>8. res \in Cat!Rows /\ res.cat = items[k].cat /\ res.stock = items[k].stock /\ (res.photo <=> photo)
    BY <1>1, <1>4, <2>4, <2>6 DEF Cat!Rows
  <2>9. res # None
    BY <2>8, CatalogueAssumption
  <2>10. ASSUME NEW n \in DOMAIN items, items[n].id = p
         PROVE  /\ items[n].photo => res.photo
                /\ (\A m \in DOMAIN items : m > n => items[m].id # p) =>
                       res.cat = items[n].cat /\ res.stock = items[n].stock
    <3>1. n \in lines /\ k \in DOMAIN items /\ items[k].id = p /\ (k = n \/ k > n)
      BY <2>1, <2>3, <2>10
    <3>2. QED
      BY <2>7, <2>8, <3>1
  <2>11. k \in DOMAIN items /\ \E n \in DOMAIN items : items[n].id = p
    BY <2>3
  <2> HIDE DEF lines
  <2>12. QED
    BY <2>5, <2>7, <2>8, <2>9, <2>10, <2>11
<1>5. QED
  BY <1>3, <1>4

\* The ranking of _TOP5_SQL is strict and total.
LEMMA RankingIsStrict ==
    ASSUME sold \in [Products -> Nat], NEW p \in Products, NEW q \in Products
    PROVE  /\ p # q => Cat!Outranks(p, q) \/ Cat!Outranks(q, p)
           /\ ~Cat!Outranks(p, p)
           /\ \A x \in Products : Cat!Outranks(p, q) /\ Cat!Outranks(x, p) => Cat!Outranks(x, q)
<1>1. p \in Nat /\ q \in Nat /\ \A x \in Products : x \in Nat /\ sold[x] \in Nat
  BY CatalogueAssumption
<1>2. QED
  BY <1>1 DEF Cat!Outranks

\* Two products of a category never have the same place.
LEMMA PlacesDiffer ==
    ASSUME sold \in [Products -> Nat], NEW p \in Products, NEW q \in Products, p # q,
           Cat!Shown(p), Cat!Shown(q), products[p].cat = products[q].cat
    PROVE  Cat!Place(p) # Cat!Place(q)
<1> DEFINE Better(x) == {y \in Products : Cat!Shown(y) /\ products[y].cat = products[x].cat /\ Cat!Outranks(y, x)}
<1>1. \A x \in Products : /\ IsFiniteSet(Better(x)) /\ Cardinality(Better(x)) \in Nat
                          /\ Cat!Place(x) = 1 + Cardinality(Better(x))
  BY CatalogueAssumption, FS_Subset, FS_CardinalityType, SameSizes DEF Cat!Place
<1>2. ASSUME NEW x \in Products, NEW y \in Products, Cat!Shown(x), products[x].cat = products[y].cat, Cat!Outranks(x, y)
      PROVE  Cardinality(Better(x)) # Cardinality(Better(y))
  <2>1. Better(x) \subseteq Better(y) /\ x \in Better(y) /\ x \notin Better(x)
    BY <1>2, RankingIsStrict
  <2> HIDE DEF Better
  <2>2. QED
    BY <1>1, <2>1, FS_Subset
<1>3. Cat!Outranks(p, q) \/ Cat!Outranks(q, p)
  BY RankingIsStrict
<1>4. Cardinality(Better(p)) # Cardinality(Better(q))
  <2> HIDE DEF Better
  <2>1. QED
    BY <1>2, <1>3
<1> HIDE DEF Better
<1>5. QED
  BY <1>1, <1>4

LEMMA RankedIsGood ==
    ASSUME TablesOk, NEW L, L = {t \in Cat!Ranked : t.pos <= TopN}
    PROVE  OnePlaceEach(L) /\ \A t \in L : RefersTo(t, cats, products)
<1>1. TopN \in Nat
  BY CatalogueAssumption
<1>2. ASSUME NEW p \in Products PROVE Cat!Place(p) \in Nat \ {0}
  <2> DEFINE Better == {y \in Products : Cat!Shown(y) /\ products[y].cat = products[p].cat /\ Cat!Outranks(y, p)}
  <2>1. Cardinality(Better) \in Nat /\ Cat!Place(p) = 1 + Cardinality(Better)
    BY CatalogueAssumption, FS_Subset, FS_CardinalityType, SameSizes DEF Cat!Place
  <2> HIDE DEF Better
  <2>2. QED
    BY <2>1
<1>3. \A t \in L : /\ t.id \in Products /\ Cat!Shown(t.id) /\ t.cat = products[t.id].cat /\ t.pos = Cat!Place(t.id)
                   /\ t.pos <= TopN /\ t = [cat |-> t.cat, pos |-> t.pos, id |-> t.id]
  BY DEF Cat!Ranked
<1>4. \A p \in Products : Cat!Shown(p) => products[p] # None /\ products[p].cat \in Cats /\ cats[products[p].cat] > 0
  BY DEF Cat!Shown, TablesOk, Cat!Rows
<1>5. \A t \in L : RefersTo(t, cats, products)
  BY <1>1, <1>2, <1>3, <1>4 DEF RefersTo
<1>6. OnePlaceEach(L)
  BY <1>3, PlacesDiffer DEF OnePlaceEach, TablesOk
<1>7. QED
  BY <1>5, <1>6

\* The insert of categories: places stay unique and every new one gets a row.
LEMMA CategoriesAdded ==
    ASSUME TablesOk, NEW new, NEW start \in Nat, Numbered(new), Cat!Insertable(new, start),
           NEW cs, cs = Cat!WithCategories(new, start)
    PROVE  /\ cs \in [Cats -> Nat] /\ \A c \in Cats : cats[c] > 0 \/ c \in DOMAIN new => cs[c] > 0
           /\ \A c, d \in Cats : c # d /\ cs[c] > 0 => cs[c] # cs[d]
<1>1. cats \in [Cats -> Nat] /\ \A c, d \in Cats : c # d /\ cats[c] > 0 => cats[c] # cats[d]
  BY DEF TablesOk
<1>2. \A c \in Cats : cs[c] = IF c \in DOMAIN new THEN start + new[c] ELSE cats[c]
  BY DEF Cat!WithCategories
<1>3. \A c \in DOMAIN new : start + new[c] \in Nat \ {0}
  BY DEF Numbered
<1>4. cs \in [Cats -> Nat]
  BY <1>1, <1>3 DEF Cat!WithCategories
<1>5. \A c \in Cats : cats[c] > 0 \/ c \in DOMAIN new => cs[c] > 0
  BY <1>1, <1>2, <1>3 DEF Cat!Insertable
<1>6. ASSUME NEW c \in Cats, NEW d \in Cats, c # d, cs[c] > 0 PROVE cs[c] # cs[d]
  <2>1. CASE c \in DOMAIN new /\ d \in DOMAIN new
    <3>1. new[c] \in Nat /\ new[d] \in Nat /\ new[c] # new[d]
      BY <1>6, <2>1 DEF Numbered
    <3>2. QED
      BY <1>2, <2>1, <3>1
  <2>2. CASE c \in DOMAIN new /\ d \notin DOMAIN new
    BY <1>2, <2>2 DEF Cat!Insertable
  <2>3. CASE c \notin DOMAIN new /\ d \in DOMAIN new
    BY <1>2, <2>3 DEF Cat!Insertable
  <2>4. CASE c \notin DOMAIN new /\ d \notin DOMAIN new
    BY <1>1, <1>2, <1>6, <2>4
  <2>5. QED
    BY <2>1, <2>2, <2>3, <2>4
<1>7. QED
  BY <1>4, <1>5, <1>6

-----------------------------------------------------------------------------
(* What the steps of a writer leave the others and itself.                 *)

\* Rows of categories and products are never deleted.
Grown(cs, ps, cs2, ps2) == /\ \A c \in Cats : cs[c] > 0 => cs2[c] > 0
                           /\ \A p \in Products : ps[p] # None => ps2[p] # None

LEMMA SteadyStays ==
    ASSUME NEW cs, NEW ps, NEW cs2, NEW ps2, Grown(cs, ps, cs2, ps2), NEW w, Steady(w, cs, ps)
    PROVE  Steady(w, cs2, ps2)
<1>1. w.pc = "top" => \A t \in w.rows : RefersTo(t, cs2, ps2)
  BY DEF Steady, RefersTo, Grown
<1>2. w.pc \in {"insert", "upsert"} => \A n \in DOMAIN w.items : w.items[n].cat \in Cats
  <2>1. w.pc \in {"insert", "upsert"} => w.items \in Seq(Parcel)
    BY DEF Steady, Carries
  <2>2. \A x \in Parcel : x.cat \in Cats
    BY DEF Parcel
  <2>3. \A items \in Seq(Parcel) : \A n \in DOMAIN items : items[n] \in Parcel
    OBVIOUS
  <2>4. QED
    BY <2>1, <2>2, <2>3
<1>3. w.pc = "insert" => Placed(w.items, w.new, cs2)
  BY <1>2 DEF Steady, Placed, Grown
<1>4. w.pc = "upsert" => \A n \in DOMAIN w.items : cs2[w.items[n].cat] > 0
  BY <1>2 DEF Steady, Grown
<1>5. QED
  BY <1>1, <1>3, <1>4 DEF Steady

LEMMA MarkedIsSteady ==
    ASSUME NEW cs, NEW ps, NEW w, IsWriter(w), Steady(w, cs, ps)
    PROVE  Steady(Marked(w), cs, ps) /\ ~Marked(w).clean
<1>1. /\ Marked(w).pc = w.pc /\ Marked(w).rows = w.rows /\ Marked(w).items = w.items /\ Marked(w).page = w.page
      /\ Marked(w).new = w.new /\ Marked(w).start = w.start /\ ~Marked(w).clean
  BY DEF IsWriter, IsRecord, Marked, Fields
<1> HIDE DEF Marked
<1>2. QED
  BY <1>1 DEF Steady, Carries

\* A writer moves: alone, or marking the others.
Moves(r, w) == \/ writer' = [writer EXCEPT ![r] = w] /\ UNCHANGED <<listing, cats, products>>
               \/ Cat!Step(r, w)

LEMMA WritersMove ==
    ASSUME CatInv, NEW r \in Runners, NEW w, Moves(r, w), Grown(cats, products, cats', products'),
           Steady(w, cats', products'), w.clean => Fresh(w, listing', cats', products')
    PROVE  WritersOk'
<1>1. DOMAIN writer = Runners /\ \A q \in Runners : IsWriter(writer[q])
  BY DEF CatInv, ListInv
<1>2. \A q \in Runners : Steady(writer[q], cats, products) /\ (writer[q].clean => Fresh(writer[q], listing, cats, products))
  BY DEF CatInv, WritersOk
<1>3. \A q \in Runners : Steady(writer[q], cats', products')
  BY <1>2, SteadyStays
<1>4. CASE writer' = [writer EXCEPT ![r] = w] /\ UNCHANGED <<listing, cats, products>>
  <2>1. \A q \in Runners : writer'[q] = w \/ writer'[q] = writer[q]
    BY <1>1, <1>4
  <2>2. QED
    BY <1>2, <1>4, <2>1 DEF WritersOk
<1>5. CASE Cat!Step(r, w)
  <2>1. writer' = [[q \in Runners |-> Marked(writer[q])] EXCEPT ![r] = w]
    BY <1>5 DEF Cat!Step, Cat!Disturb, Marked
  <2>2. \A q \in Runners : writer'[q] = w \/ writer'[q] = Marked(writer[q])
    BY <2>1
  <2>3. \A q \in Runners : Steady(Marked(writer[q]), cats', products') /\ ~Marked(writer[q]).clean
    BY <1>1, <1>3, MarkedIsSteady
  <2>4. QED
    BY <2>2, <2>3 DEF WritersOk
<1>6. QED
  BY <1>4, <1>5 DEF Moves

\* All are marked.
LEMMA WritersDisturbed ==
    ASSUME CatInv, Grown(cats, products, cats', products'), writer' = Cat!Disturb(writer)
    PROVE  WritersOk'
<1>1. writer' = [q \in Runners |-> Marked(writer[q])]
  BY DEF Cat!Disturb, Marked
<1>2. \A q \in Runners : IsWriter(writer[q]) /\ Steady(writer[q], cats', products')
  BY SteadyStays DEF CatInv, ListInv, WritersOk
<1>3. \A q \in Runners : Steady(Marked(writer[q]), cats', products') /\ ~Marked(writer[q]).clean
  BY <1>2, MarkedIsSteady
<1>4. \A q \in Runners : writer'[q] = Marked(writer[q])
  BY <1>1
<1>5. QED
  BY <1>3, <1>4 DEF WritersOk

LEMMA IdleIsSteady == \A cs, ps : Steady(Cat!Idle, cs, ps) /\ ~Cat!Idle.clean
BY DEF Cat!Idle, Steady, Carries, Stages, Cat!Pulling

\* The lines of a listing, and what a page of it is.
LEMMA ListingIsSeq ==
    ASSUME NEW ls \in Listings
    PROVE  /\ ls \in Seq(Parcel) /\ Len(ls) \in Nat /\ DOMAIN ls = 1 .. Len(ls)
           /\ \A n \in DOMAIN ls : ls[n] \in Parcel
<1>1. ls \in Seq(Cat!Items)
  BY CatalogueAssumption
<1>2. Cat!Items \subseteq Parcel
  BY DEF Cat!Items, Parcel
<1>3. QED
  BY <1>1, <1>2, SeqMonotonic

LEMMA PageBounds ==
    ASSUME NEW page \in Nat \ {0}
    PROVE  /\ Before(page) \in Nat /\ page * PageSize \in Nat /\ Before(page + 1) = page * PageSize
           /\ page * PageSize > Before(page) /\ Before(1) = 0
<1>1. PageSize \in Nat \ {0}
  BY CatalogueAssumption
<1>2. QED
  BY <1>1 DEF Before

LEMMA PageIsPart ==
    ASSUME NEW ls \in Listings, NEW page \in Nat \ {0}
    PROVE  /\ PageOf(page, ls) \in Seq(Parcel)
           /\ PageEnd(page, ls) \in Nat /\ PageEnd(page, ls) <= Len(ls)
           /\ DOMAIN PageOf(page, ls) = {i \in Nat \ {0} : Before(page) + i <= PageEnd(page, ls)}
           /\ \A i \in DOMAIN PageOf(page, ls) : /\ Before(page) + i \in DOMAIN ls
                                                 /\ PageOf(page, ls)[i] = ls[Before(page) + i]
           /\ PageOf(page, ls) = <<>> => Before(page) >= Len(ls)
<1> DEFINE b == Before(page)
           e == PageEnd(page, ls)
           s == SubSeq(ls, b + 1, e)
<1>1. b \in Nat /\ page * PageSize \in Nat /\ page * PageSize > b
  BY PageBounds
<1>2. e \in Nat /\ e <= Len(ls) /\ (e = Len(ls) \/ e > b)
  BY <1>1, ListingIsSeq DEF PageEnd
<1>3. s = PageOf(page, ls)
  BY DEF PageOf
<1> HIDE DEF b, e
<1>4. \A i \in b + 1 .. e : i \in DOMAIN ls /\ ls[i] \in Parcel
  BY <1>1, <1>2, ListingIsSeq
<1>5. /\ s \in Seq(Parcel) /\ Len(s) = IF b + 1 <= e THEN e - (b + 1) + 1 ELSE 0
      /\ \A i \in 1 .. e - (b + 1) + 1 : s[i] = ls[b + 1 + i - 1]
  <2>1. b + 1 \in Int /\ e \in Int
    BY <1>1, <1>2
  <2>2. QED
    BY <1>4, <2>1, SubSeqProperties
<1> HIDE DEF s
<1>6. DOMAIN s = 1 .. Len(s)
  BY <1>5
<1>7. DOMAIN s = {i \in Nat \ {0} : b + i <= e}
  BY <1>1, <1>2, <1>5, <1>6
<1>8. \A i \in DOMAIN s : b + i \in DOMAIN ls /\ s[i] = ls[b + i]
  <2>1. \A i \in DOMAIN s : i \in 1 .. e - (b + 1) + 1 /\ b + i \in b + 1 .. e /\ b + 1 + i - 1 = b + i
    BY <1>1, <1>2, <1>7
  <2>2. QED
    BY <1>4, <1>5, <2>1
<1>9. s = <<>> => b >= Len(ls)
  BY <1>1, <1>2, <1>5
<1>10. QED
  BY <1>2, <1>3, <1>5, <1>7, <1>8, <1>9 DEF b, e

\* Writing a page brings its lines, and keeps the lines before it but where it
\* lists a product again.
LEMMA PageArrives ==
    ASSUME TablesOk, NEW page \in Nat \ {0}, Brought(Before(page), listing, products),
           NEW ps, ps = Cat!Upserted(products, PageOf(page, listing))
    PROVE  Brought(PageEnd(page, listing), listing, ps)
<1> DEFINE items == PageOf(page, listing)
           b == Before(page)
           e == PageEnd(page, listing)
<1>1. /\ items \in Seq(Parcel) /\ e \in Nat /\ b \in Nat /\ DOMAIN items = {i \in Nat \ {0} : b + i <= e}
      /\ \A i \in DOMAIN items : b + i \in DOMAIN listing /\ items[i] = listing[b + i]
  BY PageIsPart, PageBounds DEF TablesOk
<1>2. products \in [Products -> Cat!Rows \union {None}]
  BY DEF TablesOk
<1>3. /\ DOMAIN listing \subseteq Nat
      /\ \A n \in DOMAIN listing : listing[n].id \in Products
  BY ListingIsSeq DEF TablesOk, Parcel
<1> HIDE DEF items, b, e
<1>4. SUFFICES ASSUME NEW n \in DOMAIN listing, n <= e PROVE Arrived(n, e, listing, ps)
  BY DEF Brought, e
<1> DEFINE p == listing[n].id
<1>5. p \in Products /\ n \in Nat
  BY <1>3
<1>6. /\ (\A i \in DOMAIN items : items[i].id # p) => ps[p] = products[p]
      /\ products[p] # None => ps[p] # None /\ (products[p].photo => ps[p].photo)
      /\ \A i \in DOMAIN items : items[i].id = p =>
            /\ ps[p] # None /\ (items[i].photo => ps[p].photo)
            /\ (\A m \in DOMAIN items : m > i => items[m].id # p) =>
                  ps[p].cat = items[i].cat /\ ps[p].stock = items[i].stock
  <2>1. ps[p] = Cat!Upserted(products, items)[p]
    BY DEF items
  <2> HIDE DEF p
  <2>2. items \in Seq(Parcel)
    BY <1>1
  <2> DEFINE new == ps[p]
  <2>3. new = Cat!Upserted(products, items)[p]
    BY <2>1
  <2> HIDE DEF new
  <2>4. /\ (\A i \in DOMAIN items : items[i].id # p) => new = products[p]
        /\ products[p] # None => new # None /\ (products[p].photo => new.photo)
        /\ \A i \in DOMAIN items : items[i].id = p =>
            /\ new # None /\ (items[i].photo => new.photo)
            /\ (\A m \in DOMAIN items : m > i => items[m].id # p) =>
                  new.cat = items[i].cat /\ new.stock = items[i].stock
    BY <1>2, <1>5, <2>2, <2>3, UpsertedRow
  <2>5. QED
    BY <2>4 DEF new
<1>7. CASE n <= b
  <2>1. /\ products[p] # None /\ (listing[n].photo => products[p].photo)
        /\ (\A m \in DOMAIN listing : n < m /\ m <= b => listing[m].id # p) =>
              products[p].cat = listing[n].cat /\ products[p].stock = listing[n].stock
    BY <1>7 DEF Brought, Arrived, b
  <2>2. ASSUME \A m \in DOMAIN listing : n < m /\ m <= e => listing[m].id # p
        PROVE  ps[p].cat = listing[n].cat /\ ps[p].stock = listing[n].stock
    <3>1. \A i \in DOMAIN items : items[i].id # p
      <4>1. \A i \in DOMAIN items : n < b + i /\ b + i <= e
        BY <1>1, <1>5, <1>7
      <4>2. QED
        BY <1>1, <2>2, <4>1
    <3>2. ps[p] = products[p]
      BY <1>6, <3>1
    <3>3. CASE b <= e
      <4>1. \A m \in DOMAIN listing : n < m /\ m <= b => listing[m].id # p
        BY <1>1, <1>3, <2>2, <3>3
      <4>2. QED
        BY <2>1, <3>2, <4>1
    <3>4. CASE ~(b <= e)
      <4>1. e = Len(listing) /\ DOMAIN listing = 1 .. Len(listing)
        BY <1>1, <3>4, PageBounds, ListingIsSeq DEF e, b, PageEnd, TablesOk
      <4>2. \A m \in DOMAIN listing : n < m /\ m <= b => listing[m].id # p
        BY <1>1, <2>2, <4>1
      <4>3. QED
        BY <2>1, <3>2, <4>2
    <3>5. QED
      BY <3>3, <3>4
  <2>3. QED
    BY <1>6, <2>1, <2>2 DEF Arrived
<1>8. CASE n > b
  <2>1. PICK i \in DOMAIN items : n = b + i /\ items[i] = listing[n]
    <3>1. n - b \in DOMAIN items /\ b + (n - b) = n
      BY <1>1, <1>4, <1>5, <1>8
    <3>2. QED
      BY <1>1, <3>1
  <2>2. ASSUME \A m \in DOMAIN listing : n < m /\ m <= e => listing[m].id # p
        PROVE  \A m \in DOMAIN items : m > i => items[m].id # p
    <3>1. \A m \in DOMAIN items : m > i => b + m \in DOMAIN listing /\ n < b + m /\ b + m <= e /\ items[m] = listing[b + m]
      BY <1>1, <2>1
    <3>2. QED
      BY <2>2, <3>1
  <2>3. QED
    BY <1>6, <2>1, <2>2 DEF Arrived
<1>9. QED
  BY <1>1, <1>5, <1>7, <1>8

-----------------------------------------------------------------------------
(* Every step keeps the tables and the writers in order.                   *)

LEMMA CountedChange == ASSUME TablesOk, Cat!Change \/ UNCHANGED catChanges PROVE catChanges' \in 0 .. CatalogueChanges
<1>1. CatalogueChanges \in Nat /\ catChanges \in 0 .. CatalogueChanges
  BY CatalogueAssumption DEF TablesOk
<1>2. QED
  BY <1>1 DEF Cat!Change

LEMMA TablesSame ==
    ASSUME TablesOk, UNCHANGED <<listing, products, cats, top5, sold, fileAnswer>>, Cat!Change \/ UNCHANGED catChanges
    PROVE  TablesOk' /\ Grown(cats, products, cats', products')
BY CountedChange DEF TablesOk, Grown

\* A writer that only moves on.
LEMMA WriterMovesOn ==
    ASSUME CatInv, NEW r \in Runners, NEW w, writer' = [writer EXCEPT ![r] = w],
           UNCHANGED <<listing, products, cats, top5, sold, fileAnswer>>, Cat!Change \/ UNCHANGED catChanges,
           Steady(w, cats, products), w.clean => Fresh(w, listing, cats, products)
    PROVE  TablesOk' /\ WritersOk'
<1>1. TablesOk' /\ Grown(cats, products, cats', products')
  BY TablesSame DEF CatInv
<1>2. /\ Moves(r, w) /\ Steady(w, cats', products')
      /\ w.clean => Fresh(w, listing', cats', products')
  BY DEF Moves
<1>3. QED
  BY <1>1, <1>2, WritersMove

LEMMA WriterIs ==
    ASSUME CatInv, NEW r \in Runners
    PROVE  /\ IsWriter(writer[r]) /\ IsRecord(writer[r], Fields) /\ DOMAIN writer = Runners
           /\ Steady(writer[r], cats, products) /\ Carries(writer[r])
           /\ writer[r].clean => Fresh(writer[r], listing, cats, products)
BY DEF CatInv, ListInv, WritersOk, IsWriter, Steady

LEMMA PullBegins == ASSUME CatInv, NEW r \in Runners, Cat!BeginPull(r) PROVE TablesOk' /\ WritersOk'
<1> DEFINE w == [Cat!Idle EXCEPT !.pc = "fetch", !.page = 1, !.clean = TRUE]
<1>1. w.pc = "fetch" /\ w.page = 1
  BY DEF Cat!Idle
<1>2. /\ writer' = [writer EXCEPT ![r] = w] /\ UNCHANGED <<listing, products, cats, top5, sold, fileAnswer>>
      /\ Cat!Change
  BY DEF Cat!BeginPull
<1> HIDE DEF w
<1>3. Brought(Before(1), listing, products)
  BY PageBounds, ListingIsSeq DEF Brought, CatInv, TablesOk
<1>4. Steady(w, cats, products) /\ Fresh(w, listing, cats, products)
  BY <1>1, <1>3 DEF Steady, Carries, Fresh, Stages, Cat!Pulling
<1>5. QED
  BY <1>2, <1>4, WriterMovesOn

LEMMA PageFetched == ASSUME CatInv, NEW r \in Runners, Cat!Fetch(r) PROVE TablesOk' /\ WritersOk'
<1> DEFINE v == writer[r]
           items == PageOf(v.page, listing)
           c == IF items = <<>> THEN "done" ELSE "ensure"
           w == [v EXCEPT !.pc = c, !.items = items, !.total = Len(listing)]
<1>1. /\ v.pc = "fetch" /\ UNCHANGED <<listing, products, cats, top5, sold, fileAnswer, catChanges>>
      /\ writer' = [writer EXCEPT ![r].pc = c, ![r].items = items, ![r].total = Len(listing)]
  BY DEF Cat!Fetch, PageOf, PageEnd, Before
<1>2. IsRecord(v, Fields) /\ DOMAIN writer = Runners /\ Carries(v) /\ (v.clean => Fresh(v, listing, cats, products))
  BY WriterIs
<1>3. v.page \in Nat \ {0} /\ listing \in Listings
  BY <1>1, <1>2 DEF Carries, Cat!Pulling, CatInv, TablesOk
<1> HIDE DEF items
<1>4. writer' = [writer EXCEPT ![r] = w]
  BY <1>1, <1>2
<1>5. /\ w.pc = c /\ w.items = items /\ w.total = Len(listing) /\ w.page = v.page /\ w.clean = v.clean
  BY <1>2 DEF IsRecord, Fields
<1>6. items \in Seq(Parcel) /\ (items = <<>> => Before(v.page) >= Len(listing))
  BY <1>3, PageIsPart DEF items
<1>7. v.clean => Brought(Before(v.page), listing, products)
  BY <1>1, <1>2 DEF Fresh, Cat!Pulling
<1> HIDE DEF w, v
<1>8. Steady(w, cats, products)
  BY <1>3, <1>5, <1>6 DEF Steady, Carries, Stages, Cat!Pulling
<1>9. v.clean /\ items = <<>> => Brought(Len(listing), listing, products)
  <2>1. SUFFICES ASSUME v.clean, items = <<>> PROVE Brought(Len(listing), listing, products)
    OBVIOUS
  <2>2. Before(v.page) \in Nat /\ DOMAIN listing = 1 .. Len(listing) /\ Len(listing) \in Nat
    BY <1>3, PageBounds, ListingIsSeq
  <2>3. \A m \in DOMAIN listing : m <= Len(listing) /\ m <= Before(v.page)
    BY <1>6, <2>1, <2>2
  <2>4. QED
    BY <1>7, <2>1, <2>3 DEF Brought, Arrived
<1>10. w.clean => Fresh(w, listing, cats, products)
  <2>1. CASE items = <<>>
    BY <1>5, <1>9, <2>1 DEF Fresh, Cat!Pulling
  <2>2. CASE items # <<>>
    BY <1>5, <1>7, <2>2 DEF Fresh, Cat!Pulling, items
  <2>3. QED
    BY <2>1, <2>2
<1>11. QED
  BY <1>1, <1>4, <1>8, <1>10, WriterMovesOn

LEMMA CategoriesRead == ASSUME CatInv, NEW r \in Runners, Cat!EnsureCategories(r) PROVE TablesOk' /\ WritersOk'
<1> DEFINE v == writer[r]
           new == Cat!NewCategories(v.items)
           c == IF DOMAIN new = {} THEN "upsert" ELSE "insert"
           w == [v EXCEPT !.pc = c, !.new = new, !.start = Cat!LastOrder]
<1>1. /\ v.pc = "ensure" /\ UNCHANGED <<listing, products, cats, top5, sold, fileAnswer, catChanges>>
      /\ writer' = [writer EXCEPT ![r].pc = c, ![r].new = new, ![r].start = Cat!LastOrder]
  BY DEF Cat!EnsureCategories
<1>2. IsRecord(v, Fields) /\ DOMAIN writer = Runners /\ Carries(v) /\ (v.clean => Fresh(v, listing, cats, products))
  BY WriterIs
<1>3. v.items \in Seq(Parcel) /\ v.page \in Nat \ {0} /\ cats \in [Cats -> Nat]
  BY <1>1, <1>2 DEF Carries, Cat!Pulling, CatInv, TablesOk
<1>4. Cat!LastOrder \in Nat
  BY <1>3, StartIsLast
<1>5. Numbered(new) /\ Placed(v.items, new, cats)
  <2>1. \A x \in Parcel : x.cat \in Cats
    BY DEF Parcel
  <2>2. \A n \in DOMAIN v.items : v.items[n].cat \in Cats
    BY <1>3, <2>1
  <2>3. QED
    BY <1>3, <2>2, NewAreNumbered
<1> HIDE DEF new
<1>6. writer' = [writer EXCEPT ![r] = w]
  BY <1>1, <1>2
<1>7. /\ w.pc = c /\ w.new = new /\ w.start = Cat!LastOrder
      /\ w.items = v.items /\ w.total = v.total /\ w.page = v.page /\ w.clean = v.clean
  BY <1>2 DEF IsRecord, Fields
<1> HIDE DEF w, v
<1>8. Steady(w, cats, products)
  BY <1>3, <1>4, <1>5, <1>7 DEF Steady, Carries, Stages, Cat!Pulling, Placed
<1>9. w.clean => Fresh(w, listing, cats, products)
  BY <1>1, <1>2, <1>7 DEF Fresh, Cat!Pulling, v
<1>10. QED
  BY <1>1, <1>6, <1>8, <1>9, WriterMovesOn

LEMMA CategoriesInserted == ASSUME CatInv, NEW r \in Runners, Cat!InsertCategories(r) PROVE TablesOk' /\ WritersOk'
<1> DEFINE v == writer[r]
           w == [v EXCEPT !.pc = "upsert"]
<1>1. /\ v.pc = "insert" /\ UNCHANGED <<listing, products, top5, sold, fileAnswer, catChanges>>
      /\ IF Cat!Insertable(v.new, v.start)
         THEN cats' = Cat!WithCategories(v.new, v.start) /\ Cat!Step(r, w)
         ELSE writer' = [writer EXCEPT ![r] = Cat!Idle] /\ UNCHANGED cats
  BY DEF Cat!InsertCategories
<1>2. /\ IsRecord(v, Fields) /\ DOMAIN writer = Runners /\ Steady(v, cats, products) /\ Carries(v)
      /\ v.clean => Fresh(v, listing, cats, products)
  BY WriterIs
<1>3. /\ v.items \in Seq(Parcel) /\ v.page \in Nat \ {0} /\ Numbered(v.new) /\ v.start \in Nat
      /\ Placed(v.items, v.new, cats)
  BY <1>1, <1>2 DEF Carries, Steady, Cat!Pulling
<1>4. CASE Cat!Insertable(v.new, v.start)
  <2>1. /\ w.pc = "upsert" /\ w.items = v.items /\ w.total = v.total /\ w.page = v.page /\ w.clean = v.clean
    BY <1>2 DEF IsRecord, Fields
  <2> HIDE DEF w, v
  <2>2. cats' = Cat!WithCategories(v.new, v.start) /\ Cat!Step(r, w)
    BY <1>1, <1>4
  <2>3. /\ cats' \in [Cats -> Nat] /\ \A c \in Cats : cats[c] > 0 \/ c \in DOMAIN v.new => cats'[c] > 0
        /\ \A c, d \in Cats : c # d /\ cats'[c] > 0 => cats'[c] # cats'[d]
    BY <1>3, <1>4, <2>2, CategoriesAdded DEF CatInv
  <2>4. Grown(cats, products, cats', products')
    BY <1>1, <2>3 DEF Grown
  <2>5. TablesOk'
    BY <1>1, <2>3 DEF TablesOk, CatInv, RefersTo, Cat!Rows
  <2>6. \A n \in DOMAIN v.items : cats'[v.items[n].cat] > 0
    <3>1. \A n \in DOMAIN v.items : v.items[n].cat \in Cats
      <4>1. \A x \in Parcel : x.cat \in Cats
        BY DEF Parcel
      <4>2. QED
        BY <1>3, <4>1
    <3>2. QED
      BY <1>3, <2>3, <3>1 DEF Placed
  <2>7. Steady(w, cats', products')
    BY <1>3, <2>1, <2>6 DEF Steady, Carries, Stages, Cat!Pulling
  <2>8. w.clean => Fresh(w, listing', cats', products')
    BY <1>1, <1>2, <2>1 DEF Fresh, Cat!Pulling, v
  <2>9. WritersOk'
    BY <2>2, <2>4, <2>7, <2>8, WritersMove DEF Moves
  <2>10. QED
    BY <2>5, <2>9
<1>5. CASE ~Cat!Insertable(v.new, v.start)
  BY <1>1, <1>5, IdleIsSteady, WriterMovesOn
<1>6. QED
  BY <1>4, <1>5

\* The products statement, with every category of its lines in the table cs.
LEMMA ProductsWritten ==
    ASSUME TablesOk, NEW items \in Seq(Parcel), NEW ps, ps = Cat!Upserted(products, items), NEW cs,
           \A c \in Cats : cats[c] > 0 => cs[c] > 0, \A n \in DOMAIN items : cs[items[n].cat] > 0
    PROVE  /\ ps \in [Products -> Cat!Rows \union {None}]
           /\ \A p \in Products : /\ products[p] # None => ps[p] # None
                                  /\ ps[p] # None => cs[ps[p].cat] > 0
           /\ \A n \in DOMAIN items : ps[items[n].id] # None
<1>1. /\ products \in [Products -> Cat!Rows \union {None}]
      /\ \A p \in Products : products[p] # None => cats[products[p].cat] > 0 /\ products[p].cat \in Cats
  BY DEF TablesOk, Cat!Rows
<1>2. ASSUME NEW p \in Products
      PROVE  /\ ps[p] \in Cat!Rows \union {None} /\ (products[p] # None => ps[p] # None)
             /\ ps[p] # None => cs[ps[p].cat] > 0
             /\ \A n \in DOMAIN items : items[n].id = p => ps[p] # None
  <2> DEFINE res == ps[p]
  <2>1. res = Cat!Upserted(products, items)[p]
    OBVIOUS
  <2> HIDE DEF res
  <2>2. /\ res \in Cat!Rows \union {None} /\ (products[p] # None => res # None)
        /\ \A n \in DOMAIN items : items[n].id = p => res # None
        /\ res # None => \/ products[p] # None /\ res.cat = products[p].cat
                         \/ \E n \in DOMAIN items : res.cat = items[n].cat
    BY <1>1, <2>1, UpsertedRow
  <2>3. QED
    BY <1>1, <2>2 DEF res
<1>3. DOMAIN ps = Products /\ ps = [p \in Products |-> ps[p]]
  BY DEF Cat!Upserted
<1>4. \A n \in DOMAIN items : items[n].id \in Products
  <2>1. \A x \in Parcel : x.id \in Products
    BY DEF Parcel
  <2>2. QED
    BY <2>1
<1>5. ps \in [Products -> Cat!Rows \union {None}]
  BY <1>2, <1>3
<1>6. QED
  BY <1>2, <1>4, <1>5

LEMMA PageUpserted == ASSUME CatInv, NEW r \in Runners, Cat!UpsertPage(r) PROVE TablesOk' /\ WritersOk'
<1> DEFINE v == writer[r]
           more == [v EXCEPT !.pc = "fetch", !.page = v.page + 1]
           done == [v EXCEPT !.pc = "done"]
           w == IF Cat!MorePages(v) THEN more ELSE done
<1>1. /\ v.pc = "upsert" /\ UNCHANGED <<listing, cats, top5, sold, fileAnswer, catChanges>>
      /\ products' = Cat!Upserted(products, v.items) /\ Cat!Step(r, w)
  BY DEF Cat!UpsertPage
<1>2. /\ IsRecord(v, Fields) /\ DOMAIN writer = Runners /\ Steady(v, cats, products) /\ Carries(v)
      /\ v.clean => Fresh(v, listing, cats, products)
  BY WriterIs
<1>3. /\ v.items \in Seq(Parcel) /\ v.page \in Nat \ {0}
      /\ \A n \in DOMAIN v.items : cats[v.items[n].cat] > 0
  BY <1>1, <1>2 DEF Carries, Steady, Cat!Pulling
<1>4. /\ more.pc = "fetch" /\ more.page = v.page + 1 /\ more.clean = v.clean
      /\ done.pc = "done" /\ done.clean = v.clean
  BY <1>2 DEF IsRecord, Fields
<1> HIDE DEF more, done
<1>5. /\ products' \in [Products -> Cat!Rows \union {None}]
      /\ \A p \in Products : /\ products[p] # None => products'[p] # None
                             /\ products'[p] # None => cats[products'[p].cat] > 0
  BY <1>1, <1>3, ProductsWritten DEF CatInv
<1>6. TablesOk'
  <2>1. /\ UNCHANGED <<listing, cats, top5, sold, fileAnswer, catChanges>> /\ TablesOk
        /\ \A t : RefersTo(t, cats, products) => RefersTo(t, cats, products')
    BY <1>1, <1>5 DEF CatInv, RefersTo
  <2>2. QED
    BY <1>5, <2>1 DEF TablesOk
<1>7. Grown(cats, products, cats', products')
  <2>1. UNCHANGED cats
    BY <1>1
  <2>2. QED
    BY <1>5, <2>1 DEF Grown
<1>8. Steady(w, cats', products')
  BY <1>3, <1>4 DEF Steady, Carries, Stages, Cat!Pulling
<1>9. ASSUME v.clean PROVE Fresh(w, listing', cats', products')
  <2>1. /\ Brought(Before(v.page), listing, products) /\ v.total = Len(listing)
        /\ v.items = PageOf(v.page, listing)
    BY <1>1, <1>2, <1>9 DEF Fresh, Cat!Pulling
  <2>2. Brought(PageEnd(v.page, listing), listing, products')
    BY <1>1, <1>3, <2>1, PageArrives DEF CatInv
  <2>3. /\ Len(listing) \in Nat /\ v.page * PageSize \in Nat /\ Before(v.page + 1) = v.page * PageSize
        /\ PageEnd(v.page, listing) = IF v.page * PageSize < Len(listing) THEN v.page * PageSize ELSE Len(listing)
    BY <1>3, PageBounds, ListingIsSeq DEF CatInv, TablesOk, PageEnd
  <2>4. CASE Cat!MorePages(v)
    <3>1. v.page * PageSize < Len(listing)
      BY <2>1, <2>4 DEF Cat!MorePages
    <3>2. w = more /\ Brought(Before(more.page), listing, products')
      BY <1>4, <2>2, <2>3, <2>4, <3>1
    <3>3. QED
      BY <1>1, <1>4, <3>2 DEF Fresh, Cat!Pulling
  <2>5. CASE ~Cat!MorePages(v)
    <3>1. ~(v.page * PageSize < Len(listing))
      BY <2>1, <2>5 DEF Cat!MorePages
    <3>2. w = done /\ Brought(Len(listing), listing, products')
      BY <2>2, <2>3, <2>5, <3>1
    <3>3. QED
      BY <1>1, <1>4, <3>2 DEF Fresh, Cat!Pulling
  <2>6. QED
    BY <2>4, <2>5
<1>10. w.clean => Fresh(w, listing', cats', products')
  <2>1. w.clean = v.clean
    BY <1>4
  <2> HIDE DEF w, v
  <2>2. QED
    BY <1>9, <2>1
<1>11. Moves(r, w)
  BY <1>1 DEF Moves
<1> HIDE DEF w, v
<1>12. QED
  BY <1>6, <1>7, <1>8, <1>10, <1>11, WritersMove

\* What a file that parsed, or a feed, brings.
LEMMA FileLines ==
    ASSUME NEW f \in Files, f.format = "feed" \/ Cat!Accepted(f)
    PROVE  /\ Cat!Parsed(f) \in Seq(Parcel)
           /\ Cat!ParsedCategories(f) \in Seq([cat : Cats])
           /\ \A n \in DOMAIN Cat!Parsed(f) :
                 \E m \in DOMAIN Cat!ParsedCategories(f) : Cat!ParsedCategories(f)[m].cat = Cat!Parsed(f)[n].cat
<1> DEFINE rows == f.rows
           declared == IF f.format = "json" THEN <<>> ELSE f.declared
           named == [n \in DOMAIN rows |-> [cat |-> rows[n].cat]]
           parsed == Cat!Parsed(f)
<1>1. /\ rows \in Seq(Cat!Lines) /\ f.declared \in Seq([cat : Cats])
      /\ f.format = "feed" => \A n \in DOMAIN rows : rows[n].id # None /\ rows[n].cat # None
  BY CatalogueAssumption
<1>2. \A n \in DOMAIN rows : rows[n].id # None /\ rows[n].cat # None
  BY <1>1 DEF Cat!Accepted
<1>3. declared \in Seq([cat : Cats])
  BY <1>1
<1>4. /\ parsed = [n \in DOMAIN rows |->
                     [id |-> rows[n].id, cat |-> rows[n].cat, stock |-> rows[n].stock, photo |-> rows[n].photo,
                      tags |-> IF f.format = "json" THEN Cat!FeedTag(rows[n]) ELSE {}]]
      /\ Cat!ParsedCategories(f) = declared \o named
  BY DEF Cat!Parsed, Cat!ParsedCategories
<1>5. \A n \in DOMAIN rows : Cat!FeedTag(rows[n]) \subseteq Cat!Tags
  BY DEF Cat!FeedTag, Cat!Tags
<1> HIDE DEF rows, declared, parsed
<1>6. Len(rows) \in Nat /\ DOMAIN rows = 1 .. Len(rows) /\ \A n \in DOMAIN rows : rows[n] \in Cat!Lines
  BY <1>1
<1>7. \A n \in DOMAIN rows : rows[n].cat \in Cats /\ parsed[n] \in Parcel /\ parsed[n].cat = rows[n].cat
  BY <1>2, <1>4, <1>5, <1>6 DEF Cat!Lines, Parcel
<1>8. parsed \in Seq(Parcel) /\ DOMAIN parsed = DOMAIN rows
  BY <1>4, <1>6, <1>7, IsASeq
<1>9. named \in Seq([cat : Cats]) /\ Len(named) = Len(rows) /\ \A n \in DOMAIN rows : named[n].cat = rows[n].cat
  BY <1>6, <1>7, IsASeq
<1> HIDE DEF named
<1>10. /\ declared \o named \in Seq([cat : Cats]) /\ Len(declared \o named) = Len(declared) + Len(named)
       /\ \A i \in 1 .. Len(declared) + Len(named) :
             (declared \o named)[i] = IF i <= Len(declared) THEN declared[i] ELSE named[i - Len(declared)]
  <2> DEFINE C == [cat : Cats]
  <2>1. declared \in Seq(C) /\ named \in Seq(C)
    BY <1>3, <1>9
  <2> HIDE DEF C
  <2>2. QED
    BY <2>1, ConcatProperties DEF C
<1>11. ASSUME NEW n \in DOMAIN rows
       PROVE  \E m \in DOMAIN (declared \o named) : (declared \o named)[m].cat = rows[n].cat
  <2>1. /\ Len(declared) \in Nat /\ n \in Nat \ {0} /\ n <= Len(rows)
        /\ DOMAIN (declared \o named) = 1 .. Len(declared \o named)
    BY <1>3, <1>6, <1>10
  <2>2. /\ Len(declared) + n \in DOMAIN (declared \o named)
        /\ (declared \o named)[Len(declared) + n] = named[n]
    BY <1>6, <1>9, <1>10, <2>1
  <2>3. QED
    BY <1>9, <2>2
<1>12. \A n \in DOMAIN parsed : \E m \in DOMAIN (declared \o named) : (declared \o named)[m].cat = parsed[n].cat
  BY <1>7, <1>8, <1>11
<1>13. QED
  BY <1>4, <1>8, <1>10, <1>12 DEF parsed

LEMMA FileTaken == ASSUME CatInv, NEW r \in Runners, NEW f \in Files, Cat!TakeFile(r, f) PROVE TablesOk' /\ WritersOk'
<1> DEFINE new == IF f.format = "feed" THEN <<>> ELSE Cat!NewCategories(Cat!ParsedCategories(f))
           items == Cat!Parsed(f)
           start == Cat!LastOrder
           w == [Cat!Idle EXCEPT !.pc = "import", !.file = f, !.items = items, !.start = start, !.clean = TRUE, !.new = new]
<1>1. /\ UNCHANGED <<listing, products, cats, top5, sold>> /\ Cat!Change
      /\ IF f.format # "feed" /\ ~Cat!Accepted(f) THEN fileAnswer' = "rejected" /\ writer' = writer
         ELSE writer' = [writer EXCEPT ![r] = w] /\ UNCHANGED fileAnswer
  BY DEF Cat!TakeFile
<1>2. CASE f.format # "feed" /\ ~Cat!Accepted(f)
  <2>1. TablesOk'
    BY <1>1, <1>2, CountedChange DEF CatInv, TablesOk
  <2>2. WritersOk'
    BY <1>1, <1>2 DEF CatInv, WritersOk
  <2>3. QED
    BY <2>1, <2>2
<1>3. CASE f.format = "feed" \/ Cat!Accepted(f)
  <2>1. /\ items \in Seq(Parcel) /\ Cat!ParsedCategories(f) \in Seq([cat : Cats])
        /\ \A n \in DOMAIN items : \E m \in DOMAIN Cat!ParsedCategories(f) : Cat!ParsedCategories(f)[m].cat = items[n].cat
    BY <1>3, FileLines
  <2>2. cats \in [Cats -> Nat]
    BY DEF CatInv, TablesOk
  <2>3. start \in Nat /\ \A c \in Cats : cats[c] <= start
    BY <2>2, StartIsLast
  <2>4. w.pc = "import" /\ w.file = f /\ w.items = items /\ w.start = start /\ w.new = new
    BY DEF Cat!Idle
  <2>5. Numbered(new) /\ (f.format # "feed" => Free(new, start, cats) /\ Placed(items, new, cats))
    <3>1. CASE f.format = "feed"
      BY <3>1 DEF Numbered
    <3>2. CASE f.format # "feed"
      <4> DEFINE named == Cat!ParsedCategories(f)
      <4>1. named \in Seq([cat : Cats]) /\ \A n \in DOMAIN named : named[n].cat \in Cats
        <5> DEFINE C == [cat : Cats]
        <5>1. named \in Seq(C)
          BY <2>1
        <5>2. \A x \in C : x.cat \in Cats
          OBVIOUS
        <5> HIDE DEF C, named
        <5>3. \A n \in DOMAIN named : named[n] \in C
          BY <5>1
        <5>4. QED
          BY <5>1, <5>2, <5>3 DEF C
      <4>2. new = Cat!NewCategories(named)
        BY <3>2
      <4>3. \A n \in DOMAIN items : \E m \in DOMAIN named : named[m].cat = items[n].cat
        BY <2>1
      <4> HIDE DEF named, new, items, start
      <4>4. Numbered(new) /\ Placed(named, new, cats) /\ \A c \in DOMAIN new : cats[c] = 0
        BY <2>2, <4>1, <4>2, NewAreNumbered
      <4>5. Placed(items, new, cats)
        BY <4>3, <4>4 DEF Placed
      <4>6. Free(new, start, cats)
        <5>1. ASSUME NEW c \in DOMAIN new, NEW d \in Cats PROVE cats[d] # start + new[c]
          <6>1. new[c] \in Nat \ {0} /\ cats[d] \in Nat /\ cats[d] <= start /\ start \in Nat
            BY <2>2, <2>3, <4>4 DEF Numbered
          <6>2. QED
            BY <6>1
        <5>2. QED
          BY <4>4, <5>1 DEF Free
      <4>7. QED
        BY <4>4, <4>5, <4>6
    <3>3. QED
      BY <3>1, <3>2
  <2>6. writer' = [writer EXCEPT ![r] = w] /\ UNCHANGED fileAnswer
    BY <1>1, <1>3
  <2> HIDE DEF w, new, items, start
  <2>7. Steady(w, cats, products) /\ Fresh(w, listing, cats, products)
    BY <2>1, <2>3, <2>4, <2>5 DEF Steady, Carries, Fresh, Stages, Cat!Pulling
  <2>8. QED
    BY <1>1, <2>6, <2>7, WriterMovesOn
<1>4. QED
  BY <1>2, <1>3

LEMMA FileCommitted == ASSUME CatInv, NEW r \in Runners, Cat!CommitFile(r) PROVE TablesOk' /\ WritersOk'
<1> DEFINE v == writer[r]
           places == v.file.top5
           fits == Cat!Insertable(v.new, v.start) /\ Cat!RefersToRows(v.items, v.new, places)
<1>1. /\ v.pc = "import" /\ UNCHANGED <<listing, sold, catChanges>>
      /\ fits => /\ fileAnswer' = "ok" /\ cats' = Cat!WithCategories(v.new, v.start)
                 /\ products' = Cat!Upserted(products, v.items)
                 /\ top5' = IF places = {} THEN top5 ELSE places
                 /\ Cat!Step(r, Cat!Idle)
      /\ ~fits => /\ fileAnswer' = "db_error" /\ writer' = [writer EXCEPT ![r] = Cat!Idle]
                  /\ UNCHANGED <<products, cats, top5>>
  BY DEF Cat!CommitFile
<1>2. /\ v.items \in Seq(Parcel) /\ Numbered(v.new) /\ v.start \in Nat /\ v.file \in Files
  BY <1>1, WriterIs DEF Carries, IsWriter
<1>3. TablesOk
  BY DEF CatInv
<1>4. CASE fits
  <2>1. /\ cats' \in [Cats -> Nat] /\ \A c \in Cats : cats[c] > 0 \/ c \in DOMAIN v.new => cats'[c] > 0
        /\ \A c, d \in Cats : c # d /\ cats'[c] > 0 => cats'[c] # cats'[d]
    BY <1>1, <1>2, <1>3, <1>4, CategoriesAdded
  <2>2. \A n \in DOMAIN v.items : v.items[n].cat \in Cats /\ v.items[n].id \in Products
    <3>1. \A x \in Parcel : x.cat \in Cats /\ x.id \in Products
      BY DEF Parcel
    <3>2. QED
      BY <1>2, <3>1
  <2>3. /\ \A n \in DOMAIN v.items : cats[v.items[n].cat] > 0 \/ v.items[n].cat \in DOMAIN v.new
        /\ \A t \in places : /\ t.pos \in 1 .. TopN
                             /\ (products[t.id] # None \/ \E n \in DOMAIN v.items : v.items[n].id = t.id)
                             /\ (cats[t.cat] > 0 \/ t.cat \in DOMAIN v.new)
                             /\ \A s \in places : s.cat = t.cat /\ s.pos = t.pos => s = t
    BY <1>4 DEF Cat!RefersToRows
  <2>4. \A n \in DOMAIN v.items : cats'[v.items[n].cat] > 0
    BY <2>1, <2>2, <2>3
  <2>5. /\ products' \in [Products -> Cat!Rows \union {None}]
        /\ \A p \in Products : /\ products[p] # None => products'[p] # None
                               /\ products'[p] # None => cats'[products'[p].cat] > 0
        /\ \A n \in DOMAIN v.items : products'[v.items[n].id] # None
    BY <1>1, <1>2, <1>3, <1>4, <2>1, <2>4, ProductsWritten
  <2>6. \A t \in places : t.cat \in Cats /\ t.id \in Products
    BY <1>2, CatalogueAssumption DEF Cat!Places
  <2>7. /\ UNCHANGED <<listing, sold, catChanges>> /\ fileAnswer' = "ok" /\ Cat!Step(r, Cat!Idle)
        /\ top5' = top5 \/ top5' = places
    BY <1>1, <1>4
  <2> HIDE DEF v, places
  <2>8. Grown(cats, products, cats', products')
    BY <2>1, <2>5 DEF Grown
  <2>9. \A t \in places : RefersTo(t, cats', products')
    BY <2>1, <2>3, <2>5, <2>6 DEF RefersTo
  <2>10. \A t \in top5 : RefersTo(t, cats', products')
    BY <1>3, <2>8 DEF TablesOk, RefersTo, Grown
  <2>11. OnePlaceEach(places) /\ OnePlaceEach(top5)
    BY <1>3, <2>3 DEF TablesOk, OnePlaceEach
  <2>12. TablesOk'
    BY <1>3, <2>1, <2>5, <2>7, <2>9, <2>10, <2>11 DEF TablesOk
  <2>13. WritersOk'
    BY <2>7, <2>8, IdleIsSteady, WritersMove DEF Moves
  <2>14. QED
    BY <2>12, <2>13
<1>5. CASE ~fits
  <2>1. /\ UNCHANGED <<listing, sold, catChanges, products, cats, top5>> /\ fileAnswer' = "db_error"
        /\ writer' = [writer EXCEPT ![r] = Cat!Idle]
    BY <1>1, <1>5
  <2>2. TablesOk' /\ Grown(cats, products, cats', products')
    BY <1>3, <2>1 DEF TablesOk, Grown
  <2>3. WritersOk'
    BY <2>1, <2>2, IdleIsSteady, WritersMove DEF Moves
  <2>4. QED
    BY <2>2, <2>3
<1>6. QED
  BY <1>4, <1>5

LEMMA TopComputed == ASSUME CatInv, NEW r \in Runners, Cat!ComputeTop(r) PROVE TablesOk' /\ WritersOk'
<1> DEFINE L == {t \in Cat!Ranked : t.pos <= TopN}
           w == [Cat!Idle EXCEPT !.pc = "top", !.rows = L]
<1>1. /\ writer' = [writer EXCEPT ![r] = w]
      /\ UNCHANGED <<listing, products, cats, top5, sold, fileAnswer, catChanges>>
  BY DEF Cat!ComputeTop
<1>2. OnePlaceEach(L) /\ \A t \in L : RefersTo(t, cats, products)
  BY RankedIsGood DEF CatInv
<1> HIDE DEF L
<1>3. w.pc = "top" /\ w.rows = L /\ ~w.clean
  BY DEF Cat!Idle
<1> HIDE DEF w
<1>4. Steady(w, cats, products)
  BY <1>2, <1>3 DEF Steady, Carries, Stages, Cat!Pulling
<1>5. QED
  BY <1>1, <1>3, <1>4, WriterMovesOn

\* The table of the top-5 becomes a list of rows that are there.
LEMMA TopWritten ==
    ASSUME CatInv, NEW r \in Runners, NEW w, writer' = [writer EXCEPT ![r] = w],
           UNCHANGED <<listing, products, cats, sold, fileAnswer>>, Cat!Change \/ UNCHANGED catChanges,
           Steady(w, cats, products), ~w.clean,
           OnePlaceEach(top5'), \A t \in top5' : RefersTo(t, cats, products)
    PROVE  TablesOk' /\ WritersOk'
<1>1. TablesOk'
  BY CountedChange DEF CatInv, TablesOk
<1>2. Moves(r, w) /\ Grown(cats, products, cats', products') /\ Steady(w, cats', products')
  BY DEF Moves, Grown
<1>3. QED
  BY <1>1, <1>2, WritersMove

LEMMA TopReplaced == ASSUME CatInv, NEW r \in Runners, Cat!ReplaceTop(r) PROVE TablesOk' /\ WritersOk'
<1>1. /\ writer[r].pc = "top" /\ top5' = writer[r].rows /\ writer' = [writer EXCEPT ![r] = Cat!Idle]
      /\ UNCHANGED <<listing, products, cats, sold, fileAnswer, catChanges>>
  BY DEF Cat!ReplaceTop
<1>2. OnePlaceEach(writer[r].rows) /\ \A t \in writer[r].rows : RefersTo(t, cats, products)
  BY <1>1, WriterIs DEF Steady, Carries
<1>3. QED
  BY <1>1, <1>2, IdleIsSteady, TopWritten

LEMMA TopTidied == ASSUME CatInv, NEW r \in Runners, Tidies(r) PROVE TablesOk' /\ WritersOk'
<1> DEFINE w == [Cat!Idle EXCEPT !.pc = "renumber"]
<1>1. w.pc = "renumber" /\ ~w.clean
  BY DEF Cat!Idle
<1>2. /\ writer' = [writer EXCEPT ![r] = w] \/ writer' = [writer EXCEPT ![r] = Cat!Idle]
      /\ UNCHANGED <<listing, products, cats, sold, fileAnswer>> /\ (Cat!Change \/ UNCHANGED catChanges)
  BY DEF Tidies, Cat!Purge, Cat!Renumber
<1> HIDE DEF w
<1>3. Steady(w, cats, products)
  BY <1>1 DEF Steady, Carries, Stages, Cat!Pulling
<1>4. OnePlaceEach(top5) /\ \A t \in top5 : RefersTo(t, cats, products) /\ IsPlace(t)
  BY DEF CatInv, TablesOk, ListInv, IsList
<1>5. ASSUME NEW place \in [top5 -> 1 .. TopN], top5' = {[t EXCEPT !.pos = place[t]] : t \in top5},
             \A t, s \in top5 : t # s /\ t.cat = s.cat => place[t] # place[s]
      PROVE  OnePlaceEach(top5') /\ \A t \in top5' : RefersTo(t, cats, products)
  <2> DEFINE moved(t) == [t EXCEPT !.pos = place[t]]
  <2>1. \A t \in top5 : moved(t).cat = t.cat /\ moved(t).id = t.id /\ moved(t).pos = place[t]
    BY <1>4 DEF IsPlace, IsRecord
  <2>2. top5' = {moved(t) : t \in top5}
    BY <1>5
  <2> HIDE DEF moved
  <2>3. \A t \in top5 : RefersTo(moved(t), cats, products)
    BY <1>4, <2>1 DEF RefersTo
  <2>4. \A t, s \in top5 : moved(t).cat = moved(s).cat /\ moved(t).pos = moved(s).pos => t = s
    BY <1>5, <2>1
  <2>5. QED
    BY <2>2, <2>3, <2>4 DEF OnePlaceEach
<1>6. OnePlaceEach(top5') /\ \A t \in top5' : RefersTo(t, cats, products)
  <2>1. CASE top5' \subseteq top5
    BY <1>4, <2>1 DEF OnePlaceEach
  <2>2. QED
    BY <1>5, <2>1 DEF Tidies, Cat!Purge, Cat!Renumber
<1>7. QED
  BY <1>1, <1>2, <1>3, <1>6, IdleIsSteady, TopWritten

LEMMA CategoryFed == ASSUME CatInv, NEW c \in Cats, NEW n \in SortOrders, Cat!FeedCategory(c, n) PROVE TablesOk' /\ WritersOk'
<1>1. /\ UNCHANGED <<listing, products, top5, sold, fileAnswer>> /\ Cat!Change
      /\ cats' = [cats EXCEPT ![c] = n] /\ writer' = Cat!Disturb(writer) /\ \A d \in Cats \ {c} : cats[d] # n
  BY DEF Cat!FeedCategory
<1>2. n \in Nat /\ n > 0 /\ cats \in [Cats -> Nat] /\ TablesOk
  BY CatalogueAssumption DEF CatInv, TablesOk
<1>3. cats' \in [Cats -> Nat] /\ \A d \in Cats : cats[d] > 0 => cats'[d] > 0
  BY <1>1, <1>2
<1>4. \A d, e \in Cats : d # e /\ cats'[d] > 0 => cats'[d] # cats'[e]
  BY <1>1, <1>2 DEF TablesOk
<1>5. Grown(cats, products, cats', products')
  BY <1>1, <1>3 DEF Grown
<1>6. \A p \in Products : products[p] # None => products[p].cat \in Cats
  BY <1>2 DEF TablesOk, Cat!Rows
<1>7. \A t \in top5 : RefersTo(t, cats', products)
  BY <1>2, <1>3 DEF TablesOk, RefersTo
<1>8. TablesOk'
  BY <1>1, <1>2, <1>3, <1>4, <1>6, <1>7, CountedChange DEF TablesOk
<1>9. QED
  BY <1>1, <1>5, <1>8, WritersDisturbed

LEMMA ShopMoves ==
    ASSUME CatInv, Cat!OnecChanges \/ \E p \in Products : Cat!Sale(p) PROVE TablesOk' /\ WritersOk'
<1>1. CASE Cat!OnecChanges
  <2>1. /\ UNCHANGED <<products, cats, top5, sold, fileAnswer>> /\ Cat!Change /\ listing' \in Listings
        /\ writer' = Cat!Disturb(writer)
    BY <1>1 DEF Cat!OnecChanges
  <2>2. TablesOk' /\ Grown(cats, products, cats', products')
    BY <2>1, CountedChange DEF CatInv, TablesOk, Grown
  <2>3. QED
    BY <2>1, <2>2, WritersDisturbed
<1>2. ASSUME NEW p \in Products, Cat!Sale(p) PROVE TablesOk' /\ WritersOk'
  <2>1. /\ UNCHANGED <<listing, products, cats, top5, writer, fileAnswer>> /\ Cat!Change
        /\ sold' = [sold EXCEPT ![p] = @ + 1]
    BY <1>2 DEF Cat!Sale
  <2>2. sold' \in [Products -> Nat]
    BY <2>1 DEF CatInv, TablesOk
  <2>3. TablesOk'
    BY <2>1, <2>2, CountedChange DEF CatInv, TablesOk
  <2>4. WritersOk'
    BY <2>1 DEF CatInv, WritersOk
  <2>5. QED
    BY <2>3, <2>4
<1>3. QED
  BY <1>1, <1>2

LEMMA CatalogueBegins == Init => CatInv
<1> SUFFICES ASSUME Init, Cat!Init PROVE CatInv
  BY DEF Init
<1>1. ListInv
  BY ListsBegin
<1>2. TablesOk
  BY CatalogueAssumption DEF Cat!Init, TablesOk, OnePlaceEach
<1>3. WritersOk
  BY IdleIsSteady DEF Cat!Init, WritersOk
<1>4. QED
  BY <1>1, <1>2, <1>3 DEF CatInv

LEMMA CatalogueKept == ASSUME CatInv, Cat!Next \/ UNCHANGED ct PROVE CatInv'
<1>1. ListInv'
  BY ListKept DEF CatInv
<1>2. ASSUME NEW r \in Runners, Cat!FetchFails(r) PROVE TablesOk' /\ WritersOk'
  <2>1. /\ UNCHANGED <<listing, products, cats, top5, sold, fileAnswer>> /\ Cat!Change
        /\ writer' = [writer EXCEPT ![r] = Cat!Idle]
    BY <1>2 DEF Cat!FetchFails
  <2>2. QED
    BY <2>1, IdleIsSteady, WriterMovesOn
<1>3. ASSUME NEW r \in Runners, Writes(r) PROVE TablesOk' /\ WritersOk'
  BY <1>2, <1>3, PullBegins, PageFetched, CategoriesRead, CategoriesInserted, PageUpserted, FileTaken,
     FileCommitted, TopComputed, TopReplaced DEF Writes
<1>4. ASSUME NEW r \in Runners, Tidies(r) PROVE TablesOk' /\ WritersOk'
  BY <1>4, TopTidied
<1>5. ASSUME NEW c \in Cats, NEW n \in SortOrders, Cat!FeedCategory(c, n) PROVE TablesOk' /\ WritersOk'
  BY <1>5, CategoryFed
<1>6. ASSUME UNCHANGED ct PROVE TablesOk' /\ WritersOk'
  <2>1. UNCHANGED <<listing, products, cats, top5, sold, writer, fileAnswer, catChanges>>
    BY <1>6 DEF ct
  <2>2. TablesOk'
    BY <2>1, TablesSame DEF CatInv
  <2>3. WritersOk'
    BY <2>1 DEF CatInv, WritersOk
  <2>4. QED
    BY <2>2, <2>3
<1>7. ASSUME Cat!OnecChanges \/ \E p \in Products : Cat!Sale(p) PROVE TablesOk' /\ WritersOk'
  BY <1>7, ShopMoves
<1>8. TablesOk' /\ WritersOk'
  <2>1. \/ \E r \in Runners : Writes(r) \/ Tidies(r)
        \/ Cat!OnecChanges \/ \E p \in Products : Cat!Sale(p)
        \/ \E c \in Cats, n \in SortOrders : Cat!FeedCategory(c, n)
        \/ UNCHANGED ct
    BY DEF Cat!Next, Writes, Tidies
  <2>2. QED
    BY <1>3, <1>4, <1>5, <1>6, <1>7, <2>1
<1>9. QED
  BY <1>1, <1>8 DEF CatInv

LEMMA CatalogueStays == Spec => []CatInv
<1>1. CatInv /\ [Next]_vars => CatInv'
  BY CatalogueAlone, CatalogueKept
<1>2. QED
  BY CatalogueBegins, <1>1, PTL DEF Spec

\* The tables keep their references and keys: every product has a category,
\* categories have places of their own, and the top-5 has one product in a
\* place and only products and categories there are (db/schema.sql).
THEOREM CatalogueTypeCorrect == Spec => []Cat!TypeOK
<1>1. CatInv => Cat!TypeOK
  <2> SUFFICES ASSUME CatInv PROVE Cat!TypeOK
    OBVIOUS
  <2>1. \A r \in Runners : writer[r].pc \in Stages
    BY DEF CatInv, WritersOk, Steady, Carries
  <2>2. QED
    BY <2>1 DEF CatInv, TablesOk, Cat!TypeOK, OnePlaceEach, RefersTo, Stages
<1>2. QED
  BY CatalogueStays, <1>1, PTL

\* A pull that ends while 1C and the other writers stood still has brought over
\* every item 1C lists, however long the list and the pages are, wherever it
\* lists a product twice and whatever was in the table before (onec.sync_catalog,
\* _ensure_categories, _UPSERT_PRODUCT).
THEOREM PullIsComplete == Spec => []SyncIsComplete
<1>1. CatInv => SyncIsComplete
  <2> SUFFICES ASSUME CatInv, NEW r \in Runners, writer[r].pc = "done", writer[r].clean, NEW n \in DOMAIN listing
               PROVE  /\ products[listing[n].id] # None
                      /\ listing[n].photo => products[listing[n].id].photo
                      /\ (\A m \in DOMAIN listing : m > n => listing[m].id # listing[n].id) =>
                            /\ products[listing[n].id].cat = listing[n].cat
                            /\ products[listing[n].id].stock = listing[n].stock
    BY DEF SyncIsComplete, Cat!SyncIsComplete
  <2>1. Brought(Len(listing), listing, products)
    BY DEF CatInv, WritersOk, Fresh
  <2>2. DOMAIN listing = 1 .. Len(listing) /\ Len(listing) \in Nat
    BY ListingIsSeq DEF CatInv, TablesOk
  <2>3. Arrived(n, Len(listing), listing, products)
    BY <2>1, <2>2 DEF Brought
  <2>4. \A m \in DOMAIN listing : (n < m <=> m > n)
    BY <2>2
  <2>5. QED
    BY <2>3, <2>4 DEF Arrived
<1>2. QED
  BY CatalogueStays, <1>1, PTL

\* Only its own commit ends an import.
LEMMA OnlyCommitEnds ==
    ASSUME CatInv, Cat!Next \/ UNCHANGED ct, NEW r \in Runners, writer[r].pc = "import", writer'[r].pc = "idle"
    PROVE  Cat!CommitFile(r)
<1>1. ASSUME NEW q \in Runners, Writes(q) PROVE q = r
  <2>1. PICK w : Goes(q, w)
    BY <1>1, WriterWrites DEF CatInv
  <2>2. ASSUME q # r PROVE FALSE
    <3>1. DOMAIN writer = Runners /\ IsWriter(writer[r])
      BY DEF CatInv, ListInv
    <3>2. writer'[r] = writer[r] \/ writer'[r] = Marked(writer[r])
      BY <2>1, <2>2, <3>1 DEF Goes, Cat!Step, Cat!Disturb, Marked
    <3>3. writer'[r].pc = writer[r].pc
      BY <3>1, <3>2, MarkedWriter
    <3>4. QED
      BY <3>3
  <2>3. QED
    BY <2>2
<1>2. ASSUME Writes(r) PROVE Cat!CommitFile(r)
  BY <1>2 DEF Writes, Cat!BeginPull, Cat!Fetch, Cat!FetchFails, Cat!EnsureCategories, Cat!InsertCategories,
              Cat!UpsertPage, Cat!TakeFile, Cat!ComputeTop, Cat!ReplaceTop
<1>3. ASSUME NEW q \in Runners, Tidies(q) PROVE FALSE
  <2>1. DOMAIN writer = Runners
    BY DEF CatInv, ListInv
  <2>2. /\ writer[q].pc \in {"idle", "renumber"}
        /\ \A p \in Runners \ {q} : writer'[p] = writer[p]
    BY <1>3, <2>1 DEF Tidies, Cat!Purge, Cat!Renumber
  <2>3. QED
    BY <2>2
<1>4. ASSUME NEW p \in Products, Cat!Sale(p) PROVE FALSE
  BY <1>4 DEF Cat!Sale
<1>5. CASE Cat!OnecChanges \/ \E c \in Cats, n \in SortOrders : Cat!FeedCategory(c, n)
  BY <1>5, AllDisturbed DEF Cat!OnecChanges, Cat!FeedCategory, CatInv
<1>6. CASE UNCHANGED ct
  BY <1>6 DEF ct
<1>7. QED
  BY <1>1, <1>2, <1>3, <1>4, <1>5, <1>6 DEF Cat!Next, Writes, Tidies

\* A file that passed the parser and brings no top-5 is stored, unless another
\* writer came between the reading of the categories and the commit, for any
\* order of the file's lines and any categories (import_all, _ensure_categories).
THEOREM ParsedFileIsStored == Spec => ParsedFileFits
<1>1. CatInv /\ [Next]_vars =>
        [\A r \in Runners : writer[r].pc = "import" /\ writer'[r].pc = "idle" /\ writer[r].clean
                         /\ writer[r].file.format # "feed" /\ writer[r].file.top5 = {} => fileAnswer' = "ok"]_Cat!vars
  <2> SUFFICES ASSUME CatInv, [Next]_vars, NEW r \in Runners, writer[r].pc = "import", writer'[r].pc = "idle",
                      writer[r].clean, writer[r].file.format # "feed", writer[r].file.top5 = {}
               PROVE  fileAnswer' = "ok"
    OBVIOUS
  <2>1. Cat!CommitFile(r)
    BY CatalogueAlone, OnlyCommitEnds
  <2>2. Free(writer[r].new, writer[r].start, cats) /\ Placed(writer[r].items, writer[r].new, cats)
    BY WriterIs DEF Fresh
  <2>3. Cat!Insertable(writer[r].new, writer[r].start)
    BY <2>2 DEF Free, Cat!Insertable
  <2>4. Cat!RefersToRows(writer[r].items, writer[r].new, writer[r].file.top5)
    BY <2>2 DEF Placed, Cat!RefersToRows
  <2>5. QED
    BY <2>1, <2>3, <2>4 DEF Cat!CommitFile
<1>2. QED
  BY CatalogueStays, <1>1, PTL DEF ParsedFileFits, Cat!ParsedFileFits, Spec
================================================================================
