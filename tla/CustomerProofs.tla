------------------------------ MODULE CustomerProofs ------------------------------
(***************************************************************************)
(* Proofs about what a customer meets.  First the prize of the wheel, the  *)
(* mark of an unsubscription and the credit of orders to letters, for any  *)
(* number of requests, codes, letters, orders and runs; then the batches   *)
(* of Best Offer, for any customers, batches, letters and faults: one      *)
(* letter an interval but for the faults, the daily maximum of a batch,    *)
(* and the letters that may still follow an unsubscription.  Each part of  *)
(* Services is moved by its own steps only (the lemmas ...Alone), so an    *)
(* invariant of one part is an invariant of the whole.                     *)
(***************************************************************************)
EXTENDS Services, FiniteSetTheorems, SequenceTheorems, TLAPS

-----------------------------------------------------------------------------
\* A request that holds the slot.
Holds(r) == prizeReq[r].pc \in {"send", "release"}

\* What the argument needs of the types.
WheelTypes ==
    /\ prizeReq \in [Requests -> [pc : {"idle", "claim", "send", "release"}, code : Codes \union {None}]]
    /\ mails \in [Codes -> Nat]
    /\ lost \in Nat /\ deaths \in Nat

\* One request holds the slot, with its own code in it; a free or a held slot
\* has not been paid for with a letter yet.
HolderIsAlone == \A r, q \in Requests : Holds(r) /\ Holds(q) => r = q
HolderHasSlot == \A r \in Requests : Holds(r) => slot = prizeReq[r].code
CodeIsReal == \A r \in Requests : prizeReq[r].pc # "idle" => prizeReq[r].code \in Codes
NothingYet ==
    slot = None \/ (\E r \in Requests : Holds(r)) =>
        \A c, d \in Codes : mails[c] <= lost /\ (c # d => mails[c] + mails[d] <= lost)
BeforeSpin == ~spun => slot = None /\ \A r \in Requests : prizeReq[r].pc = "idle"
WheelInv ==
    /\ WheelTypes /\ HolderIsAlone /\ HolderHasSlot /\ CodeIsReal /\ NothingYet /\ BeforeSpin
    /\ Wheel!OnePrizeLetter /\ Wheel!SlotHasLetter

LEMMA WheelBegins == Wheel!Init => WheelInv
  BY DEF Wheel!Init, Wheel!Idle, WheelInv, WheelTypes, HolderIsAlone, HolderHasSlot, CodeIsReal, NothingYet, BeforeSpin,
         Wheel!OnePrizeLetter, Wheel!SlotHasLetter, Holds

\* Every step keeps the invariant, if null is no code.
LEMMA WheelKept == ASSUME None \notin Codes, WheelInv, Wheel!Next \/ UNCHANGED wh PROVE WheelInv'
<1> USE DEF WheelInv, WheelTypes, Holds
<1>1. CASE Wheel!WheelLead
  BY <1>1 DEF Wheel!WheelLead, HolderIsAlone, HolderHasSlot, CodeIsReal, NothingYet, BeforeSpin,
              Wheel!OnePrizeLetter, Wheel!SlotHasLetter
<1>2. ASSUME NEW r \in Requests, NEW c \in Codes, Wheel!PrizeAsked(r, c) PROVE WheelInv'
  <2>1. UNCHANGED <<spun, slot, mails, lost, deaths>>
    BY <1>2 DEF Wheel!PrizeAsked
  <2>2. \/ prizeReq' = prizeReq
        \/ spun /\ slot = None /\ prizeReq[r].pc = "idle" /\ prizeReq' = [prizeReq EXCEPT ![r] = [pc |-> "claim", code |-> c]]
    BY <1>2 DEF Wheel!PrizeAsked
  <2>3. \A q \in Requests : Holds(q)' <=> Holds(q)
    BY <2>2
  <2>4. WheelTypes' /\ CodeIsReal' /\ HolderIsAlone' /\ HolderHasSlot'
    BY <2>1, <2>2, <2>3 DEF CodeIsReal, HolderIsAlone, HolderHasSlot
  <2>5. NothingYet' /\ BeforeSpin' /\ Wheel!OnePrizeLetter'
    BY <2>1, <2>2, <2>3 DEF NothingYet, BeforeSpin, Wheel!OnePrizeLetter
  <2>6. Wheel!SlotHasLetter'
    BY <2>1, <2>2 DEF Wheel!SlotHasLetter
  <2>7. QED
    BY <2>4, <2>5, <2>6
<1>3. ASSUME NEW r \in Requests, Wheel!ClaimSlot(r) PROVE WheelInv'
  <2>1. UNCHANGED <<spun, mails, lost, deaths>> /\ prizeReq[r].pc = "claim" /\ prizeReq[r].code \in Codes /\ spun
    BY <1>3 DEF Wheel!ClaimSlot, CodeIsReal, BeforeSpin
  <2>2. CASE slot = None
    <3>1. slot' = prizeReq[r].code /\ prizeReq' = [prizeReq EXCEPT ![r].pc = "send"]
      BY <1>3, <2>2 DEF Wheel!ClaimSlot
    <3>2. \A q \in Requests : ~Holds(q)
      BY <2>2 DEF HolderHasSlot, CodeIsReal
    <3>3. \A q \in Requests : Holds(q)' <=> q = r
      BY <3>1, <3>2
    <3>4. WheelTypes' /\ CodeIsReal' /\ HolderIsAlone' /\ HolderHasSlot'
      BY <2>1, <3>1, <3>3 DEF CodeIsReal, HolderIsAlone, HolderHasSlot
    <3>5. NothingYet' /\ BeforeSpin' /\ Wheel!OnePrizeLetter'
      BY <2>1, <2>2 DEF NothingYet, BeforeSpin, Wheel!OnePrizeLetter
    <3>6. Wheel!SlotHasLetter'
      BY <3>1, <2>1 DEF Wheel!SlotHasLetter
    <3>7. QED
      BY <3>4, <3>5, <3>6
  <2>3. CASE slot # None
    <3>1. slot' = slot /\ prizeReq' = [prizeReq EXCEPT ![r] = Wheel!Idle]
      BY <1>3, <2>3 DEF Wheel!ClaimSlot
    <3>2. \A q \in Requests : Holds(q)' <=> Holds(q)
      BY <2>1, <3>1 DEF Wheel!Idle
    <3>3. WheelTypes' /\ CodeIsReal' /\ HolderIsAlone' /\ HolderHasSlot'
      BY <2>1, <3>1, <3>2 DEF CodeIsReal, HolderIsAlone, HolderHasSlot, Wheel!Idle
    <3>4. NothingYet' /\ BeforeSpin' /\ Wheel!OnePrizeLetter'
      BY <2>1, <3>1, <3>2 DEF NothingYet, BeforeSpin, Wheel!OnePrizeLetter
    <3>5. Wheel!SlotHasLetter'
      BY <2>1, <3>1, <3>2 DEF Wheel!SlotHasLetter, Wheel!Idle
    <3>6. QED
      BY <3>3, <3>4, <3>5
  <2>4. QED
    BY <2>2, <2>3
<1>4. ASSUME NEW r \in Requests, Wheel!MailAccepted(r) PROVE WheelInv'
  <2>1. /\ UNCHANGED <<spun, slot, lost, deaths>> /\ Holds(r) /\ prizeReq' = [prizeReq EXCEPT ![r] = Wheel!Idle]
        /\ mails' = [mails EXCEPT ![prizeReq[r].code] = @ + 1] /\ prizeReq[r].code \in Codes /\ slot = prizeReq[r].code /\ spun
    BY <1>4 DEF Wheel!MailAccepted, Wheel!HandedOver, HolderHasSlot, CodeIsReal, BeforeSpin
  <2>2. \A q \in Requests : ~Holds(q)'
    BY <2>1 DEF HolderIsAlone, Wheel!Idle
  <2>3. WheelTypes' /\ CodeIsReal' /\ HolderIsAlone' /\ HolderHasSlot' /\ BeforeSpin' /\ NothingYet'
    BY <2>1, <2>2 DEF CodeIsReal, HolderIsAlone, HolderHasSlot, BeforeSpin, NothingYet, Wheel!Idle
  <2>4. \A c, d \in Codes : mails[c] <= lost /\ (c # d => mails[c] + mails[d] <= lost)
    BY <2>1 DEF NothingYet
  <2>5. Wheel!OnePrizeLetter'
    BY <2>1, <2>4 DEF Wheel!OnePrizeLetter
  <2>6. Wheel!SlotHasLetter'
    BY <2>1 DEF Wheel!SlotHasLetter
  <2>7. QED
    BY <2>3, <2>5, <2>6
<1>5. ASSUME NEW r \in Requests, Wheel!MailFailed(r) PROVE WheelInv'
  <2>1. /\ UNCHANGED <<spun, slot, deaths>> /\ Holds(r) /\ prizeReq' = [prizeReq EXCEPT ![r].pc = "release"]
        /\ prizeReq[r].code \in Codes /\ spun
        /\ \/ mails' = mails /\ lost' = lost
           \/ mails' = [mails EXCEPT ![prizeReq[r].code] = @ + 1] /\ lost' = lost + 1
    BY <1>5 DEF Wheel!MailFailed, Wheel!HandedOver, CodeIsReal, BeforeSpin
  <2>2. \A q \in Requests : Holds(q)' <=> Holds(q)
    BY <2>1
  <2>3. WheelTypes' /\ CodeIsReal' /\ HolderIsAlone' /\ HolderHasSlot' /\ BeforeSpin'
    BY <2>1, <2>2 DEF CodeIsReal, HolderIsAlone, HolderHasSlot, BeforeSpin
  <2>4. \A c, d \in Codes : mails[c] <= lost /\ (c # d => mails[c] + mails[d] <= lost)
    BY <2>1 DEF NothingYet
  <2>5. \A c, d \in Codes : mails'[c] <= lost' /\ (c # d => mails'[c] + mails'[d] <= lost')
    BY <2>1, <2>4
  <2>6. NothingYet' /\ Wheel!OnePrizeLetter'
    BY <2>1, <2>3, <2>5 DEF NothingYet, Wheel!OnePrizeLetter
  <2>7. Wheel!SlotHasLetter'
    BY <2>1 DEF Wheel!SlotHasLetter
  <2>8. QED
    BY <2>3, <2>6, <2>7
<1>6. ASSUME NEW r \in Requests, Wheel!ReleaseSlot(r) PROVE WheelInv'
  <2>1. /\ UNCHANGED <<spun, mails, lost, deaths>> /\ Holds(r) /\ prizeReq' = [prizeReq EXCEPT ![r] = Wheel!Idle]
        /\ slot' = None /\ spun
    BY <1>6 DEF Wheel!ReleaseSlot, BeforeSpin
  <2>2. \A q \in Requests : ~Holds(q)'
    BY <2>1 DEF HolderIsAlone, Wheel!Idle
  <2>3. WheelTypes' /\ CodeIsReal' /\ HolderIsAlone' /\ HolderHasSlot' /\ BeforeSpin'
    BY <2>1, <2>2 DEF CodeIsReal, HolderIsAlone, HolderHasSlot, BeforeSpin, Wheel!Idle
  <2>4. NothingYet' /\ Wheel!OnePrizeLetter' /\ Wheel!SlotHasLetter'
    BY <2>1 DEF NothingYet, Wheel!OnePrizeLetter, Wheel!SlotHasLetter
  <2>5. QED
    BY <2>3, <2>4
<1>7. ASSUME NEW r \in Requests, Wheel!RequestDies(r) PROVE WheelInv'
  <2>1. /\ UNCHANGED <<spun, slot, mails, lost>> /\ prizeReq[r].pc # "idle" /\ prizeReq' = [prizeReq EXCEPT ![r] = Wheel!Idle]
        /\ deaths' = deaths + 1 /\ spun
    BY <1>7 DEF Wheel!RequestDies, BeforeSpin
  <2>2. \A q \in Requests : Holds(q)' => Holds(q)
    BY <2>1 DEF Wheel!Idle
  <2>3. WheelTypes' /\ CodeIsReal' /\ HolderIsAlone' /\ HolderHasSlot' /\ BeforeSpin'
    BY <2>1, <2>2 DEF CodeIsReal, HolderIsAlone, HolderHasSlot, BeforeSpin, Wheel!Idle
  <2>4. NothingYet' /\ Wheel!OnePrizeLetter' /\ Wheel!SlotHasLetter'
    BY <2>1, <2>2 DEF NothingYet, Wheel!OnePrizeLetter, Wheel!SlotHasLetter
  <2>5. QED
    BY <2>3, <2>4
<1>8. CASE UNCHANGED wh
  BY <1>8 DEF wh, HolderIsAlone, HolderHasSlot, CodeIsReal, NothingYet, BeforeSpin,
              Wheel!OnePrizeLetter, Wheel!SlotHasLetter
<1>9. QED
  BY <1>1, <1>2, <1>3, <1>4, <1>5, <1>6, <1>7, <1>8 DEF Wheel!Next

\* Of a step of the services, the wheel sees its own steps or none.
LEMMA WheelAlone == ASSUME [Next]_vars PROVE Wheel!Next \/ UNCHANGED wh
BY DEF Next, vars, wh, OfferStep, ChoiceStep, MailboxStep, WheelStep, AttributionStep, TemplateStep,
       CatalogueStep, PictureStep, MailStep, SettingsStep

LEMMA WheelInvAlways == Spec => []WheelInv
<1>1. Init => WheelInv
  BY WheelBegins DEF Init
<1>2. WheelInv /\ [Next]_vars => WheelInv'
  BY WheelAlone, WheelKept, ServicesAssumption
<1>3. QED
  BY <1>1, <1>2, PTL DEF Spec

\* However many requests race, one prize letter is handed over, and one more
\* for each lost answer: the claim decides the race (cart.wheel_prize).
THEOREM PrizeOnce == Spec => []OnePrizeLetter
<1>1. WheelInv => OnePrizeLetter
  BY DEF WheelInv, OnePrizeLetter
<1>2. QED
  BY WheelInvAlways, <1>1, PTL

\* A slot nobody works on stands for a letter with that code, unless a request
\* died between the claim and the mail.
THEOREM SlotIsPaid == Spec => []SlotHasLetter
<1>1. WheelInv => SlotHasLetter
  BY DEF WheelInv, SlotHasLetter
<1>2. QED
  BY WheelInvAlways, <1>1, PTL

-----------------------------------------------------------------------------

MailboxRows == [exists : BOOLEAN, email : BOOLEAN, unsubscribed : BOOLEAN, consent : BOOLEAN]

\* Once asked, and as long as no feed speaks against it, a row stays marked: no
\* ping, wheel or mailing takes the mark away.
MarkStays ==
    /\ row \in [Sub!Ids -> MailboxRows]
    /\ after \in Nat
    /\ \A i \in Sub!Ids : row[i].unsubscribed => row[i].exists
    /\ ~asked => after = 0
    /\ asked /\ ~fed => \E i \in Sub!Ids : row[i].unsubscribed
    /\ Sub!LateNeedsTwinOrFeed

LEMMA MarkBegins == Sub!Init => MarkStays
  BY DEF Sub!Init, Sub!NoRow, MailboxRows, MarkStays, Sub!LateNeedsTwinOrFeed

\* A letter through a row that is not marked needs the other one to be.
LEMMA LetterKeepsMark ==
    ASSUME MarkStays, NEW i \in Sub!Ids, row[i].exists, ~row[i].unsubscribed, Sub!Written, UNCHANGED <<row, asked, fed>>
    PROVE  MarkStays'
<1>1. after' \in Nat /\ (~asked' => after' = 0)
  BY DEF MarkStays, Sub!Written
<1>2. Sub!LateNeedsTwinOrFeed'
  <2>1. CASE asked /\ ~fed
    <3>1. PICK j \in Sub!Ids : row[j].unsubscribed /\ row[j].exists
      BY <2>1 DEF MarkStays
    <3>2. i # j /\ \A k \in Sub!Ids : k = i \/ k = j
      BY <3>1 DEF Sub!Ids
    <3>3. \A k \in Sub!Ids : row'[k].exists
      BY <3>1, <3>2
    <3>4. QED
      BY <3>3 DEF Sub!LateNeedsTwinOrFeed
  <2>2. CASE ~asked
    BY <2>2 DEF MarkStays, Sub!Written, Sub!LateNeedsTwinOrFeed
  <2>3. CASE fed
    BY <2>3 DEF Sub!LateNeedsTwinOrFeed
  <2>4. QED
    BY <2>1, <2>2, <2>3
<1>3. QED
  BY <1>1, <1>2 DEF MarkStays

LEMMA MarkKept == ASSUME MarkStays, Sub!Next \/ UNCHANGED su PROVE MarkStays'
<1>1. ASSUME NEW i \in Sub!Ids, Sub!Consent(i) PROVE MarkStays'
  <2>1. row' = [row EXCEPT ![i].exists = TRUE, ![i].email = TRUE, ![i].consent = TRUE]
    BY <1>1 DEF Sub!Consent
  <2>2. \A j \in Sub!Ids : /\ row'[j].unsubscribed = row[j].unsubscribed
                       /\ row[j].exists => row'[j].exists
    BY <2>1 DEF MarkStays
  <2>3. row' \in [Sub!Ids -> MailboxRows]
    <3> DEFINE w == [row[i] EXCEPT !.exists = TRUE, !.email = TRUE, !.consent = TRUE]
    <3>1. row[i] \in MailboxRows /\ row \in [Sub!Ids -> MailboxRows]
      BY <1>1 DEF MarkStays
    <3>2. w \in MailboxRows
      BY <3>1 DEF MailboxRows
    <3>3. row' = [row EXCEPT ![i] = w]
      BY <2>1, <3>1
    <3> HIDE DEF w
    <3>4. QED
      BY <3>1, <3>2, <3>3
  <2>4. QED
    BY <1>1, <2>2, <2>3 DEF Sub!Consent, MarkStays, Sub!LateNeedsTwinOrFeed
<1>2. ASSUME NEW u \in BOOLEAN, NEW c \in BOOLEAN, NEW e \in BOOLEAN, Sub!Feed(u, c, e) PROVE MarkStays'
  <2>1. /\ row' = [row EXCEPT !["shop"] = [exists |-> TRUE, email |-> e, unsubscribed |-> u, consent |-> c]]
        /\ fed' = asked /\ asked' = asked /\ after' = after /\ "shop" \in Sub!Ids
    BY <1>2 DEF Sub!Feed, Sub!Ids
  <2>2. Sub!LateNeedsTwinOrFeed'
    BY <2>1 DEF MarkStays, Sub!LateNeedsTwinOrFeed
  <2>3. QED
    BY <2>1, <2>2 DEF MarkStays, MailboxRows
<1>3. ASSUME NEW i \in Sub!Ids, Sub!Unsubscribe(i) PROVE MarkStays'
  <2>1. row' = [row EXCEPT ![i].unsubscribed = TRUE] /\ row[i].exists /\ asked' /\ UNCHANGED <<cooling, fed, after>>
    BY <1>3 DEF Sub!Unsubscribe
  <2>2. row[i] \in MailboxRows /\ row \in [Sub!Ids -> MailboxRows]
    BY <1>3 DEF MarkStays
  <2> DEFINE w == [row[i] EXCEPT !.unsubscribed = TRUE]
  <2>3. w \in MailboxRows /\ w.unsubscribed /\ w.exists = row[i].exists
    BY <2>2 DEF MailboxRows
  <2>4. row' = [row EXCEPT ![i] = w]
    BY <2>1, <2>2
  <2> HIDE DEF w
  <2>5. row' \in [Sub!Ids -> MailboxRows]
    BY <2>2, <2>3, <2>4
  <2>6. row'[i].unsubscribed /\ \A j \in Sub!Ids : row'[j].exists = row[j].exists /\ (row'[j].unsubscribed => j = i \/ row[j].unsubscribed)
    BY <2>1, <2>2, <2>3, <2>4
  <2>7. QED
    BY <2>1, <2>5, <2>6 DEF MarkStays, Sub!LateNeedsTwinOrFeed
<1>4. ASSUME NEW i \in Sub!Ids, Sub!Letter(i) PROVE MarkStays'
  BY <1>4, LetterKeepsMark DEF Sub!Letter, Sub!Mailable
<1>5. ASSUME NEW i \in Sub!Ids, Sub!CartLetter(i) PROVE MarkStays'
  BY <1>5, LetterKeepsMark DEF Sub!CartLetter
<1>6. CASE Sub!CooldownEnds
  BY <1>6 DEF Sub!CooldownEnds, MarkStays, Sub!LateNeedsTwinOrFeed
<1>7. CASE UNCHANGED su
  BY <1>7 DEF su, MarkStays, Sub!LateNeedsTwinOrFeed
<1>8. Sub!WheelLead => \E i \in Sub!Ids : Sub!Consent(i)
  BY DEF Sub!WheelLead, Sub!Ids
<1>9. QED
  BY <1>1, <1>2, <1>3, <1>4, <1>5, <1>6, <1>7, <1>8 DEF Sub!Next

\* Of a step of the services, the mailbox sees its own steps or none.
LEMMA MailboxAlone == ASSUME [Next]_vars PROVE Sub!Next \/ UNCHANGED su
BY DEF Next, vars, su, OfferStep, ChoiceStep, MailboxStep, WheelStep, AttributionStep, TemplateStep,
       CatalogueStep, PictureStep, MailStep, SettingsStep

\* After an unsubscription a letter needs a second row of the mailbox or a later
\* feed row: pings with consent and the wheel never revive a customer
\* (cart.cart_ping, analytics.unsubscribe).
THEOREM NobodyIsRevived == Spec => []LateNeedsTwinOrFeed
<1>1. Init => MarkStays
  BY MarkBegins DEF Init
<1>2. MarkStays /\ [Next]_vars => MarkStays'
  BY MailboxAlone, MarkKept
<1>3. MarkStays => LateNeedsTwinOrFeed
  BY DEF MarkStays, LateNeedsTwinOrFeed
<1>4. QED
  BY <1>1, <1>2, <1>3, PTL DEF Spec

-----------------------------------------------------------------------------
\* The click that earns order o for letter n.
Earned(n, o) == order[o].date > 0 /\ \E c \in clicks[n] : c <= order[o].date /\ order[o].date <= c + Window

OrderRows == [date : Nat, live : BOOLEAN]
LetterRows == [clicked : Nat, order : Orders \union {None}]
AttRows == [pc : {"idle", "find", "store"}, todo : SUBSET Orders,
            order : Orders \union {None}, letter : Letters \union {None}]

\* Dates of clicks are remembered even when a later click overwrites them;
\* orders under way are there, and a letter about to be credited has earned it,
\* so neither a late click nor another attRun can spoil the statement to come.
AttTypes ==
    /\ now \in Nat
    /\ order \in [Orders -> OrderRows]
    /\ letter \in [Letters -> LetterRows]
    /\ attRun \in [Runners -> AttRows]
    /\ clicks \in [Letters -> SUBSET Nat]
ClickKept == \A n \in Letters : letter[n].clicked > 0 => letter[n].clicked \in clicks[n]
TodoIsThere == \A r \in Runners : \A o \in attRun[r].todo : order[o].date > 0
StoreIsEarned ==
    \A r \in Runners : attRun[r].pc = "store" =>
        attRun[r].letter \in Letters /\ attRun[r].order \in Orders /\ Earned(attRun[r].letter, attRun[r].order)
StoredIsEarned == \A n \in Letters : letter[n].order # None => Earned(n, letter[n].order)
AttInv == AttTypes /\ ClickKept /\ TodoIsThere /\ StoreIsEarned /\ StoredIsEarned

LEMMA AttBegins == Att!Init => AttInv
<1> SUFFICES ASSUME Att!Init PROVE AttInv
  OBVIOUS
<1>1. Att!Idle \in AttRows /\ Att!Idle.todo = {} /\ Att!Idle.pc = "idle"
  BY DEF Att!Idle, AttRows
<1>2. QED
  BY <1>1 DEF Att!Init, AttInv, AttTypes, ClickKept, TodoIsThere, StoreIsEarned, StoredIsEarned,
              OrderRows, LetterRows

\* What is earned stays earned while orders keep their dates and clicks are added.
LEMMA EarnedStays ==
    ASSUME NEW n, NEW o, Earned(n, o), order'[o].date = order[o].date, clicks[n] \subseteq clicks'[n]
    PROVE  Earned(n, o)'
  BY DEF Earned

\* Steps that leave the runs alone, keep the dates of orders and the credits,
\* and add clicks.
LEMMA OutsideKept ==
    ASSUME AttInv, attRun' = attRun, AttTypes', ClickKept',
           \A o \in Orders : order[o].date > 0 => order'[o].date = order[o].date,
           \A n \in Letters : clicks[n] \subseteq clicks'[n] /\ letter'[n].order = letter[n].order
    PROVE  AttInv'
<1>1. \A n \in Letters, o \in Orders : Earned(n, o) => Earned(n, o)'
  BY EarnedStays DEF Earned
<1>2. \A r \in Runners : attRun[r].todo \subseteq Orders
  BY DEF AttInv, AttTypes, AttRows
<1>3. \A n \in Letters : letter[n].order # None => letter[n].order \in Orders
  BY DEF AttInv, AttTypes, LetterRows
<1>4. TodoIsThere'
  BY <1>2 DEF AttInv, TodoIsThere
<1>5. StoreIsEarned'
  BY <1>1 DEF AttInv, StoreIsEarned
<1>6. StoredIsEarned'
  BY <1>1, <1>3 DEF AttInv, StoredIsEarned
<1>7. QED
  BY <1>4, <1>5, <1>6 DEF AttInv

\* A step of one attRun to the row w.
LEMMA AttRunStep ==
    ASSUME AttInv, NEW r \in Runners, NEW w \in AttRows, attRun' = [attRun EXCEPT ![r] = w],
           UNCHANGED <<order, clicks>>,
           \A o \in w.todo : order[o].date > 0,
           w.pc = "store" => w.letter \in Letters /\ w.order \in Orders /\ Earned(w.letter, w.order)
    PROVE  attRun' \in [Runners -> AttRows] /\ TodoIsThere' /\ StoreIsEarned'
<1>1. attRun' \in [Runners -> AttRows] /\ \A q \in Runners : attRun'[q] = w \/ attRun'[q] = attRun[q]
  BY DEF AttInv, AttTypes
<1>2. TodoIsThere'
  BY <1>1 DEF AttInv, TodoIsThere
<1>3. \A n, o : Earned(n, o)' <=> Earned(n, o)
  BY DEF Earned
<1>4. StoreIsEarned'
  BY <1>1, <1>3 DEF AttInv, StoreIsEarned
<1>5. QED
  BY <1>1, <1>2, <1>4

LEMMA AttKept == ASSUME AttInv, Att!Next \/ UNCHANGED at PROVE AttInv'
<1>a. /\ \A o \in Orders : order[o] \in OrderRows
      /\ \A n \in Letters : letter[n] \in LetterRows
      /\ \A r \in Runners : attRun[r] \in AttRows /\ attRun[r].todo \subseteq Orders
  BY DEF AttInv, AttTypes, AttRows
<1>1. CASE Att!Tick
  <2>1. AttTypes' /\ ClickKept'
    BY <1>1 DEF Att!Tick, AttInv, AttTypes, ClickKept
  <2>2. QED
    BY <1>1, <2>1, OutsideKept DEF Att!Tick
<1>2. ASSUME NEW n \in Letters, Att!Click(n) PROVE AttInv'
  <2>1. /\ letter' = [letter EXCEPT ![n].clicked = now] /\ clicks' = [clicks EXCEPT ![n] = @ \union {now}]
        /\ UNCHANGED <<now, order, attRun>> /\ now \in Nat
    BY <1>2 DEF Att!Click, AttInv, AttTypes
  <2>2. [letter[n] EXCEPT !.clicked = now] \in LetterRows
    BY <1>a, <2>1 DEF LetterRows
  <2>3. letter' \in [Letters -> LetterRows]
    BY <2>1, <2>2 DEF AttInv, AttTypes
  <2>4. clicks' \in [Letters -> SUBSET Nat]
    BY <2>1 DEF AttInv, AttTypes
  <2>5. \A m \in Letters : clicks[m] \subseteq clicks'[m] /\ letter'[m].order = letter[m].order
                           /\ (letter'[m].clicked > 0 => letter'[m].clicked \in clicks'[m])
    BY <1>a, <2>1 DEF AttInv, AttTypes, ClickKept, LetterRows
  <2>6. AttTypes' /\ ClickKept'
    BY <2>1, <2>3, <2>4, <2>5 DEF AttInv, AttTypes, ClickKept
  <2>7. QED
    BY <2>1, <2>5, <2>6, OutsideKept
<1>3. ASSUME NEW o \in Orders, Att!Buy(o) \/ Att!Cancel(o) PROVE AttInv'
  <2>1. PICK w \in OrderRows : order' = [order EXCEPT ![o] = w] /\ (order[o].date > 0 => w.date = order[o].date)
    <3>1. CASE Att!Buy(o)
      <4> DEFINE w == [date |-> now, live |-> TRUE]
      <4>1. w \in OrderRows
        BY DEF OrderRows, AttInv, AttTypes
      <4>2. order[o].date = 0 /\ order' = [order EXCEPT ![o] = w]
        BY <3>1 DEF Att!Buy
      <4>3. ~(order[o].date > 0)
        BY <4>2
      <4> HIDE DEF w
      <4>4. w \in OrderRows /\ order' = [order EXCEPT ![o] = w] /\ (order[o].date > 0 => w.date = order[o].date)
        BY <4>1, <4>2, <4>3
      <4>5. QED
        BY <4>4
    <3>2. CASE Att!Cancel(o)
      <4>1. [order[o] EXCEPT !.live = FALSE] \in OrderRows /\ [order[o] EXCEPT !.live = FALSE].date = order[o].date
        BY <1>a DEF OrderRows
      <4>2. order' = [order EXCEPT ![o] = [order[o] EXCEPT !.live = FALSE]]
        BY <3>2 DEF Att!Cancel
      <4>3. QED
        BY <4>1, <4>2
    <3>3. QED
      BY <1>3, <3>1, <3>2
  <2>2. UNCHANGED <<now, letter, attRun, clicks>>
    BY <1>3 DEF Att!Buy, Att!Cancel
  <2>3. AttTypes' /\ ClickKept'
    BY <2>1, <2>2 DEF AttInv, AttTypes, ClickKept
  <2>4. \A p \in Orders : order[p].date > 0 => order'[p].date = order[p].date
    BY <2>1 DEF AttInv, AttTypes
  <2>5. QED
    BY <2>2, <2>3, <2>4, OutsideKept
<1>4. ASSUME NEW r \in Runners, NEW w \in AttRows, attRun' = [attRun EXCEPT ![r] = w],
             UNCHANGED <<now, order, letter, clicks>>,
             \A o \in w.todo : order[o].date > 0,
             w.pc = "store" => w.letter \in Letters /\ w.order \in Orders /\ Earned(w.letter, w.order)
      PROVE  AttInv'
  <2>1. attRun' \in [Runners -> AttRows] /\ TodoIsThere' /\ StoreIsEarned'
    BY <1>4, AttRunStep
  <2>2. StoredIsEarned'
    BY <1>4 DEF AttInv, StoredIsEarned, Earned
  <2>3. QED
    BY <1>4, <2>1, <2>2 DEF AttInv, AttTypes, ClickKept
<1>5. ASSUME NEW r \in Runners, Att!BeginRun(r) PROVE AttInv'
  <2> DEFINE S == {o \in Orders : /\ order[o].date > 0 /\ order[o].live
                                  /\ order[o].date + Window + Grace >= now
                                  /\ ~Att!Attributed(o)}
             w == [Att!Idle EXCEPT !.pc = "find", !.todo = S]
  <2>1. attRun' = [attRun EXCEPT ![r] = w] /\ UNCHANGED <<now, order, letter, clicks>>
    BY <1>5 DEF Att!BeginRun
  <2>2. S \subseteq Orders /\ \A o \in S : order[o].date > 0
    OBVIOUS
  <2> HIDE DEF S
  <2>3. w \in AttRows /\ w.todo = S /\ w.pc # "store"
    BY <2>2 DEF Att!Idle, AttRows
  <2>4. QED
    BY <1>4, <2>1, <2>2, <2>3
<1>6. ASSUME NEW r \in Runners, NEW o \in Orders, Att!FindLetter(r, o) PROVE AttInv'
  <2>1. UNCHANGED <<now, order, letter, clicks>> /\ o \in attRun[r].todo
    BY <1>6 DEF Att!FindLetter
  <2>2. order[o].date > 0 /\ \A p \in attRun[r].todo \ {o} : order[p].date > 0
    BY <2>1 DEF AttInv, TodoIsThere
  <2>3. CASE attRun' = [attRun EXCEPT ![r].todo = @ \ {o}, ![r].pc = IF attRun[r].todo = {o} THEN "idle" ELSE "find"]
    <3> DEFINE w == [attRun[r] EXCEPT !.todo = @ \ {o}, !.pc = IF attRun[r].todo = {o} THEN "idle" ELSE "find"]
    <3>1. attRun' = [attRun EXCEPT ![r] = w]
      BY <2>3, <1>a DEF AttInv, AttTypes
    <3>2. w \in AttRows /\ w.todo = attRun[r].todo \ {o} /\ w.pc # "store"
      BY <1>a DEF AttRows
    <3>3. QED
      BY <1>4, <2>1, <2>2, <3>1, <3>2
  <2>4. ASSUME NEW n \in Att!Clicked(o),
               attRun' = [attRun EXCEPT ![r] = [pc |-> "store", todo |-> @.todo \ {o}, order |-> o, letter |-> n]]
        PROVE  AttInv'
    <3> DEFINE w == [pc |-> "store", todo |-> attRun[r].todo \ {o}, order |-> o, letter |-> n]
    <3>1. n \in Letters /\ letter[n].clicked > 0 /\ letter[n].clicked <= order[o].date
          /\ order[o].date <= letter[n].clicked + Window
      BY <2>4 DEF Att!Clicked
    <3>2. Earned(n, o)
      BY <2>2, <3>1 DEF Earned, AttInv, ClickKept
    <3>3. w \in AttRows
      BY <1>a, <3>1 DEF AttRows
    <3>4. attRun' = [attRun EXCEPT ![r] = w]
      BY <2>4
    <3>5. w.pc = "store" /\ w.todo = attRun[r].todo \ {o} /\ w.order = o /\ w.letter = n
      OBVIOUS
    <3> HIDE DEF w
    <3>6. QED
      BY <1>4, <2>1, <2>2, <3>1, <3>2, <3>3, <3>4, <3>5
  <2>5. QED
    BY <1>6, <2>3, <2>4 DEF Att!FindLetter
<1>7. ASSUME NEW r \in Runners, Att!StoreOrder(r) PROVE AttInv'
  <2>1. /\ UNCHANGED <<now, order, clicks>> /\ attRun[r].pc = "store"
        /\ letter' = [letter EXCEPT ![attRun[r].letter].order = attRun[r].order]
    BY <1>7 DEF Att!StoreOrder
  <2>2. attRun[r].letter \in Letters /\ attRun[r].order \in Orders /\ Earned(attRun[r].letter, attRun[r].order)
    BY <2>1 DEF AttInv, StoreIsEarned
  <2>3. PICK w \in AttRows : attRun' = [attRun EXCEPT ![r] = w] /\ w.pc # "store" /\ w.todo \subseteq attRun[r].todo
    <3>1. Att!Idle \in AttRows /\ Att!Idle.pc # "store" /\ Att!Idle.todo = {}
      BY DEF Att!Idle, AttRows
    <3> DEFINE v == [attRun[r] EXCEPT !.pc = "find", !.order = None, !.letter = None]
    <3>2. v \in AttRows /\ v.pc # "store" /\ v.todo = attRun[r].todo
      BY <1>a DEF AttRows
    <3>3. attRun' = [attRun EXCEPT ![r] = Att!Idle] \/ attRun' = [attRun EXCEPT ![r] = v]
      BY <1>7 DEF Att!StoreOrder
    <3> HIDE DEF v
    <3>4. QED
      BY <3>1, <3>2, <3>3
  <2>4. attRun' \in [Runners -> AttRows] /\ TodoIsThere' /\ StoreIsEarned'
    BY <2>1, <2>3, AttRunStep DEF AttInv, TodoIsThere
  <2>5. [letter[attRun[r].letter] EXCEPT !.order = attRun[r].order] \in LetterRows
    BY <1>a, <2>2 DEF LetterRows
  <2>6. letter' \in [Letters -> LetterRows]
    BY <2>1, <2>2, <2>5 DEF AttInv, AttTypes
  <2>7. \A n \in Letters : /\ letter'[n].clicked = letter[n].clicked
                           /\ letter'[n].order = IF n = attRun[r].letter THEN attRun[r].order ELSE letter[n].order
    BY <1>a, <2>1 DEF AttInv, AttTypes, LetterRows
  <2>8. ClickKept' /\ StoredIsEarned'
    BY <2>1, <2>2, <2>7 DEF AttInv, ClickKept, StoredIsEarned, Earned
  <2>9. QED
    BY <2>1, <2>4, <2>6, <2>8 DEF AttInv, AttTypes
<1>8. CASE UNCHANGED at
  BY <1>8 DEF at, AttInv, AttTypes, ClickKept, TodoIsThere, StoreIsEarned, StoredIsEarned, Earned
<1>9. QED
  BY <1>1, <1>2, <1>3, <1>5, <1>6, <1>7, <1>8 DEF Att!Next, Att!Work

\* Of a step of the services, attribution sees its own steps or none.
LEMMA AttributionAlone == ASSUME [Next]_vars PROVE Att!Next \/ UNCHANGED at
BY DEF Next, vars, at, OfferStep, ChoiceStep, MailboxStep, WheelStep, AttributionStep, TemplateStep,
       CatalogueStep, PictureStep, MailStep, SettingsStep

\* An order is credited only to a letter the customer clicked within the
\* window before it, whatever clicks and runs come in between
\* (analytics.run_attribution).
THEOREM CreditsAreEarned == Spec => []CreditIsEarned
<1>1. Init => AttInv
  BY AttBegins DEF Init
<1>2. AttInv /\ [Next]_vars => AttInv'
  BY AttributionAlone, AttKept
<1>3. AttInv => CreditIsEarned
  BY DEF AttInv, StoredIsEarned, Earned, CreditIsEarned, Att!CreditIsEarned
<1>4. QED
  BY <1>1, <1>2, <1>3, PTL DEF Spec

-----------------------------------------------------------------------------
\* Letters an order is stored at, and runs that may still store it.
Stored(o) == {n \in Letters : letter[n].order = o}
Pending(o) == {r \in Runners : o \in attRun[r].todo \/ (attRun[r].pc = "store" /\ attRun[r].order = o)}

\* What is stored was read as free by the run that stored it: a run alone finds
\* no letter at its orders, and every further one has been counted as overlap.
TodoOnce ==
    \A r \in Runners : /\ attRun[r].pc = "idle" => attRun[r].todo = {}
                       /\ attRun[r].pc = "store" => attRun[r].order \notin attRun[r].todo
CreditsCovered ==
    \A o \in Orders : /\ IsFiniteSet(Stored(o)) /\ IsFiniteSet(Pending(o))
                      /\ Cardinality(Stored(o)) + Cardinality(Pending(o)) <= 1 + attOverlaps
OverlapInv == AttInv /\ TodoOnce /\ attOverlaps \in Nat /\ CreditsCovered

\* Attribution counts with the same operator as this module.
LEMMA SameCredits == \A S : Att!Cardinality(S) = Cardinality(S)
  BY Zenon DEF Att!Cardinality, Cardinality

LEMMA OverlapBegins == Init => OverlapInv
<1> SUFFICES ASSUME Init PROVE OverlapInv
  OBVIOUS
<1>1. Att!Init
  BY DEF Init
<1>2. AttInv
  BY <1>1, AttBegins
<1>3. \A o \in Orders : Stored(o) = {} /\ Pending(o) = {}
  BY <1>1, ServicesAssumption DEF Att!Init, Stored, Pending, Att!Idle
<1>4. attOverlaps = 0 /\ TodoOnce
  BY <1>1 DEF Att!Init, Att!Idle, TodoOnce
<1>5. CreditsCovered
  BY <1>3, <1>4, FS_EmptySet DEF CreditsCovered
<1>6. QED
  BY <1>2, <1>4, <1>5 DEF OverlapInv

\* A step that adds no letter, no run and takes no overlap back.
LEMMA NoNewCredit ==
    ASSUME CreditsCovered, attOverlaps \in Nat, NEW o \in Orders,
           Stored(o)' \subseteq Stored(o), Pending(o)' \subseteq Pending(o),
           attOverlaps' \in Nat, attOverlaps <= attOverlaps'
    PROVE  /\ IsFiniteSet(Stored(o)') /\ IsFiniteSet(Pending(o)')
           /\ Cardinality(Stored(o)') + Cardinality(Pending(o)') <= 1 + attOverlaps'
<1> DEFINE S == Stored(o)
           P == Pending(o)
           S1 == Stored(o)'
           P1 == Pending(o)'
<1>1. IsFiniteSet(S) /\ IsFiniteSet(P) /\ Cardinality(S) + Cardinality(P) <= 1 + attOverlaps
  BY DEF CreditsCovered
<1>2. S1 \subseteq S /\ P1 \subseteq P
  OBVIOUS
<1> HIDE DEF S, P, S1, P1
<1>3. IsFiniteSet(S1) /\ Cardinality(S1) <= Cardinality(S) /\ IsFiniteSet(P1) /\ Cardinality(P1) <= Cardinality(P)
  BY <1>1, <1>2, FS_Subset
<1>4. Cardinality(S) \in Nat /\ Cardinality(S1) \in Nat /\ Cardinality(P) \in Nat /\ Cardinality(P1) \in Nat
  BY <1>1, <1>3, FS_CardinalityType
<1>5. IsFiniteSet(S1) /\ IsFiniteSet(P1) /\ Cardinality(S1) + Cardinality(P1) <= 1 + attOverlaps'
  BY <1>1, <1>3, <1>4
<1>6. QED
  BY <1>5 DEF S1, P1

\* A run that begins finds o without a letter.
LEMMA RunJoins ==
    ASSUME CreditsCovered, attOverlaps \in Nat, NEW o \in Orders, NEW r \in Runners,
           Stored(o) = {}, Stored(o)' = {}, Pending(o)' \subseteq Pending(o) \union {r},
           \/ attOverlaps' = attOverlaps + 1
           \/ attOverlaps' = attOverlaps /\ Pending(o) = {}
    PROVE  /\ IsFiniteSet(Stored(o)') /\ IsFiniteSet(Pending(o)')
           /\ Cardinality(Stored(o)') + Cardinality(Pending(o)') <= 1 + attOverlaps'
<1> DEFINE P == Pending(o)
           P1 == Pending(o)'
<1>1. IsFiniteSet(P) /\ Cardinality({}) + Cardinality(P) <= 1 + attOverlaps
  BY DEF CreditsCovered
<1>2. P1 \subseteq P \union {r}
  OBVIOUS
<1>a. \/ attOverlaps' = attOverlaps + 1
      \/ attOverlaps' = attOverlaps /\ P = {}
  OBVIOUS
<1> HIDE DEF P, P1
<1>b. Cardinality(P) \in Nat
  BY <1>1, FS_CardinalityType
<1>c. IsFiniteSet(P \union {r}) /\ Cardinality(P \union {r}) = IF r \in P THEN Cardinality(P) ELSE Cardinality(P) + 1
  BY <1>1, FS_AddElement
<1>3. IsFiniteSet(P \union {r}) /\ Cardinality(P \union {r}) <= Cardinality(P) + 1 /\ Cardinality(P) \in Nat
  BY <1>b, <1>c
<1>4. IsFiniteSet(P1) /\ Cardinality(P1) <= Cardinality(P \union {r})
  BY <1>2, <1>3, FS_Subset
<1>5. Cardinality(P1) \in Nat /\ Cardinality(P \union {r}) \in Nat /\ Cardinality({}) = 0 /\ IsFiniteSet({})
  BY <1>3, <1>4, FS_CardinalityType, FS_EmptySet
<1>6. Cardinality(P1) <= Cardinality(P) + 1
  BY <1>3, <1>4, <1>5
<1>7. P = {} => Cardinality(P) = 0
  BY FS_EmptySet
<1>8. Cardinality({}) + Cardinality(P1) <= 1 + attOverlaps'
  BY <1>1, <1>3, <1>5, <1>6, <1>7, <1>a
<1>9. QED
  BY <1>4, <1>5, <1>8 DEF P1

\* A run stores o at a letter and has done with it.
LEMMA RunStores ==
    ASSUME CreditsCovered, attOverlaps \in Nat, NEW o \in Orders, NEW r \in Pending(o), NEW n,
           Stored(o)' \subseteq Stored(o) \union {n}, Pending(o)' \subseteq Pending(o) \ {r},
           attOverlaps' = attOverlaps
    PROVE  /\ IsFiniteSet(Stored(o)') /\ IsFiniteSet(Pending(o)')
           /\ Cardinality(Stored(o)') + Cardinality(Pending(o)') <= 1 + attOverlaps'
<1> DEFINE S == Stored(o)
           P == Pending(o)
           S1 == Stored(o)'
           P1 == Pending(o)'
<1>1. IsFiniteSet(S) /\ IsFiniteSet(P) /\ Cardinality(S) + Cardinality(P) <= 1 + attOverlaps
  BY DEF CreditsCovered
<1>2. S1 \subseteq S \union {n} /\ P1 \subseteq P \ {r} /\ r \in P
  OBVIOUS
<1> HIDE DEF S, P, S1, P1
<1>b. Cardinality(S) \in Nat
  BY <1>1, FS_CardinalityType
<1>c. IsFiniteSet(S \union {n}) /\ Cardinality(S \union {n}) = IF n \in S THEN Cardinality(S) ELSE Cardinality(S) + 1
  BY <1>1, FS_AddElement
<1>3. IsFiniteSet(S \union {n}) /\ Cardinality(S \union {n}) <= Cardinality(S) + 1 /\ Cardinality(S) \in Nat
  BY <1>b, <1>c
<1>4. IsFiniteSet(P \ {r}) /\ Cardinality(P \ {r}) = Cardinality(P) - 1 /\ Cardinality(P) \in Nat
  BY <1>1, <1>2, FS_RemoveElement, FS_CardinalityType
<1>5. /\ IsFiniteSet(S1) /\ Cardinality(S1) <= Cardinality(S \union {n})
      /\ IsFiniteSet(P1) /\ Cardinality(P1) <= Cardinality(P \ {r})
  BY <1>2, <1>3, <1>4, FS_Subset
<1>6. Cardinality(S1) \in Nat /\ Cardinality(P1) \in Nat /\ Cardinality(S \union {n}) \in Nat
  BY <1>3, <1>5, FS_CardinalityType
<1>7. Cardinality(S1) + Cardinality(P1) <= 1 + attOverlaps'
  BY <1>1, <1>3, <1>4, <1>5, <1>6
<1>8. QED
  BY <1>5, <1>7 DEF S1, P1

LEMMA OverlapKept == ASSUME OverlapInv, Att!Next \/ UNCHANGED at PROVE OverlapInv'
<1>1. AttInv'
  BY AttKept DEF OverlapInv
<1>a. /\ \A n \in Letters : letter[n] \in LetterRows
      /\ \A r \in Runners : attRun[r] \in AttRows /\ attRun[r].todo \subseteq Orders
      /\ attRun \in [Runners -> AttRows] /\ letter \in [Letters -> LetterRows]
  BY DEF OverlapInv, AttInv, AttTypes, AttRows
<1>2. ASSUME attRun' = attRun, \A n \in Letters : letter'[n].order = letter[n].order, attOverlaps' = attOverlaps
      PROVE  OverlapInv'
  <2>1. \A o \in Orders : Stored(o)' = Stored(o) /\ Pending(o)' = Pending(o)
    BY <1>2 DEF Stored, Pending
  <2>2. CreditsCovered'
    BY <1>2, <2>1, NoNewCredit DEF OverlapInv, CreditsCovered
  <2>3. QED
    BY <1>1, <1>2, <2>2 DEF OverlapInv, TodoOnce
<1>3. CASE Att!Tick \/ (\E o \in Orders : Att!Buy(o) \/ Att!Cancel(o)) \/ UNCHANGED at
  BY <1>2, <1>3 DEF Att!Tick, Att!Buy, Att!Cancel, at
<1>4. ASSUME NEW n \in Letters, Att!Click(n) PROVE OverlapInv'
  <2>1. letter' = [letter EXCEPT ![n].clicked = now] /\ attRun' = attRun /\ attOverlaps' = attOverlaps
    BY <1>4 DEF Att!Click
  <2>2. \A m \in Letters : letter'[m].order = letter[m].order
    BY <1>a, <2>1 DEF LetterRows
  <2>3. QED
    BY <1>2, <2>1, <2>2
<1>5. ASSUME NEW r \in Runners, Att!BeginRun(r) PROVE OverlapInv'
  <2> DEFINE S == {o \in Orders : /\ order[o].date > 0 /\ order[o].live
                                  /\ order[o].date + Window + Grace >= now
                                  /\ ~Att!Attributed(o)}
             w == [Att!Idle EXCEPT !.pc = "find", !.todo = S]
  <2>1. /\ attRun[r].pc = "idle" /\ attRun' = [attRun EXCEPT ![r] = w] /\ UNCHANGED <<now, order, letter, clicks>>
        /\ IF \E q \in Runners : attRun[q].pc # "idle" THEN attOverlaps' = attOverlaps + 1
           ELSE attOverlaps' = attOverlaps
    BY <1>5 DEF Att!BeginRun
  <2>2. \A o \in S : Stored(o) = {} /\ Stored(o)' = {}
    BY <2>1 DEF Att!Attributed, Stored
  <2>3. S \subseteq Orders
    OBVIOUS
  <2> HIDE DEF S
  <2>4. w.pc = "find" /\ w.todo = S
    BY DEF Att!Idle
  <2> HIDE DEF w
  <2>5. \A q \in Runners : attRun'[q] = IF q = r THEN w ELSE attRun[q]
    BY <1>a, <2>1
  <2>6. TodoOnce'
    BY <2>4, <2>5 DEF OverlapInv, TodoOnce
  <2>7. \A o \in Orders : Pending(o)' \subseteq Pending(o) \union {r} /\ (o \notin S => Pending(o)' \subseteq Pending(o))
    BY <2>4, <2>5 DEF Pending
  <2>8. (\A q \in Runners : attRun[q].pc = "idle") => \A o \in Orders : Pending(o) = {}
    BY DEF OverlapInv, TodoOnce, Pending
  <2>9. /\ attOverlaps \in Nat /\ attOverlaps' \in Nat /\ attOverlaps <= attOverlaps'
        /\ \A o \in Orders : attOverlaps' = attOverlaps + 1 \/ (attOverlaps' = attOverlaps /\ Pending(o) = {})
    BY <2>1, <2>8 DEF OverlapInv
  <2>10. \A o \in Orders : Stored(o)' = Stored(o)
    BY <2>1 DEF Stored
  <2>11. ASSUME NEW o \in Orders
         PROVE /\ IsFiniteSet(Stored(o)') /\ IsFiniteSet(Pending(o)')
               /\ Cardinality(Stored(o)') + Cardinality(Pending(o)') <= 1 + attOverlaps'
    <3>1. CASE o \in S
      BY <2>2, <2>7, <2>9, <3>1, RunJoins DEF OverlapInv
    <3>2. CASE o \notin S
      BY <2>7, <2>9, <2>10, <3>2, NoNewCredit DEF OverlapInv
    <3>3. QED
      BY <3>1, <3>2
  <2>12. CreditsCovered'
    BY <2>11 DEF CreditsCovered
  <2>13. QED
    BY <1>1, <2>6, <2>9, <2>12 DEF OverlapInv
<1>6. ASSUME NEW r \in Runners, NEW o \in Orders, Att!FindLetter(r, o) PROVE OverlapInv'
  <2>1. /\ attRun[r].pc = "find" /\ o \in attRun[r].todo /\ UNCHANGED <<letter, attOverlaps>>
        /\ \/ attRun' = [attRun EXCEPT ![r].todo = @ \ {o},
                                       ![r].pc = IF attRun[r].todo = {o} THEN "idle" ELSE "find"]
           \/ \E n \in Att!Clicked(o) :
                 attRun' = [attRun EXCEPT ![r] = [pc |-> "store", todo |-> @.todo \ {o}, order |-> o, letter |-> n]]
    BY <1>6 DEF Att!FindLetter
  <2>2. \E w : /\ attRun' = [attRun EXCEPT ![r] = w] /\ w.todo = attRun[r].todo \ {o}
               /\ w.pc \in {"idle", "find", "store"}
               /\ w.pc = "idle" => w.todo = {}
               /\ w.pc = "store" => w.order = o
    <3>1. CASE attRun' = [attRun EXCEPT ![r].todo = @ \ {o},
                                        ![r].pc = IF attRun[r].todo = {o} THEN "idle" ELSE "find"]
      <4> DEFINE w == [attRun[r] EXCEPT !.todo = @ \ {o}, !.pc = IF attRun[r].todo = {o} THEN "idle" ELSE "find"]
      <4>1. attRun' = [attRun EXCEPT ![r] = w]
        BY <3>1, <1>a
      <4>2. /\ w.todo = attRun[r].todo \ {o} /\ w.pc \in {"idle", "find"}
            /\ w.pc = "idle" => w.todo = {}
        BY <1>a DEF AttRows
      <4> HIDE DEF w
      <4>3. QED
        BY <4>1, <4>2
    <3>2. ASSUME NEW n \in Att!Clicked(o),
                 attRun' = [attRun EXCEPT ![r] = [pc |-> "store", todo |-> @.todo \ {o}, order |-> o, letter |-> n]]
          PROVE  \E w : /\ attRun' = [attRun EXCEPT ![r] = w] /\ w.todo = attRun[r].todo \ {o}
                        /\ w.pc \in {"idle", "find", "store"}
                        /\ w.pc = "idle" => w.todo = {}
                        /\ w.pc = "store" => w.order = o
      <4> DEFINE w == [pc |-> "store", todo |-> attRun[r].todo \ {o}, order |-> o, letter |-> n]
      <4>1. attRun' = [attRun EXCEPT ![r] = w]
        BY <3>2
      <4>2. w.todo = attRun[r].todo \ {o} /\ w.pc = "store" /\ w.order = o
        OBVIOUS
      <4> HIDE DEF w
      <4>3. QED
        BY <4>1, <4>2
    <3>3. QED
      BY <2>1, <3>1, <3>2
  <2>3. PICK w : /\ attRun' = [attRun EXCEPT ![r] = w] /\ w.todo = attRun[r].todo \ {o}
                 /\ w.pc \in {"idle", "find", "store"}
                 /\ w.pc = "idle" => w.todo = {}
                 /\ w.pc = "store" => w.order = o
    BY <2>2
  <2>4. \A q \in Runners : attRun'[q] = IF q = r THEN w ELSE attRun[q]
    BY <1>a, <2>3
  <2>5. TodoOnce'
    BY <2>3, <2>4 DEF OverlapInv, TodoOnce
  <2>6. \A p \in Orders : Pending(p)' \subseteq Pending(p) /\ Stored(p)' = Stored(p)
    BY <2>1, <2>3, <2>4 DEF Pending, Stored
  <2>7. CreditsCovered'
    BY <2>1, <2>6, NoNewCredit DEF OverlapInv, CreditsCovered
  <2>8. QED
    BY <1>1, <2>1, <2>5, <2>7 DEF OverlapInv
<1>7. ASSUME NEW r \in Runners, Att!StoreOrder(r) PROVE OverlapInv'
  <2>a. /\ attRun[r].pc = "store" /\ attOverlaps' = attOverlaps
        /\ letter' = [letter EXCEPT ![attRun[r].letter].order = attRun[r].order]
        /\ attRun' = [attRun EXCEPT ![r] = IF @.todo = {} THEN Att!Idle
                                           ELSE [@ EXCEPT !.pc = "find", !.order = None, !.letter = None]]
    BY <1>7 DEF Att!StoreOrder
  <2>b. attRun[r].letter \in Letters /\ attRun[r].order \in Orders
    BY <2>a DEF OverlapInv, AttInv, StoreIsEarned
  <2>c. PICK n \in Letters : n = attRun[r].letter
    BY <2>b
  <2>d. PICK p \in Orders : p = attRun[r].order
    BY <2>b
  <2>1. /\ attRun[r].pc = "store" /\ attRun[r].order = p /\ attOverlaps' = attOverlaps
        /\ letter' = [letter EXCEPT ![n].order = p]
    BY <2>a, <2>c, <2>d
  <2>3. PICK w : attRun' = [attRun EXCEPT ![r] = w] /\ w.todo = attRun[r].todo /\ w.pc \in {"idle", "find"}
                 /\ (w.pc = "idle" => w.todo = {})
    <3>1. Att!Idle.pc = "idle" /\ Att!Idle.todo = {}
      BY DEF Att!Idle
    <3> DEFINE v == [attRun[r] EXCEPT !.pc = "find", !.order = None, !.letter = None]
    <3>2. v.pc = "find" /\ v.todo = attRun[r].todo
      BY <1>a DEF AttRows
    <3>3. attRun' = [attRun EXCEPT ![r] = IF attRun[r].todo = {} THEN Att!Idle ELSE v]
      BY <2>a
    <3> HIDE DEF v
    <3>4. QED
      BY <3>1, <3>2, <3>3
  <2>4. \A q \in Runners : attRun'[q] = IF q = r THEN w ELSE attRun[q]
    BY <1>a, <2>3
  <2>5. TodoOnce'
    BY <2>3, <2>4 DEF OverlapInv, TodoOnce
  <2>6. p \notin attRun[r].todo
    BY <2>1 DEF OverlapInv, TodoOnce
  <2>7. \A m \in Letters : letter'[m].order = IF m = n THEN p ELSE letter[m].order
    BY <1>a, <2>1 DEF LetterRows
  <2>8. r \in Pending(p)
    BY <2>1 DEF Pending
  <2>9. Pending(p)' \subseteq Pending(p) \ {r} /\ Stored(p)' \subseteq Stored(p) \union {n}
    BY <2>3, <2>4, <2>6, <2>7 DEF Pending, Stored
  <2>10. \A o \in Orders : o # p => Pending(o)' \subseteq Pending(o) /\ Stored(o)' \subseteq Stored(o)
    BY <2>3, <2>4, <2>7 DEF Pending, Stored
  <2>11. ASSUME NEW o \in Orders
         PROVE /\ IsFiniteSet(Stored(o)') /\ IsFiniteSet(Pending(o)')
               /\ Cardinality(Stored(o)') + Cardinality(Pending(o)') <= 1 + attOverlaps'
    <3>1. CASE o = p
      BY <2>1, <2>8, <2>9, <3>1, RunStores DEF OverlapInv
    <3>2. CASE o # p
      BY <2>1, <2>10, <3>2, NoNewCredit DEF OverlapInv
    <3>3. QED
      BY <3>1, <3>2
  <2>12. CreditsCovered'
    BY <2>11 DEF CreditsCovered
  <2>13. QED
    BY <1>1, <2>1, <2>5, <2>12 DEF OverlapInv
<1>8. QED
  BY <1>3, <1>4, <1>5, <1>6, <1>7 DEF Att!Next, Att!Work

\* Without overlapping runs an order is stored at one letter, and at one more
\* for each run that began while another was working: the worker's and the
\* admin's (analytics.run_attribution).
THEOREM OneCreditEach == Spec => []OneOrderOneLetter
<1>1. OverlapInv => OneOrderOneLetter
  <2> SUFFICES ASSUME OverlapInv, NEW o \in Orders PROVE Cardinality({n \in Letters : letter[n].order = o}) <= 1 + attOverlaps
    BY SameCredits DEF OneOrderOneLetter, Att!OneOrderOneLetter
  <2>1. /\ IsFiniteSet(Stored(o)) /\ IsFiniteSet(Pending(o)) /\ attOverlaps \in Nat
        /\ Cardinality(Stored(o)) + Cardinality(Pending(o)) <= 1 + attOverlaps
    BY DEF OverlapInv, CreditsCovered
  <2>2. Cardinality(Stored(o)) \in Nat /\ Cardinality(Pending(o)) \in Nat
    BY <2>1, FS_CardinalityType
  <2>3. Cardinality(Stored(o)) <= 1 + attOverlaps
    BY <2>1, <2>2
  <2>4. QED
    BY <2>3 DEF Stored
<1>2. OverlapInv /\ [Next]_vars => OverlapInv'
  BY AttributionAlone, OverlapKept
<1>3. QED
  BY OverlapBegins, <1>1, <1>2, PTL DEF Spec

-----------------------------------------------------------------------------
(* The types of these parts, bounds included.                              *)

LEMMA WheelTyped ==
    ASSUME WheelInv, WheelInv', Wheel!TypeOK, Wheel!Next \/ UNCHANGED wh
    PROVE  Wheel!TypeOK'
<1>1. spun' \in BOOLEAN
  BY DEF Wheel!TypeOK, Wheel!Next, Wheel!WheelLead, Wheel!PrizeAsked, Wheel!ClaimSlot, Wheel!MailAccepted,
         Wheel!MailFailed, Wheel!ReleaseSlot, Wheel!RequestDies, wh
<1>2. slot' \in Codes \union {None}
  BY DEF WheelInv, CodeIsReal, Wheel!TypeOK, Wheel!Next, Wheel!WheelLead, Wheel!PrizeAsked, Wheel!ClaimSlot,
         Wheel!MailAccepted, Wheel!MailFailed, Wheel!ReleaseSlot, Wheel!RequestDies, wh
<1>3. requests' \in 0 .. MaxRequests
  BY BoundsAssumption
  DEF Wheel!TypeOK, Wheel!Next, Wheel!WheelLead, Wheel!PrizeAsked, Wheel!ClaimSlot, Wheel!MailAccepted,
         Wheel!MailFailed, Wheel!ReleaseSlot, Wheel!RequestDies, wh
<1>4. QED
  BY <1>1, <1>2, <1>3 DEF WheelInv, WheelTypes, Wheel!TypeOK

LEMMA MailboxTyped ==
    ASSUME MarkStays', Sub!TypeOK, Sub!Next \/ UNCHANGED su
    PROVE  Sub!TypeOK'
<1>1. cooling' \subseteq Sub!Ids /\ asked' \in BOOLEAN /\ fed' \in BOOLEAN
  BY DEF Sub!TypeOK, Sub!Next, Sub!WheelLead, Sub!CooldownEnds, Sub!Consent, Sub!Unsubscribe, Sub!Letter,
         Sub!CartLetter, Sub!Feed, su
<1>2. after' \in 0 .. MaxLetters
  <2>1. after' = after \/ (after < MaxLetters /\ after' \in {after, after + 1})
    BY DEF Sub!Next, Sub!WheelLead, Sub!CooldownEnds, Sub!Consent, Sub!Unsubscribe, Sub!Letter, Sub!CartLetter,
           Sub!Feed, Sub!Written, su
  <2>2. after \in 0 .. MaxLetters /\ MaxLetters \in Nat
    BY BoundsAssumption DEF Sub!TypeOK
  <2>3. QED
    BY <2>1, <2>2
<1>3. QED
  BY <1>1, <1>2 DEF MarkStays, MailboxRows, Sub!TypeOK

LEMMA AttributionTyped ==
    ASSUME AttInv, AttInv', Att!TypeOK, Att!Next \/ UNCHANGED at
    PROVE  Att!TypeOK'
<1>1. now' \in 1 .. Horizon
  <2>1. now' = now \/ (now < Horizon /\ now' = now + 1)
    BY DEF Att!Next, Att!Tick, Att!Click, Att!Buy, Att!Cancel, Att!Work, Att!BeginRun, Att!FindLetter,
           Att!StoreOrder, at
  <2>2. now \in 1 .. Horizon /\ Horizon \in Nat
    BY BoundsAssumption DEF Att!TypeOK
  <2>3. QED
    BY <2>1, <2>2
<1>2. attOverlaps' \in 0 .. MaxOverlaps
  <2>1. attOverlaps' = attOverlaps \/ (attOverlaps < MaxOverlaps /\ attOverlaps' = attOverlaps + 1)
    BY DEF Att!Next, Att!Tick, Att!Click, Att!Buy, Att!Cancel, Att!Work, Att!BeginRun, Att!FindLetter,
           Att!StoreOrder, at
  <2>2. attOverlaps \in 0 .. MaxOverlaps /\ MaxOverlaps \in Nat
    BY BoundsAssumption DEF Att!TypeOK
  <2>3. QED
    BY <2>1, <2>2
<1>3. \A o \in Orders : order'[o].date \in 0 .. Horizon
  <2> SUFFICES ASSUME NEW o \in Orders PROVE order'[o].date \in 0 .. Horizon
    OBVIOUS
  <2>1. order[o] \in [date : 0 .. Horizon, live : BOOLEAN] /\ order \in [Orders -> [date : 0 .. Horizon, live : BOOLEAN]]
        /\ now \in 1 .. Horizon
    BY DEF Att!TypeOK
  <2>2. \/ order' = order
        \/ \E b \in Orders : order' = [order EXCEPT ![b] = [date |-> now, live |-> TRUE]]
        \/ \E b \in Orders : order' = [order EXCEPT ![b].live = FALSE]
    BY DEF Att!Next, Att!Tick, Att!Click, Att!Buy, Att!Cancel, Att!Work, Att!BeginRun, Att!FindLetter,
           Att!StoreOrder, at
  <2>3. QED
    BY <2>1, <2>2, BoundsAssumption
<1>4. \A n \in Letters : letter'[n].clicked \in 0 .. Horizon /\ clicks'[n] \subseteq 1 .. Horizon
  <2> SUFFICES ASSUME NEW n \in Letters PROVE letter'[n].clicked \in 0 .. Horizon /\ clicks'[n] \subseteq 1 .. Horizon
    OBVIOUS
  <2>1. /\ letter \in [Letters -> [clicked : 0 .. Horizon, order : Orders \union {None}]]
        /\ clicks \in [Letters -> SUBSET (1 .. Horizon)] /\ now \in 1 .. Horizon
    BY DEF Att!TypeOK
  <2>2. \/ letter' = letter /\ clicks' = clicks
        \/ \E m \in Letters : letter' = [letter EXCEPT ![m].clicked = now] /\ clicks' = [clicks EXCEPT ![m] = @ \union {now}]
        \/ \E m, o : letter' = [letter EXCEPT ![m].order = o] /\ clicks' = clicks
    BY DEF Att!Next, Att!Tick, Att!Click, Att!Buy, Att!Cancel, Att!Work, Att!BeginRun, Att!FindLetter,
           Att!StoreOrder, at
  <2>3. QED
    BY <2>1, <2>2, BoundsAssumption
<1>5. /\ order' \in [Orders -> OrderRows] /\ letter' \in [Letters -> LetterRows] /\ attRun' \in [Runners -> AttRows]
      /\ clicks' \in [Letters -> SUBSET Nat]
  BY DEF AttInv, AttTypes
<1>6. /\ order' \in [Orders -> [date : 0 .. Horizon, live : BOOLEAN]]
      /\ letter' \in [Letters -> [clicked : 0 .. Horizon, order : Orders \union {None}]]
      /\ clicks' \in [Letters -> SUBSET (1 .. Horizon)]
  BY <1>3, <1>4, <1>5 DEF OrderRows, LetterRows
<1>7. QED
  BY <1>1, <1>2, <1>5, <1>6 DEF Att!TypeOK, AttRows

\* What a customer meets is of its types, and within the bounds.
CustomerTypes == Wheel!TypeOK /\ Sub!TypeOK /\ Att!TypeOK

LEMMA CustomerTypesKept == Spec => []CustomerTypes
<1>1. Init => WheelInv /\ MarkStays /\ AttInv /\ CustomerTypes
  <2> SUFFICES ASSUME Init PROVE WheelInv /\ MarkStays /\ AttInv /\ CustomerTypes
    OBVIOUS
  <2>0. MaxRequests \in Nat /\ MaxLetters \in Nat
    BY BoundsAssumption
  <2>a. WheelInv /\ MarkStays
    BY WheelBegins, MarkBegins DEF Init
  <2>b. slot = None /\ requests = 0 /\ cooling = {} /\ after = 0
    BY DEF Init, Wheel!Init, Sub!Init
  <2>c. spun \in BOOLEAN /\ asked \in BOOLEAN /\ fed \in BOOLEAN
    BY Zenon DEF Init, Wheel!Init, Sub!Init
  <2>1. Wheel!TypeOK
    BY <2>0, <2>a, <2>b, <2>c DEF Wheel!TypeOK, WheelInv, WheelTypes
  <2>2. Sub!TypeOK
    BY <2>0, <2>a, <2>b, <2>c DEF Sub!TypeOK, MarkStays, MailboxRows
  <2>3. Att!TypeOK
    BY BoundsAssumption DEF Init, Att!Init, Att!TypeOK, Att!Idle
  <2>4. QED
    BY <2>1, <2>2, <2>3, WheelBegins, MarkBegins, AttBegins DEF Init, CustomerTypes
<1>2. WheelInv /\ MarkStays /\ AttInv /\ CustomerTypes /\ [Next]_vars =>
        (WheelInv /\ MarkStays /\ AttInv /\ CustomerTypes)'
  <2> SUFFICES ASSUME WheelInv, MarkStays, AttInv, CustomerTypes, [Next]_vars
               PROVE  (WheelInv /\ MarkStays /\ AttInv /\ CustomerTypes)'
    OBVIOUS
  <2>1. WheelInv'
    BY WheelAlone, WheelKept, ServicesAssumption
  <2>2. MarkStays'
    BY MailboxAlone, MarkKept
  <2>3. AttInv'
    BY AttributionAlone, AttKept
  <2>4. CustomerTypes'
    BY <2>1, <2>2, <2>3, WheelAlone, MailboxAlone, AttributionAlone, WheelTyped, MailboxTyped, AttributionTyped
    DEF CustomerTypes
  <2>5. QED
    BY <2>1, <2>2, <2>3, <2>4
<1>3. QED
  BY <1>1, <1>2, PTL DEF Spec

-----------------------------------------------------------------------------
(* The batches of Best Offer.                                              *)

\* Rows of run; of the pointers it has read and its pick nothing is known.
RunRows(P, K) ==
    [pc : {"idle", "loop", "insert", "send", "close"}, todo : SUBSET Users, pointer : P,
     user : Users \union {None}, sent : Nat, letter : Nat, pick : K]
SubRows(P, K) == [mailable : BOOLEAN, pointer : P, timer : Nat, ripe : BOOLEAN, cooling : K,
                  bought : {"none", "fresh", "ripe"}]

\* Batches that may still write to u; a batch that has written and not closed.
May(u) == {r \in Runners : u \in run[r].todo \/ (run[r].user = u /\ run[r].pc \in {"insert", "send"})}
Closing(r, u) == run[r].pc = "close" /\ run[r].user = u

-----------------------------------------------------------------------------
\* Types, as far as the argument needs them: of products and the picture of a
\* letter it knows nothing.
RunTypes ==
    /\ \E P, K : run \in [Runners -> RunRows(P, K)]
    /\ \A r \in Runners :
        /\ run[r].pc = "idle" => run[r].todo = {}
        /\ run[r].pc \in {"insert", "send", "close"} => run[r].user \in Users /\ run[r].user \notin run[r].todo
SubTypes ==
    /\ \E P, K : subs \in [Users -> SubRows(P, K)]
    /\ \A u \in Users : subs[u].timer \in 0 .. Len(log)
LogTypes == (\E S : log \in Seq(S)) /\ Len(log) \in Nat
CountTypes ==
    /\ period \in [Users -> SUBSET (1 .. Len(log))]
    /\ faults \in Nat /\ opened \in [Users -> Int] /\ late \in [Users -> Nat] /\ handed \in [Runners -> Nat]

\* A letter on its way belongs to one batch, and no timer names it yet.
LetterIsFresh ==
    \A r \in Runners : run[r].pc \in {"send", "close"} =>
        /\ run[r].letter \in 1 .. Len(log)
        /\ \A q \in Runners : q # r /\ run[q].pc \in {"send", "close"} => run[q].letter # run[r].letter
        /\ \A u \in Users : subs[u].timer # run[r].letter
OfferTypes == RunTypes /\ SubTypes /\ LogTypes /\ CountTypes /\ LetterIsFresh

\* Letters of the interval and batches that may add one: one, and one more a
\* fault.  If none is left over, the customer is no candidate, or will be none
\* once the batch that has written closes: the timer names a letter of this
\* interval.  A batch whose letter belongs to an earlier interval has left room.
Weight(u) == Cardinality(period[u]) + Cardinality(May(u))
Capped(u) ==
    /\ Weight(u) <= faults + 1
    /\ Weight(u) = faults + 1 =>
          \/ subs[u].timer \in period[u]
          \/ May(u) # {}
          \/ \E r \in Runners : Closing(r, u) /\ run[r].letter \in period[u]
    /\ subs[u].timer \in period[u] => ~subs[u].ripe /\ subs[u].bought # "ripe"
    /\ \A r \in Runners : Closing(r, u) /\ run[r].letter \notin period[u] => Weight(u) <= faults
AllCapped == \A u \in Users : Capped(u)

\* A batch that had selected the customer before he unsubscribed has written to
\* him, may still do so, or has passed him over.
LateCounted(u) ==
    /\ subs[u].mailable => late[u] = 0 /\ opened[u] = -1
    /\ opened[u] >= 0 => late[u] + Cardinality(May(u)) <= opened[u]
AllCounted == \A u \in Users : LateCounted(u)

\* A batch knows of what it handed over, but for faults and the letter it is
\* about to close.
DayCounted(r) ==
    /\ handed[r] <= MaxPerDay + faults
    /\ run[r].pc # "idle" => handed[r] <= run[r].sent + faults + IF run[r].pc = "close" THEN 1 ELSE 0
    /\ run[r].sent <= MaxPerDay
    /\ run[r].pc \in {"insert", "send", "close"} => run[r].sent < MaxPerDay
DaysCounted == MaxPerDay # 0 => \A r \in Runners : DayCounted(r)

-----------------------------------------------------------------------------
LEMMA OfferBegins == Offer!Init => OfferTypes /\ AllCapped /\ AllCounted /\ DaysCounted
<1> SUFFICES ASSUME Offer!Init PROVE OfferTypes /\ AllCapped /\ AllCounted /\ DaysCounted
  OBVIOUS
<1>0. Offer!NoBatch \in RunRows({Offer!NoBatch.pointer}, {Offer!NoBatch.pick})
  BY DEF Offer!NoBatch, RunRows
<1>1. \A r \in Runners : run[r].pc = "idle" /\ run[r].todo = {} /\ run[r].sent = 0 /\ run[r] = Offer!NoBatch
  BY DEF Offer!Init, Offer!NoBatch
<1>2. PICK mailable \in [Users -> BOOLEAN] :
        subs = [u \in Users |-> [mailable |-> mailable[u], pointer |-> None, timer |-> 0, ripe |-> FALSE,
                                 cooling |-> 0, bought |-> "none"]]
  BY DEF Offer!Init
<1>3. log = <<>> /\ Len(log) = 0 /\ log \in Seq({})
  BY DEF Offer!Init
<1>4. RunTypes /\ LetterIsFresh
  BY <1>0, <1>1 DEF Offer!Init, RunTypes, LetterIsFresh
<1>5. SubTypes
  <2>1. \A u \in Users : [mailable |-> mailable[u], pointer |-> None, timer |-> 0, ripe |-> FALSE,
                          cooling |-> 0, bought |-> "none"] \in SubRows({None}, {0})
    BY DEF SubRows
  <2>2. subs \in [Users -> SubRows({None}, {0})]
    BY <1>2, <2>1
  <2>3. \A u \in Users : subs[u].timer = 0
    BY <1>2
  <2>4. QED
    BY <1>3, <2>2, <2>3 DEF SubTypes
<1>12. LogTypes
  <2>1. Len(log) \in Nat
    BY <1>3
  <2>2. \E S : log \in Seq(S)
    BY <1>3
  <2>3. QED
    BY <2>1, <2>2 DEF LogTypes
<1>6. CountTypes
  BY <1>3 DEF Offer!Init, CountTypes
<1>7. ASSUME NEW u \in Users
      PROVE  May(u) = {} /\ period[u] = {} /\ Cardinality(May(u)) = 0 /\ Cardinality(period[u]) = 0
  BY <1>1, FS_EmptySet DEF May, Offer!Init
<1>8. AllCapped
  BY <1>1, <1>7 DEF Offer!Init, AllCapped, Capped, Weight, Closing
<1>9. AllCounted
  BY <1>7 DEF Offer!Init, AllCounted, LateCounted
<1>10. DaysCounted
  BY <1>1, ServicesAssumption DEF Offer!Init, DaysCounted, DayCounted
<1>11. QED
  BY <1>4, <1>5, <1>6, <1>8, <1>9, <1>10, <1>12 DEF OfferTypes

-----------------------------------------------------------------------------
\* One batch moves.
Moved(r, pc, todo, user, sent, letters) ==
    /\ \E P, K : run' \in [Runners -> RunRows(P, K)]
    /\ run'[r].pc = pc /\ run'[r].todo = todo /\ run'[r].user = user /\ run'[r].sent = sent
    /\ run'[r].letter = letters
    /\ \A q \in Runners : q # r => run'[q] = run[q]

LEMMA MovedTo ==
    ASSUME RunTypes, NEW r \in Runners, NEW x, \E P, K : x \in RunRows(P, K), run' = [run EXCEPT ![r] = x]
    PROVE  Moved(r, x.pc, x.todo, x.user, x.sent, x.letter)
<1>0. PICK P, K : x \in RunRows(P, K)
  OBVIOUS
<1>1. PICK Q, L : run \in [Runners -> RunRows(Q, L)]
  BY DEF RunTypes
<1>2. RunRows(P, K) \subseteq RunRows(P \union Q, K \union L) /\ RunRows(Q, L) \subseteq RunRows(P \union Q, K \union L)
  BY DEF RunRows
<1>3. run' \in [Runners -> RunRows(P \union Q, K \union L)] /\ run'[r] = x /\ \A q \in Runners : q # r => run'[q] = run[q]
  BY <1>0, <1>1, <1>2
<1>4. QED
  BY <1>3 DEF Moved

LEMMA NoBatchRow ==
    /\ \E P, K : Offer!NoBatch \in RunRows(P, K)
    /\ Offer!NoBatch.pc = "idle" /\ Offer!NoBatch.todo = {} /\ Offer!NoBatch.user = None
    /\ Offer!NoBatch.sent = 0 /\ Offer!NoBatch.letter = 0
<1>1. Offer!NoBatch \in RunRows({Offer!NoBatch.pointer}, {Offer!NoBatch.pick})
  BY DEF Offer!NoBatch, RunRows
<1>2. QED
  BY <1>1 DEF Offer!NoBatch

LEMMA BeginMoves ==
    ASSUME RunTypes, NEW r \in Runners, Offer!BeginBatch(r)
    PROVE  Moved(r, "loop", {u \in Users : Offer!Candidate(u)}, None, 0, 0)
<1> DEFINE S == {u \in Users : Offer!Candidate(u)}
           p == [u \in {x \in Users : Offer!Candidate(x)} |-> subs[u].pointer]
           x == [Offer!NoBatch EXCEPT !.pc = "loop", !.todo = S, !.pointer = p]
<1>1. run' = [run EXCEPT ![r] = x]
  BY DEF Offer!BeginBatch
<1>2. S \in SUBSET Users
  OBVIOUS
<1> HIDE DEF S, p
<1>3. PICK P, K : Offer!NoBatch \in RunRows(P, K)
  BY NoBatchRow
<1>4. /\ x \in RunRows({p}, K)
      /\ x.pc = "loop" /\ x.todo = S /\ x.user = None /\ x.sent = 0 /\ x.letter = 0
  BY <1>2, <1>3, NoBatchRow DEF RunRows
<1> HIDE DEF x
<1>5. Moved(r, "loop", S, None, 0, 0)
  BY <1>1, <1>4, MovedTo
<1>6. QED
  BY <1>5 DEF S

LEMMA EndMoves ==
    ASSUME RunTypes, NEW r \in Runners, Offer!EndBatch(r) \/ Offer!BatchDies(r)
    PROVE  Moved(r, "idle", {}, None, 0, 0)
<1>1. run' = [run EXCEPT ![r] = Offer!NoBatch]
  BY DEF Offer!EndBatch, Offer!BatchDies
<1>2. Moved(r, Offer!NoBatch.pc, Offer!NoBatch.todo, Offer!NoBatch.user, Offer!NoBatch.sent, Offer!NoBatch.letter)
  BY <1>1, MovedTo, NoBatchRow
<1>3. QED
  BY <1>2, NoBatchRow

\* Whatever is chosen.
LEMMA ChooseMoves ==
    ASSUME RunTypes, NEW r \in Runners, Offer!Choose(r)
    PROVE  \E u \in run[r].todo, pc \in {"loop", "insert"} :
              Moved(r, pc, run[r].todo \ {u}, u, run[r].sent, run[r].letter)
<1> DEFINE Row(u, pick, pointer, pc) ==
              [run[r] EXCEPT !.todo = run[r].todo \ {u}, !.user = u, !.pick = pick, !.pointer = pointer, !.pc = pc]
           Pools == Offer!top5_map(Catalogue, ItemsLimit)
           Known(u) == Offer!Without(<<run[r].pointer[u], LastCategory[u]>>, {None})
           Start(u) == IF Known(u) # <<>> THEN Head(Known(u)) ELSE Head(Catalogue.order)
           Recent(u) == Offer!recent_sent_products(Offer!Newest(u), LastN)
           Picked(u) == Offer!send_one_pick(Catalogue, Start(u), Pools, Recent(u), ItemsLimit,
                                            Offer!send_offset(Offer!Newest(u)))
           Left(u) == [x \in run[r].todo \ {u} |-> run[r].pointer[x]]
           Then(u) == IF Picked(u).ids = <<>> THEN "loop" ELSE "insert"
<1>1. PICK u \in run[r].todo : run' = [run EXCEPT ![r] = Row(u, Picked(u), Left(u), Then(u))]
  BY Zenon DEF Offer!Choose
<1>8. Then(u) \in {"loop", "insert"}
  OBVIOUS
<1> DEFINE pick == Picked(u)
           pointer == Left(u)
           pc == Then(u)
           x == Row(u, pick, pointer, pc)
<1>9. run' = [run EXCEPT ![r] = x] /\ pc \in {"loop", "insert"}
  BY <1>1, <1>8
<1> HIDE DEF pick, pointer, pc
<1>2. PICK P, K : run[r] \in RunRows(P, K)
  BY DEF RunTypes
<1>3. u \in Users
  BY <1>2 DEF RunRows
<1>4. /\ x \in RunRows({pointer}, {pick}) /\ x.pc = pc /\ x.todo = run[r].todo \ {u} /\ x.user = u
      /\ x.sent = run[r].sent /\ x.letter = run[r].letter
  BY <1>2, <1>3, <1>9 DEF RunRows
<1> HIDE DEF x
<1>6. Moved(r, pc, run[r].todo \ {u}, u, run[r].sent, run[r].letter)
  BY <1>4, <1>9, MovedTo
<1>7. QED
  BY <1>6, <1>9

LEMMA InsertMoves ==
    ASSUME RunTypes, LogTypes, NEW r \in Runners, Offer!InsertLog(r)
    PROVE  Moved(r, "send", run[r].todo, run[r].user, run[r].sent, Len(log) + 1)
<1> DEFINE x == [run[r] EXCEPT !.pc = "send", !.letter = Len(log) + 1]
<1>1. PICK P, K : run \in [Runners -> RunRows(P, K)]
  BY DEF RunTypes
<1>2. run' = [run EXCEPT ![r] = x]
  BY <1>1 DEF Offer!InsertLog
<1>3. Len(log) + 1 \in Nat /\ run[r] \in RunRows(P, K)
  BY <1>1 DEF LogTypes
<1>4. /\ x \in RunRows(P, K) /\ x.pc = "send" /\ x.todo = run[r].todo /\ x.user = run[r].user
      /\ x.sent = run[r].sent /\ x.letter = Len(log) + 1
  BY <1>3 DEF RunRows
<1> HIDE DEF x
<1>5. QED
  BY <1>2, <1>4, MovedTo

LEMMA StageMoves ==
    ASSUME RunTypes, NEW r \in Runners, NEW stage \in {"loop", "close"}, run' = [run EXCEPT ![r].pc = stage]
    PROVE  Moved(r, stage, run[r].todo, run[r].user, run[r].sent, run[r].letter)
<1> DEFINE x == [run[r] EXCEPT !.pc = stage]
<1>1. PICK P, K : run[r] \in RunRows(P, K)
  BY DEF RunTypes
<1>2. run' = [run EXCEPT ![r] = x]
  OBVIOUS
<1>3. /\ x \in RunRows(P, K) /\ x.pc = stage /\ x.todo = run[r].todo /\ x.user = run[r].user
      /\ x.sent = run[r].sent /\ x.letter = run[r].letter
  BY <1>1 DEF RunRows
<1> HIDE DEF x
<1>4. QED
  BY <1>2, <1>3, MovedTo

LEMMA CloseMoves ==
    ASSUME RunTypes, NEW r \in Runners, Offer!Close(r)
    PROVE  Moved(r, "loop", run[r].todo, run[r].user, run[r].sent + 1, run[r].letter)
<1> DEFINE n == run[r].sent + 1
           x == [run[r] EXCEPT !.pc = "loop", !.sent = n]
<1>1. PICK P, K : run \in [Runners -> RunRows(P, K)]
  BY DEF RunTypes
<1>2. run' = [run EXCEPT ![r] = x]
  BY <1>1 DEF Offer!Close
<1>3. run[r] \in RunRows(P, K)
  BY <1>1
<1>6. n \in Nat
  BY <1>3 DEF RunRows
<1> HIDE DEF n
<1>4. /\ x \in RunRows(P, K) /\ x.pc = "loop" /\ x.todo = run[r].todo /\ x.user = run[r].user
      /\ x.sent = n /\ x.letter = run[r].letter
  BY <1>3, <1>6 DEF RunRows
<1> HIDE DEF x
<1>5. Moved(r, "loop", run[r].todo, run[r].user, n, run[r].letter)
  BY <1>2, <1>4, MovedTo
<1>7. QED
  BY <1>5 DEF n

-----------------------------------------------------------------------------
\* One customer's row changes.
OnlyFor(u) ==
    /\ \E P, K : subs' \in [Users -> SubRows(P, K)]
    /\ \A v \in Users : v # u => subs'[v] = subs[v]

LEMMA RowTo ==
    ASSUME SubTypes, NEW u \in Users, NEW y, \E P, K : y \in SubRows(P, K), subs' = [subs EXCEPT ![u] = y]
    PROVE  OnlyFor(u) /\ subs'[u] = y
<1>0. PICK P, K : y \in SubRows(P, K)
  OBVIOUS
<1>1. PICK Q, L : subs \in [Users -> SubRows(Q, L)]
  BY DEF SubTypes
<1>2. SubRows(P, K) \subseteq SubRows(P \union Q, K \union L) /\ SubRows(Q, L) \subseteq SubRows(P \union Q, K \union L)
  BY DEF SubRows
<1>3. subs' \in [Users -> SubRows(P \union Q, K \union L)] /\ subs'[u] = y /\ \A v \in Users : v # u => subs'[v] = subs[v]
  BY <1>0, <1>1, <1>2
<1>4. QED
  BY <1>3 DEF OnlyFor

LEMMA CloseTimes ==
    ASSUME RunTypes, SubTypes, NEW r \in Runners, Offer!Close(r)
    PROVE  LET u == run[r].user IN
           /\ u \in Users /\ OnlyFor(u) /\ subs'[u].timer = run[r].letter
           /\ subs'[u].ripe = FALSE /\ subs'[u].bought = "none" /\ (subs'[u].mailable <=> subs[u].mailable)
<1> DEFINE u == run[r].user
           n == run[r].letter
           p == run[r].pick.pointer
           y == [subs[u] EXCEPT !.timer = n, !.cooling = n, !.ripe = FALSE, !.bought = "none", !.pointer = p]
<1>1. u \in Users
  BY DEF RunTypes, Offer!Close
<1>2. PICK P, K : subs \in [Users -> SubRows(P, K)]
  BY DEF SubTypes
<1>3. PICK Q, L : run[r] \in RunRows(Q, L)
  BY DEF RunTypes
<1>4. subs' = [subs EXCEPT ![u] = y]
  BY <1>1, <1>2, Zenon DEF Offer!Close
<1>5. n \in Nat /\ subs[u] \in SubRows(P, K)
  BY <1>1, <1>2, <1>3 DEF RunRows
<1> HIDE DEF n, p
<1>6. /\ y \in SubRows({p}, {n}) /\ y.timer = n /\ y.ripe = FALSE /\ y.bought = "none"
      /\ (y.mailable <=> subs[u].mailable)
  BY <1>5 DEF SubRows
<1> HIDE DEF y
<1>7. OnlyFor(u) /\ subs'[u] = y
  BY <1>1, <1>4, <1>6, RowTo
<1>8. QED
  BY <1>1, <1>6, <1>7 DEF n

\* The callback takes the timer back, if at all.
LEMMA FailedTimes ==
    ASSUME SubTypes, NEW n, Offer!FailedCallback(n)
    PROVE  /\ \E P, K : subs' \in [Users -> SubRows(P, K)]
           /\ \A u \in Users : /\ subs'[u].timer = subs[u].timer \/ (subs[u].timer = n /\ subs'[u].timer = 0)
                               /\ subs'[u].ripe <=> subs[u].ripe
                               /\ subs'[u].bought = subs[u].bought
                               /\ subs'[u].mailable <=> subs[u].mailable
<1> DEFINE w == log[n].user
           c == IF subs[w].cooling = n THEN 0 ELSE subs[w].cooling
           y == [subs[w] EXCEPT !.timer = 0, !.cooling = c]
<1>1. PICK P, K : subs \in [Users -> SubRows(P, K)]
  BY DEF SubTypes
<1>2. \/ subs' = subs
      \/ subs[w].timer = n /\ subs' = [subs EXCEPT ![w] = y]
  BY Zenon DEF Offer!FailedCallback
<1> HIDE DEF w, c
<1>3. CASE subs' = subs \/ w \notin Users
  <2>1. subs' = subs
    BY <1>1, <1>2, <1>3
  <2>2. QED
    BY <1>1, <2>1
<1>4. CASE subs[w].timer = n /\ subs' = [subs EXCEPT ![w] = y] /\ w \in Users
  <2>1. subs[w] \in SubRows(P, K)
    BY <1>1, <1>4
  <2>2. /\ y \in SubRows(P, {c}) /\ y.timer = 0 /\ (y.ripe <=> subs[w].ripe) /\ y.bought = subs[w].bought
        /\ (y.mailable <=> subs[w].mailable)
    BY <2>1 DEF SubRows
  <2> HIDE DEF y
  <2>3. OnlyFor(w) /\ subs'[w] = y
    BY <1>4, <2>2, RowTo
  <2>4. QED
    BY <1>4, <2>2, <2>3 DEF OnlyFor
<1>5. QED
  BY <1>2, <1>3, <1>4

\* Time, purchases, other letters and unsubscriptions.
Others(u) == \/ Offer!Unsubscribe(u) \/ Offer!IntervalEnds(u) \/ Offer!Purchase(u) \/ Offer!PurchaseRipens(u)
             \/ Offer!OtherLetter(u) \/ Offer!DayPasses(u)

LEMMA OtherTimes ==
    ASSUME SubTypes, NEW u \in Users, Others(u)
    PROVE  /\ OnlyFor(u) /\ subs'[u].timer = subs[u].timer /\ (subs'[u].mailable => subs[u].mailable)
           /\ \/ period' = [period EXCEPT ![u] = {}]
              \/ /\ period' = period /\ (subs'[u].ripe => subs[u].ripe)
                 /\ subs'[u].bought = "ripe" => subs[u].bought = "ripe"
           /\ UNCHANGED <<log, run, late, handed, faults>>
<1>1. PICK P, K : subs \in [Users -> SubRows(P, K)]
  BY DEF SubTypes
<1> DEFINE s == subs[u]
           Good(y, same) == /\ \E Q, L : y \in SubRows(Q, L)
                            /\ y.timer = s.timer /\ (y.mailable => s.mailable)
                            /\ same => (y.ripe => s.ripe) /\ (y.bought = "ripe" => s.bought = "ripe")
<1>2. s \in SubRows(P, K)
  BY <1>1
<1>3. ASSUME NEW y, NEW same \in BOOLEAN, Good(y, same), subs' = [subs EXCEPT ![u] = y]
      PROVE  OnlyFor(u) /\ Good(subs'[u], same)
  BY <1>3, RowTo
<1>4. CASE Offer!Unsubscribe(u)
  <2> DEFINE y == [s EXCEPT !.mailable = FALSE]
  <2>1. /\ subs' = [subs EXCEPT ![u] = y] /\ period' = period
        /\ UNCHANGED <<log, run, late, handed, faults>>
    BY <1>1, <1>4 DEF Offer!Unsubscribe
  <2>2. y \in SubRows(P, K)
    BY <1>2 DEF SubRows
  <2>3. Good(y, TRUE)
    BY <1>2, <2>2 DEF SubRows
  <2> HIDE DEF y
  <2>4. OnlyFor(u) /\ Good(subs'[u], TRUE)
    BY <1>3, <2>1, <2>3
  <2>5. QED
    BY <2>1, <2>4
<1>5. CASE Offer!IntervalEnds(u)
  <2> DEFINE y == [s EXCEPT !.ripe = TRUE, !.cooling = 0]
  <2>1. /\ subs' = [subs EXCEPT ![u] = y] /\ period' = [period EXCEPT ![u] = {}]
        /\ UNCHANGED <<log, run, late, handed, faults>>
    BY <1>1, <1>5 DEF Offer!IntervalEnds
  <2>2. y \in SubRows(P, {0})
    BY <1>2 DEF SubRows
  <2>3. Good(y, FALSE)
    BY <1>2, <2>2 DEF SubRows
  <2> HIDE DEF y
  <2>4. OnlyFor(u) /\ Good(subs'[u], FALSE)
    BY <1>3, <2>1, <2>3
  <2>5. QED
    BY <2>1, <2>4
<1>6. CASE Offer!Purchase(u)
  <2> DEFINE y == [s EXCEPT !.bought = "fresh"]
  <2>1. /\ subs' = [subs EXCEPT ![u] = y] /\ period' = period
        /\ UNCHANGED <<log, run, late, handed, faults>>
    BY <1>1, <1>6 DEF Offer!Purchase
  <2>2. y \in SubRows(P, K)
    BY <1>2 DEF SubRows
  <2>3. Good(y, TRUE)
    BY <1>2, <2>2 DEF SubRows
  <2> HIDE DEF y
  <2>4. OnlyFor(u) /\ Good(subs'[u], TRUE)
    BY <1>3, <2>1, <2>3
  <2>5. QED
    BY <2>1, <2>4
<1>7. CASE Offer!PurchaseRipens(u)
  <2> DEFINE y == [s EXCEPT !.bought = "ripe", !.cooling = 0]
  <2>1. /\ subs' = [subs EXCEPT ![u] = y] /\ period' = [period EXCEPT ![u] = {}]
        /\ UNCHANGED <<log, run, late, handed, faults>>
    BY <1>1, <1>7 DEF Offer!PurchaseRipens
  <2>2. y \in SubRows(P, {0})
    BY <1>2 DEF SubRows
  <2>3. Good(y, FALSE)
    BY <1>2, <2>2 DEF SubRows
  <2> HIDE DEF y
  <2>4. OnlyFor(u) /\ Good(subs'[u], FALSE)
    BY <1>3, <2>1, <2>3
  <2>5. QED
    BY <2>1, <2>4
<1>8. CASE Offer!OtherLetter(u)
  <2> DEFINE k == Offer!Other
  <2> DEFINE y == [s EXCEPT !.cooling = k]
  <2>1. /\ subs' = [subs EXCEPT ![u] = y] /\ period' = period
        /\ UNCHANGED <<log, run, late, handed, faults>>
    BY <1>1, <1>8 DEF Offer!OtherLetter
  <2> HIDE DEF k
  <2>2. y \in SubRows(P, {k})
    BY <1>2 DEF SubRows
  <2>3. Good(y, TRUE)
    BY <1>2, <2>2 DEF SubRows
  <2> HIDE DEF y
  <2>4. OnlyFor(u) /\ Good(subs'[u], TRUE)
    BY <1>3, <2>1, <2>3
  <2>5. QED
    BY <2>1, <2>4
<1>9. CASE Offer!DayPasses(u)
  <2> DEFINE y == [s EXCEPT !.cooling = 0]
  <2>1. /\ subs' = [subs EXCEPT ![u] = y] /\ period' = period
        /\ UNCHANGED <<log, run, late, handed, faults>>
    BY <1>1, <1>9 DEF Offer!DayPasses
  <2>2. y \in SubRows(P, {0})
    BY <1>2 DEF SubRows
  <2>3. Good(y, TRUE)
    BY <1>2, <2>2 DEF SubRows
  <2> HIDE DEF y
  <2>4. OnlyFor(u) /\ Good(subs'[u], TRUE)
    BY <1>3, <2>1, <2>3
  <2>5. QED
    BY <2>1, <2>4
<1>10. QED
  BY <1>4, <1>5, <1>6, <1>7, <1>8, <1>9 DEF Others

-----------------------------------------------------------------------------
\* The log grows by a row, or a row of it changes.
LEMMA LogChanged ==
    ASSUME LogTypes, NEW k, NEW x, log' = [log EXCEPT ![k] = x]
    PROVE  LogTypes' /\ Len(log') = Len(log)
<1>1. PICK S : log \in Seq(S)
  BY DEF LogTypes
<1>2. Len(log) \in Nat /\ log \in [1 .. Len(log) -> S] /\ DOMAIN log = 1 .. Len(log)
  BY <1>1
<1>3. log' \in [1 .. Len(log) -> S \union {x}]
  BY <1>2
<1>4. log' \in Seq(S \union {x}) /\ Len(log') = Len(log)
  BY <1>2, <1>3, SeqDef, LenProperties
<1>5. QED
  BY <1>2, <1>4 DEF LogTypes

LEMMA LogGrown ==
    ASSUME LogTypes, NEW x, log' = Append(log, x)
    PROVE  LogTypes' /\ Len(log') = Len(log) + 1
<1>1. PICK S : log \in Seq(S)
  BY DEF LogTypes
<1>2. log \in Seq(S \union {x}) /\ x \in S \union {x}
  BY <1>1
<1>3. log' \in Seq(S \union {x}) /\ Len(log') = Len(log) + 1
  BY <1>2, AppendProperties
<1>4. QED
  BY <1>3 DEF LogTypes

\* What each step of a batch does to the log, the timers and the counters.
HandOver(r) ==
    LET u == run[r].user
        n == run[r].letter
    IN  /\ period' = [period EXCEPT ![u] = period[u] \union {n}]
        /\ handed' = [handed EXCEPT ![r] = handed[r] + 1]
        /\ late' = [late EXCEPT ![u] = IF subs[u].mailable THEN late[u] ELSE late[u] + 1]

LEMMA InsertGrows ==
    ASSUME LogTypes, NEW r, Offer!InsertLog(r)
    PROVE  LogTypes' /\ Len(log') = Len(log) + 1
<1>1. \E x : log' = Append(log, x)
  BY Zenon DEF Offer!InsertLog
<1>2. QED
  BY <1>1, LogGrown

LEMMA FailedKeeps ==
    ASSUME LogTypes, NEW r, Offer!MailFailed(r)
    PROVE  LogTypes' /\ Len(log') = Len(log)
<1>1. \E k, x : log' = [log EXCEPT ![k] = x]
  BY Zenon DEF Offer!MailFailed
<1>2. QED
  BY <1>1, LogChanged

LEMMA CloseKeeps ==
    ASSUME LogTypes, LetterIsFresh, NEW r \in Runners, Offer!Close(r)
    PROVE  LogTypes' /\ Len(log') = Len(log)
<1> DEFINE n == run[r].letter
           x == [log[n] EXCEPT !.status = "sent", !.closed = TRUE]
<1>1. PICK S : log \in Seq(S)
  BY DEF LogTypes
<1>2. log \in [1 .. Len(log) -> S] /\ n \in 1 .. Len(log)
  <2>1. run[r].pc = "close"
    BY Zenon DEF Offer!Close
  <2>2. n \in 1 .. Len(log)
    BY <2>1, Zenon DEF LetterIsFresh
  <2>3. log \in [1 .. Len(log) -> S]
    <3> HIDE DEF n, x
    <3>1. QED
      BY <1>1
  <2>4. QED
    BY <2>2, <2>3
<1>3. log' = [log EXCEPT ![n] = x]
  BY <1>2 DEF Offer!Close
<1>4. QED
  BY <1>3, LogChanged

LEMMA CallbackKeeps ==
    ASSUME LogTypes, NEW n \in DOMAIN log, Offer!FailedCallback(n) \/ \E e : Offer!EventCallback(n, e)
    PROVE  LogTypes' /\ Len(log') = Len(log)
<1>1. PICK S : log \in Seq(S)
  BY DEF LogTypes
<1>2. log \in [1 .. Len(log) -> S] /\ n \in 1 .. Len(log)
  BY <1>1
<1>3. CASE Offer!FailedCallback(n)
  <2>1. \E x : log' = [log EXCEPT ![n] = x]
    BY <1>3, Zenon DEF Offer!FailedCallback
  <2>2. QED
    BY <2>1, LogChanged
<1>4. CASE \E e : Offer!EventCallback(n, e)
  <2>1. PICK e : Offer!EventCallback(n, e)
    BY <1>4
  <2> DEFINE x == [log[n] EXCEPT !.status = e, !.closed = log[n].closed \/ e = "sent"]
  <2>2. log' = [log EXCEPT ![n] = x]
    BY <1>2, <2>1 DEF Offer!EventCallback
  <2>3. QED
    BY <2>2, LogChanged
<1>5. QED
  BY <1>3, <1>4

LEMMA Sends ==
    ASSUME NEW r, Offer!MailAccepted(r) \/ Offer!MailFailed(r)
    PROVE  /\ run[r].pc = "send" /\ UNCHANGED <<subs, opened>>
           /\ \/ UNCHANGED <<period, handed, late, faults>> /\ run' = [run EXCEPT ![r].pc = "loop"]
              \/ HandOver(r) /\ faults' = faults + 1 /\ run' = [run EXCEPT ![r].pc = "loop"]
              \/ HandOver(r) /\ faults' = faults /\ log' = log /\ run' = [run EXCEPT ![r].pc = "close"]
  BY Zenon DEF Offer!MailAccepted, Offer!MailFailed, Offer!Queued, Offer!Fault, HandOver

-----------------------------------------------------------------------------
LEMMA MovedTypes ==
    ASSUME RunTypes, NEW r \in Runners, NEW pc, NEW todo, NEW user, NEW sent, NEW number,
           Moved(r, pc, todo, user, sent, number),
           pc = "idle" => todo = {},
           pc \in {"insert", "send", "close"} => user \in Users /\ user \notin todo
    PROVE  RunTypes'
<1>1. \E P, K : run' \in [Runners -> RunRows(P, K)]
  BY DEF Moved
<1>2. ASSUME NEW q \in Runners
      PROVE  /\ run'[q].pc = "idle" => run'[q].todo = {}
             /\ run'[q].pc \in {"insert", "send", "close"} => run'[q].user \in Users /\ run'[q].user \notin run'[q].todo
  <2>1. CASE q = r
    BY <2>1 DEF Moved
  <2>2. CASE q # r
    BY <2>2 DEF Moved, RunTypes
  <2>3. QED
    BY <2>1, <2>2
<1>3. QED
  BY <1>1, <1>2 DEF RunTypes

\* A step that puts no letter on its way and no letter on its way in a timer.
LEMMA FreshKept ==
    ASSUME LetterIsFresh, Len(log) \in Nat, Len(log') \in Nat, Len(log) <= Len(log'),
           \A q \in Runners : run'[q].pc \in {"send", "close"} =>
               /\ run[q].pc \in {"send", "close"} /\ run'[q].letter = run[q].letter
               /\ \A u \in Users : subs'[u].timer # run[q].letter
    PROVE  LetterIsFresh'
<1>1. ASSUME NEW q \in Runners, run'[q].pc \in {"send", "close"}
      PROVE  /\ run'[q].letter \in 1 .. Len(log')
             /\ \A p \in Runners : p # q /\ run'[p].pc \in {"send", "close"} => run'[p].letter # run'[q].letter
             /\ \A u \in Users : subs'[u].timer # run'[q].letter
  <2>1. run'[q].letter = run[q].letter /\ run[q].letter \in 1 .. Len(log)
    BY <1>1 DEF LetterIsFresh
  <2>2. run'[q].letter \in 1 .. Len(log')
    BY <2>1
  <2>3. \A u \in Users : subs'[u].timer # run'[q].letter
    BY <1>1
  <2>4. ASSUME NEW p \in Runners, p # q, run'[p].pc \in {"send", "close"}
        PROVE  run'[p].letter # run'[q].letter
    BY <1>1, <2>4 DEF LetterIsFresh
  <2>5. QED
    BY <2>2, <2>3, <2>4
<1>2. QED
  BY <1>1 DEF LetterIsFresh

LEMMA FreshMoved ==
    ASSUME OfferTypes, NEW r \in Runners, NEW pc, NEW todo, NEW user, NEW sent,
           Moved(r, pc, todo, user, sent, run[r].letter) \/ (Moved(r, pc, todo, user, sent, 0) /\ pc \notin {"send", "close"}),
           pc \in {"send", "close"} => run[r].pc \in {"send", "close"},
           Len(log') = Len(log), subs' = subs
    PROVE  LetterIsFresh'
<1>1. ASSUME NEW q \in Runners, run'[q].pc \in {"send", "close"}
      PROVE  /\ run[q].pc \in {"send", "close"} /\ run'[q].letter = run[q].letter
             /\ \A u \in Users : subs'[u].timer # run[q].letter
  <2>1. run[q].pc \in {"send", "close"} /\ run'[q].letter = run[q].letter
    <3>1. CASE q = r
      BY <1>1, <3>1 DEF Moved
    <3>2. CASE q # r
      BY <1>1, <3>2 DEF Moved
    <3>3. QED
      BY <3>1, <3>2
  <2>2. \A u \in Users : subs'[u].timer # run[q].letter
    BY <2>1 DEF OfferTypes, LetterIsFresh
  <2>3. QED
    BY <2>1, <2>2
<1>2. LetterIsFresh /\ Len(log) \in Nat
  BY DEF OfferTypes, LogTypes
<1>3. QED
  BY <1>1, <1>2, FreshKept

LEMMA SubsKept ==
    ASSUME SubTypes, subs' = subs, Len(log) \in Nat, Len(log') \in Nat, Len(log) <= Len(log')
    PROVE  SubTypes'
<1>1. \E P, K : subs' \in [Users -> SubRows(P, K)]
  BY DEF SubTypes
<1>2. \A u \in Users : subs'[u].timer \in 0 .. Len(log')
  BY DEF SubTypes
<1>3. QED
  BY <1>1, <1>2 DEF SubTypes

LEMMA CountsKept ==
    ASSUME CountTypes, NEW r \in Runners, Len(log') = Len(log), UNCHANGED <<period, late, opened>>,
           faults' = faults \/ faults' = faults + 1,
           handed' = handed \/ handed' = [handed EXCEPT ![r] = 0]
    PROVE  CountTypes'
<1>1. period' \in [Users -> SUBSET (1 .. Len(log'))]
  BY DEF CountTypes
<1>2. faults' \in Nat /\ opened' \in [Users -> Int] /\ late' \in [Users -> Nat]
  BY DEF CountTypes
<1>3. handed' \in [Runners -> Nat]
  <2>1. handed \in [Runners -> Nat]
    BY DEF CountTypes
  <2>2. QED
    BY <2>1
<1>4. QED
  BY <1>1, <1>2, <1>3 DEF CountTypes

\* The steps of a batch that write to nobody and touch no timer.
LEMMA QuietTypes ==
    ASSUME OfferTypes, NEW r \in Runners, NEW pc, NEW todo, NEW user, NEW sent,
           Moved(r, pc, todo, user, sent, run[r].letter) \/ (Moved(r, pc, todo, user, sent, 0) /\ pc \notin {"send", "close"}),
           pc = "idle" => todo = {},
           pc \in {"insert", "send", "close"} => user \in Users /\ user \notin todo,
           pc \in {"send", "close"} => run[r].pc \in {"send", "close"},
           log' = log \/ (LogTypes' /\ Len(log') = Len(log)), UNCHANGED <<subs, period, late, opened>>,
           faults' = faults \/ faults' = faults + 1,
           handed' = handed \/ handed' = [handed EXCEPT ![r] = 0]
    PROVE  OfferTypes'
<1>1. LogTypes' /\ Len(log') = Len(log) /\ Len(log) \in Nat
  BY DEF OfferTypes, LogTypes
<1>2. RunTypes'
  BY MovedTypes DEF OfferTypes
<1>3. LetterIsFresh'
  BY <1>1, FreshMoved
<1>4. SubTypes'
  BY <1>1, SubsKept DEF OfferTypes
<1>5. CountTypes'
  BY <1>1, CountsKept DEF OfferTypes
<1>6. QED
  BY <1>1, <1>2, <1>3, <1>4, <1>5 DEF OfferTypes

LEMMA InsertTypes ==
    ASSUME OfferTypes, NEW r \in Runners, Offer!InsertLog(r)
    PROVE  OfferTypes'
<1>1. Moved(r, "send", run[r].todo, run[r].user, run[r].sent, Len(log) + 1)
  BY InsertMoves DEF OfferTypes
<1>2. LogTypes' /\ Len(log') = Len(log) + 1 /\ Len(log) \in Nat
  BY InsertGrows DEF OfferTypes, LogTypes
<1>3. run[r].pc = "insert" /\ UNCHANGED <<subs, period, opened, late, handed, faults>>
  BY DEF Offer!InsertLog
<1>4. RunTypes'
  BY <1>1, <1>3, MovedTypes DEF OfferTypes, RunTypes
<1>5. SubTypes'
  BY <1>2, <1>3, SubsKept DEF OfferTypes
<1>6. CountTypes'
  BY <1>2, <1>3 DEF OfferTypes, CountTypes
<1>7. LetterIsFresh'
  <2>1. ASSUME NEW q \in Runners, run'[q].pc \in {"send", "close"}
        PROVE  \/ q = r /\ run'[q].letter = Len(log) + 1
               \/ q # r /\ run'[q] = run[q] /\ run'[q].letter \in 1 .. Len(log)
    BY <1>1, <2>1 DEF Moved, OfferTypes, LetterIsFresh
  <2>2. \A q \in Runners : run'[q].pc \in {"send", "close"} => run'[q].letter \in 1 .. Len(log')
    BY <1>2, <2>1
  <2>3. ASSUME NEW q \in Runners, NEW p \in Runners, p # q,
               run'[q].pc \in {"send", "close"}, run'[p].pc \in {"send", "close"}
        PROVE  run'[p].letter # run'[q].letter
    BY <1>2, <2>1, <2>3 DEF OfferTypes, LetterIsFresh
  <2>4. ASSUME NEW q \in Runners, run'[q].pc \in {"send", "close"}, NEW u \in Users
        PROVE  subs'[u].timer # run'[q].letter
    <3>1. subs'[u].timer \in 0 .. Len(log)
      BY <1>3 DEF OfferTypes, SubTypes
    <3>2. QED
      BY <1>2, <1>3, <2>1, <2>4, <3>1 DEF OfferTypes, LetterIsFresh
  <2>5. QED
    BY <2>2, <2>3, <2>4 DEF LetterIsFresh
<1>8. QED
  BY <1>2, <1>4, <1>5, <1>6, <1>7 DEF OfferTypes

LEMMA SendTypes ==
    ASSUME OfferTypes, NEW r \in Runners, Offer!MailAccepted(r) \/ Offer!MailFailed(r)
    PROVE  OfferTypes'
<1>1. /\ run[r].pc = "send" /\ UNCHANGED <<subs, opened>>
      /\ \/ UNCHANGED <<period, handed, late, faults>> /\ run' = [run EXCEPT ![r].pc = "loop"]
         \/ HandOver(r) /\ faults' = faults + 1 /\ run' = [run EXCEPT ![r].pc = "loop"]
         \/ HandOver(r) /\ faults' = faults /\ log' = log /\ run' = [run EXCEPT ![r].pc = "close"]
  BY Sends
<1>2. LogTypes' /\ Len(log') = Len(log) /\ Len(log) \in Nat
  <2>1. CASE Offer!MailAccepted(r)
    BY <2>1 DEF Offer!MailAccepted, OfferTypes, LogTypes
  <2>2. CASE Offer!MailFailed(r)
    BY <2>2, FailedKeeps DEF OfferTypes, LogTypes
  <2>3. QED
    BY <2>1, <2>2
<1>3. PICK stage \in {"loop", "close"} : Moved(r, stage, run[r].todo, run[r].user, run[r].sent, run[r].letter)
  <2>1. \E stage \in {"loop", "close"} : run' = [run EXCEPT ![r].pc = stage]
    BY <1>1
  <2>2. QED
    BY <2>1, StageMoves DEF OfferTypes
<1>4. run[r].user \in Users /\ run[r].user \notin run[r].todo
  BY <1>1 DEF OfferTypes, RunTypes
<1>5. RunTypes'
  BY <1>3, <1>4, MovedTypes DEF OfferTypes
<1>6. SubTypes'
  BY <1>1, <1>2, SubsKept DEF OfferTypes
<1>7. LetterIsFresh'
  BY <1>1, <1>2, <1>3, FreshMoved
<1>8. CountTypes'
  <2> DEFINE u == run[r].user
             n == run[r].letter
             k == IF subs[u].mailable THEN late[u] ELSE late[u] + 1
  <2>1. n \in 1 .. Len(log) /\ u \in Users
    BY <1>1, <1>4 DEF OfferTypes, LetterIsFresh
  <2>2. CASE UNCHANGED <<period, handed, late, faults>>
    BY <1>1, <1>2, <2>2 DEF OfferTypes, CountTypes
  <2>3. CASE HandOver(r) /\ (faults' = faults \/ faults' = faults + 1)
    <3>1. /\ period' = [period EXCEPT ![u] = period[u] \union {n}]
          /\ handed' = [handed EXCEPT ![r] = handed[r] + 1]
          /\ late' = [late EXCEPT ![u] = k]
      BY <2>3 DEF HandOver
    <3>2. k \in Nat
      BY <2>1 DEF OfferTypes, CountTypes
    <3> HIDE DEF u, n, k
    <3>3. period' \in [Users -> SUBSET (1 .. Len(log'))]
      BY <1>2, <2>1, <3>1 DEF OfferTypes, CountTypes
    <3>7. late \in [Users -> Nat] /\ handed \in [Runners -> Nat] /\ handed[r] + 1 \in Nat
      BY DEF OfferTypes, CountTypes
    <3>4. late' \in [Users -> Nat] /\ handed' \in [Runners -> Nat]
      BY <3>1, <3>2, <3>7
    <3>5. faults' \in Nat /\ opened' \in [Users -> Int]
      BY <1>1, <2>3 DEF OfferTypes, CountTypes
    <3>6. QED
      BY <3>3, <3>4, <3>5 DEF CountTypes
  <2>4. QED
    BY <1>1, <2>2, <2>3
<1>9. QED
  BY <1>2, <1>5, <1>6, <1>7, <1>8 DEF OfferTypes

LEMMA CloseTypes ==
    ASSUME OfferTypes, NEW r \in Runners, Offer!Close(r)
    PROVE  OfferTypes'
<1> DEFINE u == run[r].user
           n == run[r].letter
<1>1. Moved(r, "loop", run[r].todo, run[r].user, run[r].sent + 1, run[r].letter)
  BY CloseMoves DEF OfferTypes
<1>2. LogTypes' /\ Len(log') = Len(log) /\ Len(log) \in Nat
  BY CloseKeeps DEF OfferTypes, LogTypes
<1>3. run[r].pc = "close" /\ UNCHANGED <<period, opened, late, handed, faults>>
  BY DEF Offer!Close
<1>4. u \in Users /\ OnlyFor(u) /\ subs'[u].timer = n
  BY CloseTimes DEF OfferTypes
<1>5. RunTypes'
  BY <1>1, MovedTypes DEF OfferTypes
<1>6. CountTypes'
  BY <1>2, <1>3 DEF OfferTypes, CountTypes
<1>7. SubTypes'
  <2>1. n \in 0 .. Len(log)
    BY <1>3 DEF OfferTypes, LetterIsFresh
  <2>2. \A v \in Users : subs'[v].timer \in 0 .. Len(log')
    BY <1>2, <1>4, <2>1 DEF OnlyFor, OfferTypes, SubTypes
  <2>3. QED
    BY <1>4, <2>2 DEF OnlyFor, SubTypes
<1>8. LetterIsFresh'
  <2>1. ASSUME NEW q \in Runners, run'[q].pc \in {"send", "close"}
        PROVE  /\ run[q].pc \in {"send", "close"} /\ run'[q].letter = run[q].letter
               /\ \A v \in Users : subs'[v].timer # run[q].letter
    <3>1. q # r /\ run'[q] = run[q]
      BY <1>1, <2>1 DEF Moved
    <3>2. run[q].letter # n
      BY <1>3, <2>1, <3>1 DEF OfferTypes, LetterIsFresh
    <3>3. \A v \in Users : subs'[v].timer # run[q].letter
      BY <1>4, <2>1, <3>1, <3>2 DEF OnlyFor, OfferTypes, LetterIsFresh
    <3>4. QED
      BY <2>1, <3>1, <3>3
  <2>2. QED
    BY <1>2, <2>1, FreshKept DEF OfferTypes
<1>9. QED
  BY <1>2, <1>5, <1>6, <1>7, <1>8 DEF OfferTypes

\* The steps of the customers, of the mail service and of time.
LEMMA IdleTypes ==
    ASSUME OfferTypes, run' = run, LogTypes', Len(log') = Len(log),
           \E P, K : subs' \in [Users -> SubRows(P, K)],
           \A u \in Users : subs'[u].timer \in {0, subs[u].timer}, period' \in [Users -> SUBSET (1 .. Len(log))],
           UNCHANGED <<late, handed, faults>>, opened' \in [Users -> Int]
    PROVE  OfferTypes'
<1>1. Len(log) \in Nat
  BY DEF OfferTypes, LogTypes
<1>2. RunTypes'
  BY DEF OfferTypes, RunTypes
<1>3. SubTypes'
  <2>1. \A u \in Users : subs'[u].timer \in 0 .. Len(log')
    BY <1>1 DEF OfferTypes, SubTypes
  <2>2. QED
    BY <2>1 DEF SubTypes
<1>4. LetterIsFresh'
  <2>1. ASSUME NEW q \in Runners, run'[q].pc \in {"send", "close"}
        PROVE  /\ run[q].pc \in {"send", "close"} /\ run'[q].letter = run[q].letter
               /\ \A v \in Users : subs'[v].timer # run[q].letter
    <3>1. run[q].letter \in 1 .. Len(log) /\ \A v \in Users : subs[v].timer # run[q].letter
      BY <2>1 DEF OfferTypes, LetterIsFresh
    <3>2. QED
      BY <1>1, <2>1, <3>1
  <2>2. QED
    BY <1>1, <2>1, FreshKept DEF OfferTypes
<1>5. CountTypes'
  BY DEF OfferTypes, CountTypes
<1>6. QED
  BY <1>2, <1>3, <1>4, <1>5 DEF OfferTypes

\* The batches that had selected a customer, counted.
LEMMA MayIsFinite ==
    ASSUME NEW u
    PROVE  IsFiniteSet(May(u)) /\ Cardinality(May(u)) \in Nat
<1>1. IsFiniteSet(Runners) /\ May(u) \subseteq Runners
  BY ServicesAssumption DEF May
<1>2. IsFiniteSet(May(u))
  BY <1>1, FS_Subset
<1>3. QED
  BY <1>2, FS_CardinalityType

\* BestOffer counts with the same operator as this module.
LEMMA SameCount == \A S : Offer!Cardinality(S) = Cardinality(S)
  BY Zenon DEF Offer!Cardinality, Cardinality

LEMMA OpenedCounts ==
    ASSUME CountTypes, SubTypes, NEW u \in Users, Others(u)
    PROVE  /\ opened' \in [Users -> Int]
           /\ \A v \in Users : \/ opened'[v] = opened[v]
                               \/ v = u /\ opened'[v] = Cardinality(May(v)) /\ subs[v].mailable /\ ~subs'[v].mailable
<1>1. CASE Offer!Unsubscribe(u)
  <2>1. /\ opened' = [opened EXCEPT ![u] = Cardinality(May(u))] /\ subs[u].mailable
        /\ subs' = [subs EXCEPT ![u].mailable = FALSE]
    BY <1>1, SameCount, Zenon DEF May, Offer!Unsubscribe
  <2>2. Cardinality(May(u)) \in Nat
    BY MayIsFinite
  <2>3. opened' \in [Users -> Int]
    BY <2>1, <2>2 DEF CountTypes
  <2>4. ASSUME NEW v \in Users
        PROVE  opened'[v] = opened[v] \/ (v = u /\ opened'[v] = Cardinality(May(v)))
    BY <2>1 DEF CountTypes
  <2>5. ~subs'[u].mailable
    <3>1. PICK P, K : subs \in [Users -> SubRows(P, K)]
      BY DEF SubTypes
    <3> DEFINE y == [subs[u] EXCEPT !.mailable = FALSE]
    <3>2. subs' = [subs EXCEPT ![u] = y]
      BY <2>1
    <3>3. y \in SubRows(P, K) /\ y.mailable = FALSE
      BY <3>1 DEF SubRows
    <3> HIDE DEF y
    <3>4. subs'[u] = y
      BY <3>2, <3>3, RowTo
    <3>5. QED
      BY <3>3, <3>4
  <2>6. QED
    BY <2>1, <2>3, <2>4, <2>5
<1>2. CASE ~Offer!Unsubscribe(u)
  <2>1. opened' = opened
    BY <1>2 DEF Others, Offer!IntervalEnds, Offer!Purchase, Offer!PurchaseRipens, Offer!OtherLetter, Offer!DayPasses
  <2>2. QED
    BY <2>1 DEF CountTypes
<1>3. QED
  BY <1>1, <1>2

LEMMA OfferTyped == OfferTypes /\ [Offer!Next]_bo => OfferTypes'
<1> SUFFICES ASSUME OfferTypes, [Offer!Next]_bo PROVE OfferTypes'
  OBVIOUS
<1>0. RunTypes /\ SubTypes /\ LogTypes /\ CountTypes /\ LetterIsFresh
  BY DEF OfferTypes
<1>1. ASSUME NEW r \in Runners, Offer!BeginBatch(r)
      PROVE  OfferTypes'
  <2>1. Moved(r, "loop", {u \in Users : Offer!Candidate(u)}, None, 0, 0)
    BY <1>0, <1>1, BeginMoves
  <2>2. /\ UNCHANGED <<subs, log, period, opened, late>> /\ handed' = [handed EXCEPT ![r] = 0]
        /\ faults' = faults \/ faults' = faults + 1
    BY <1>1 DEF Offer!BeginBatch, Offer!Fault
  <2>3. QED
    BY <2>1, <2>2, QuietTypes
<1>2. ASSUME NEW r \in Runners, Offer!EndBatch(r) \/ Offer!BatchDies(r)
      PROVE  OfferTypes'
  <2>1. Moved(r, "idle", {}, None, 0, 0)
    BY <1>0, <1>2, EndMoves
  <2>2. UNCHANGED <<subs, log, period, opened, late, handed>> /\ (faults' = faults \/ faults' = faults + 1)
    BY <1>2 DEF Offer!EndBatch, Offer!BatchDies, Offer!Fault
  <2>3. QED
    BY <2>1, <2>2, QuietTypes
<1>3. ASSUME NEW r \in Runners, Offer!Choose(r)
      PROVE  OfferTypes'
  <2>1. PICK u \in run[r].todo, pc \in {"loop", "insert"} :
          Moved(r, pc, run[r].todo \ {u}, u, run[r].sent, run[r].letter)
    BY <1>0, <1>3, ChooseMoves
  <2>2. u \in Users
    BY <1>0, <2>1 DEF RunTypes, RunRows
  <2>3. UNCHANGED <<subs, log, period, opened, late, handed, faults>>
    BY <1>3 DEF Offer!Choose
  <2>4. QED
    BY <2>1, <2>2, <2>3, QuietTypes
<1>4. ASSUME NEW r \in Runners, Offer!Raises(r)
      PROVE  OfferTypes'
  <2>1. run' = [run EXCEPT ![r].pc = "loop"] /\ UNCHANGED <<subs, log, period, opened, late, handed>>
        /\ faults' = faults + 1
    BY <1>4 DEF Offer!Raises, Offer!Fault
  <2>2. Moved(r, "loop", run[r].todo, run[r].user, run[r].sent, run[r].letter)
    BY <1>0, <2>1, StageMoves
  <2>3. QED
    BY <2>1, <2>2, QuietTypes
<1>5. ASSUME NEW n \in DOMAIN log, Offer!FailedCallback(n)
      PROVE  OfferTypes'
  <2>1. LogTypes' /\ Len(log') = Len(log)
    BY <1>0, <1>5, CallbackKeeps
  <2>2. /\ \E P, K : subs' \in [Users -> SubRows(P, K)]
        /\ \A u \in Users : subs'[u].timer \in {0, subs[u].timer}
    BY <1>0, <1>5, FailedTimes
  <2>3. UNCHANGED <<run, opened, late, handed, faults>> /\ period' = [u \in Users |-> period[u] \ {n}]
    BY <1>5 DEF Offer!FailedCallback
  <2>4. period' \in [Users -> SUBSET (1 .. Len(log))] /\ opened' \in [Users -> Int]
    BY <1>0, <2>3 DEF CountTypes
  <2>5. QED
    BY <2>1, <2>2, <2>3, <2>4, IdleTypes
<1>6. ASSUME NEW n \in DOMAIN log, NEW e, Offer!EventCallback(n, e)
      PROVE  OfferTypes'
  <2>1. LogTypes' /\ Len(log') = Len(log)
    BY <1>0, <1>6, CallbackKeeps
  <2>2. UNCHANGED <<subs, run, period, opened, late, handed, faults>>
    BY <1>6 DEF Offer!EventCallback
  <2>3. /\ \E P, K : subs' \in [Users -> SubRows(P, K)]
        /\ \A u \in Users : subs'[u].timer \in {0, subs[u].timer}
        /\ period' \in [Users -> SUBSET (1 .. Len(log))] /\ opened' \in [Users -> Int]
    BY <1>0, <2>2 DEF SubTypes, CountTypes
  <2>4. QED
    BY <2>1, <2>2, <2>3, IdleTypes
<1>7. ASSUME NEW u \in Users, Others(u)
      PROVE  OfferTypes'
  <2>1. OnlyFor(u) /\ subs'[u].timer = subs[u].timer /\ UNCHANGED <<log, run, late, handed, faults>>
        /\ (period' = [period EXCEPT ![u] = {}] \/ period' = period)
    BY <1>0, <1>7, OtherTimes
  <2>2. /\ \E P, K : subs' \in [Users -> SubRows(P, K)]
        /\ \A v \in Users : subs'[v].timer \in {0, subs[v].timer}
    BY <2>1 DEF OnlyFor
  <2>3. period' \in [Users -> SUBSET (1 .. Len(log))]
    BY <1>0, <2>1 DEF CountTypes
  <2>4. opened' \in [Users -> Int]
    BY <1>0, <1>7, OpenedCounts
  <2>5. LogTypes' /\ Len(log') = Len(log)
    BY <1>0, <2>1 DEF LogTypes
  <2>6. QED
    BY <2>1, <2>2, <2>3, <2>4, <2>5, IdleTypes
<1>8. CASE UNCHANGED bo
  BY <1>0, <1>8 DEF bo, OfferTypes, RunTypes, SubTypes, LogTypes, CountTypes, LetterIsFresh
<1>9. CASE Offer!Next
  <2>1. \/ \E r \in Runners : Offer!Batch(r)
        \/ \E n \in DOMAIN log : Offer!FailedCallback(n) \/ \E e : Offer!EventCallback(n, e)
        \/ \E u \in Users : Others(u)
    BY <1>9 DEF Offer!Next, Others
  <2>2. ASSUME NEW r \in Runners, Offer!Batch(r)
        PROVE  OfferTypes'
    BY <2>2, <1>1, <1>2, <1>3, <1>4, InsertTypes, SendTypes, CloseTypes DEF Offer!Batch
  <2>3. QED
    BY <2>1, <2>2, <1>5, <1>6, <1>7
<1>10. QED
  BY <1>8, <1>9

-----------------------------------------------------------------------------
\* Which batches may write to a customer, after one of them has moved.
LEMMA MovedMay ==
    ASSUME NEW r \in Runners, NEW pc, NEW todo, NEW user, NEW sent, NEW number,
           Moved(r, pc, todo, user, sent, number), NEW v
    PROVE  /\ May(v)' = (May(v) \ {r}) \union
                        IF v \in todo \/ (user = v /\ pc \in {"insert", "send"}) THEN {r} ELSE {}
           /\ Closing(r, v)' <=> pc = "close" /\ user = v
           /\ run'[r].letter = number
           /\ \A q \in Runners : q # r => (Closing(q, v)' <=> Closing(q, v)) /\ run'[q].letter = run[q].letter
<1>1. ASSUME NEW q \in Runners
      PROVE  q \in May(v)' <=> \/ q # r /\ q \in May(v)
                               \/ q = r /\ (v \in todo \/ (user = v /\ pc \in {"insert", "send"}))
  <2>1. CASE q = r
    BY <2>1 DEF Moved, May
  <2>2. CASE q # r
    BY <2>2 DEF Moved, May
  <2>3. QED
    BY <2>1, <2>2
<1>2. May(v)' \subseteq Runners /\ May(v) \subseteq Runners
  BY DEF May
<1>3. May(v)' = (May(v) \ {r}) \union IF v \in todo \/ (user = v /\ pc \in {"insert", "send"}) THEN {r} ELSE {}
  BY <1>1, <1>2
<1>4. Closing(r, v)' <=> pc = "close" /\ user = v
  BY DEF Moved, Closing
<1>5. \A q \in Runners : q # r => (Closing(q, v)' <=> Closing(q, v)) /\ run'[q].letter = run[q].letter
  BY DEF Moved, Closing
<1>6. QED
  BY <1>3, <1>4, <1>5 DEF Moved

LEMMA PeriodIsFinite ==
    ASSUME CountTypes, LogTypes, NEW u \in Users
    PROVE  IsFiniteSet(period[u]) /\ Cardinality(period[u]) \in Nat
<1>1. IsFiniteSet(1 .. Len(log)) /\ period[u] \subseteq 1 .. Len(log)
  BY FS_Interval DEF CountTypes, LogTypes
<1>2. IsFiniteSet(period[u])
  BY <1>1, FS_Subset
<1>3. QED
  BY <1>2, FS_CardinalityType

LEMMA CountsAreNat ==
    ASSUME OfferTypes, NEW u \in Users
    PROVE  /\ IsFiniteSet(May(u)) /\ Cardinality(May(u)) \in Nat
           /\ IsFiniteSet(period[u]) /\ Cardinality(period[u]) \in Nat
           /\ Weight(u) = Cardinality(period[u]) + Cardinality(May(u)) /\ Weight(u) \in Nat
           /\ faults \in Nat
<1>1. IsFiniteSet(May(u)) /\ Cardinality(May(u)) \in Nat
  BY MayIsFinite
<1>2. IsFiniteSet(period[u]) /\ Cardinality(period[u]) \in Nat
  BY PeriodIsFinite DEF OfferTypes
<1>3. QED
  BY <1>1, <1>2 DEF Weight, OfferTypes, CountTypes

\* Steps after which a customer is no nearer to a letter: his batches let him go,
\* and a batch that has written stays, unless a fault is charged.
Calmer(v) ==
    /\ May(v)' \subseteq May(v) /\ period'[v] = period[v]
    /\ subs'[v].timer = subs[v].timer
    /\ (subs'[v].ripe => subs[v].ripe) /\ (subs'[v].bought = "ripe" => subs[v].bought = "ripe")
    /\ \A r \in Runners : Closing(r, v)' => Closing(r, v) /\ run'[r].letter = run[r].letter
    /\ \/ faults' = faults + 1
       \/ faults' = faults /\ \A r \in Runners : Closing(r, v) => Closing(r, v)' /\ run'[r].letter = run[r].letter

LEMMA CalmerCapped ==
    ASSUME OfferTypes, OfferTypes', NEW v \in Users, Capped(v), Calmer(v)
    PROVE  Capped(v)'
<1>1. /\ IsFiniteSet(May(v)) /\ Cardinality(May(v)) \in Nat /\ Cardinality(period[v]) \in Nat
      /\ Weight(v) = Cardinality(period[v]) + Cardinality(May(v)) /\ Weight(v) \in Nat /\ faults \in Nat
  BY CountsAreNat
<1>2. Weight(v)' = Cardinality(period[v]) + Cardinality(May(v)')
  BY DEF Weight, Calmer
<1>3. /\ Cardinality(May(v)') \in Nat /\ Cardinality(May(v)') <= Cardinality(May(v))
      /\ Cardinality(May(v)') = Cardinality(May(v)) => May(v)' = May(v)
  <2>1. May(v)' \subseteq May(v)
    BY DEF Calmer
  <2>2. QED
    BY <1>1, <2>1, FS_Subset, FS_CardinalityType
<1>4. Weight(v)' \in Nat /\ Weight(v)' <= Weight(v) /\ (Weight(v)' = Weight(v) => May(v)' = May(v))
  BY <1>1, <1>2, <1>3
<1>5. faults' = faults \/ faults' = faults + 1
  BY DEF Calmer
<1>6. Weight(v) <= faults + 1
  BY DEF Capped
<1>7. Weight(v)' <= faults' + 1
  BY <1>1, <1>4, <1>5, <1>6
<1>8. ASSUME Weight(v)' = faults' + 1
      PROVE  \/ subs'[v].timer \in period'[v]
             \/ May(v)' # {}
             \/ \E r \in Runners : Closing(r, v)' /\ run'[r].letter \in period'[v]
  <2>1. faults' = faults /\ Weight(v) = faults + 1 /\ May(v)' = May(v)
    BY <1>1, <1>4, <1>5, <1>6, <1>8
  <2>2. \A r \in Runners : Closing(r, v) => Closing(r, v)' /\ run'[r].letter = run[r].letter
    BY <1>1, <2>1 DEF Calmer
  <2>3. \/ subs[v].timer \in period[v]
        \/ May(v) # {}
        \/ \E r \in Runners : Closing(r, v) /\ run[r].letter \in period[v]
    BY <2>1 DEF Capped
  <2>4. subs'[v].timer = subs[v].timer /\ period'[v] = period[v]
    BY DEF Calmer
  <2>5. QED
    BY <2>1, <2>2, <2>3, <2>4
<1>9. subs'[v].timer \in period'[v] => ~subs'[v].ripe /\ subs'[v].bought # "ripe"
  BY DEF Capped, Calmer
<1>10. ASSUME NEW r \in Runners, Closing(r, v)', run'[r].letter \notin period'[v]
       PROVE  Weight(v)' <= faults'
  <2>1. Closing(r, v) /\ run[r].letter \notin period[v]
    BY <1>10 DEF Calmer
  <2>2. Weight(v) <= faults
    BY <2>1 DEF Capped
  <2>3. QED
    BY <1>1, <1>4, <1>5, <2>2
<1>11. QED
  BY <1>7, <1>8, <1>9, <1>10 DEF Capped

\* A letter is handed over.
LEMMA HandedCapped ==
    ASSUME OfferTypes, OfferTypes', NEW r \in Runners, Offer!MailAccepted(r) \/ Offer!MailFailed(r), HandOver(r),
           NEW u \in Users, u = run[r].user, Capped(u),
           faults' = faults + 1 \/ (faults' = faults /\ run' = [run EXCEPT ![r].pc = "close"])
    PROVE  Capped(u)'
<1> DEFINE n == run[r].letter
<1>2. run[r].pc = "send" /\ UNCHANGED subs
  BY Sends
<1>3. PICK stage \in {"loop", "close"} :
        /\ run' = [run EXCEPT ![r].pc = stage]
        /\ faults' = faults + 1 \/ (faults' = faults /\ stage = "close")
  BY Sends
<1>4. Moved(r, stage, run[r].todo, run[r].user, run[r].sent, n)
  BY <1>3, StageMoves DEF OfferTypes
<1>5. u \notin run[r].todo /\ run[r].user = u /\ n \in 1 .. Len(log) /\ subs[u].timer # n
  BY <1>2 DEF OfferTypes, RunTypes, LetterIsFresh
<1>6. r \in May(u) /\ May(u)' = May(u) \ {r}
  BY <1>2, <1>3, <1>4, <1>5, MovedMay DEF May
<1>7. period'[u] = period[u] \union {n}
  BY <1>5 DEF HandOver, OfferTypes, CountTypes
<1>8. Cardinality(May(u)') = Cardinality(May(u)) - 1
  <2>1. IsFiniteSet(May(u))
    BY MayIsFinite
  <2>2. QED
    BY <1>6, <2>1, FS_RemoveElement
<1>9. Cardinality(period'[u]) \in Nat /\ Cardinality(period'[u]) <= Cardinality(period[u]) + 1
  <2>1. IsFiniteSet(period[u]) /\ Cardinality(period[u]) \in Nat
    BY CountsAreNat
  <2>2. Cardinality(period[u] \union {n}) = IF n \in period[u] THEN Cardinality(period[u]) ELSE Cardinality(period[u]) + 1
    BY <2>1, FS_AddElement
  <2>3. Cardinality(period[u] \union {n}) \in Nat /\ Cardinality(period[u] \union {n}) <= Cardinality(period[u]) + 1
    BY <2>1, <2>2
  <2>4. QED
    BY <1>7, <2>3
<1>10. /\ Weight(u) = Cardinality(period[u]) + Cardinality(May(u)) /\ Weight(u) \in Nat /\ faults \in Nat
       /\ Cardinality(period[u]) \in Nat /\ Cardinality(May(u)) \in Nat
  BY CountsAreNat
<1>11. Weight(u)' = Cardinality(period'[u]) + Cardinality(May(u)')
  BY DEF Weight
<1>12. Weight(u)' \in Int /\ Weight(u)' <= Weight(u)
  BY <1>8, <1>9, <1>10, <1>11
<1>13. Weight(u) <= faults + 1
  BY DEF Capped
<1>14. Weight(u)' <= faults' + 1
  BY <1>3, <1>10, <1>12, <1>13
<1>15. Weight(u)' = faults' + 1 => Closing(r, u)' /\ run'[r].letter \in period'[u]
  <2>1. Weight(u)' = faults' + 1 => stage = "close"
    BY <1>3, <1>10, <1>12, <1>13
  <2>2. stage = "close" => Closing(r, u)' /\ run'[r].letter = n
    BY <1>4, <1>5, MovedMay
  <2>3. QED
    BY <1>7, <2>1, <2>2
<1>16. subs'[u].timer \in period'[u] => ~subs'[u].ripe /\ subs'[u].bought # "ripe"
  BY <1>2, <1>5, <1>7 DEF Capped
<1>17. ASSUME NEW q \in Runners, Closing(q, u)', run'[q].letter \notin period'[u]
       PROVE  Weight(u)' <= faults'
  <2>1. q # r
    BY <1>4, <1>7, <1>17, MovedMay
  <2>2. Closing(q, u) /\ run[q].letter \notin period[u]
    BY <1>4, <1>7, <1>17, <2>1, MovedMay
  <2>3. Weight(u) <= faults
    BY <2>2 DEF Capped
  <2>4. QED
    BY <1>3, <1>10, <1>12, <2>3
<1>18. QED
  BY <1>14, <1>15, <1>16, <1>17 DEF Capped

\* Another customer, and a letter that reaches nobody.
LEMMA SentCapped ==
    ASSUME OfferTypes, OfferTypes', AllCapped, NEW r \in Runners, Offer!MailAccepted(r) \/ Offer!MailFailed(r)
    PROVE  AllCapped'
<1>1. /\ run[r].pc = "send" /\ UNCHANGED <<subs, opened>>
      /\ \/ UNCHANGED <<period, handed, late, faults>> /\ run' = [run EXCEPT ![r].pc = "loop"]
         \/ HandOver(r) /\ faults' = faults + 1 /\ run' = [run EXCEPT ![r].pc = "loop"]
         \/ HandOver(r) /\ faults' = faults /\ log' = log /\ run' = [run EXCEPT ![r].pc = "close"]
  BY Sends
<1>2. PICK stage \in {"loop", "close"} : run' = [run EXCEPT ![r].pc = stage]
  BY <1>1
<1>3. Moved(r, stage, run[r].todo, run[r].user, run[r].sent, run[r].letter)
  BY <1>2, StageMoves DEF OfferTypes
<1>4. run[r].user \in Users /\ run[r].user \notin run[r].todo
  BY <1>1 DEF OfferTypes, RunTypes
<1>5. ASSUME NEW v \in Users
      PROVE  Capped(v)'
  <2>1. Capped(v)
    BY DEF AllCapped
  <2>2. CASE HandOver(r) /\ v = run[r].user
    <3>1. faults' = faults + 1 \/ (faults' = faults /\ run' = [run EXCEPT ![r].pc = "close"])
      <4>1. CASE UNCHANGED <<period, handed, late, faults>>
        <5>1. handed' = handed /\ handed' = [handed EXCEPT ![r] = handed[r] + 1] /\ handed \in [Runners -> Nat]
          BY <2>2, <4>1 DEF HandOver, OfferTypes, CountTypes
        <5>2. handed'[r] = handed[r] /\ handed'[r] = handed[r] + 1 /\ handed[r] \in Nat
          BY <5>1
        <5>3. QED
          BY <5>2
      <4>2. QED
        BY <1>1, <4>1
    <3>2. QED
      BY <2>1, <2>2, <3>1, HandedCapped
  <2>3. CASE HandOver(r) /\ v # run[r].user
    <3>1. period'[v] = period[v] /\ subs' = subs
      BY <1>1, <2>3 DEF HandOver, OfferTypes, CountTypes
    <3>2. May(v)' \subseteq May(v) /\ ~Closing(r, v)' /\ ~Closing(r, v)
      <4>1. v \in run[r].todo => r \in May(v)
        BY DEF May
      <4>2. QED
        BY <1>1, <1>3, <2>3, <4>1, MovedMay DEF Closing
    <3>3. \A q \in Runners : /\ Closing(q, v)' => Closing(q, v) /\ run'[q].letter = run[q].letter
                             /\ Closing(q, v) => Closing(q, v)' /\ run'[q].letter = run[q].letter
      BY <1>3, <3>2, MovedMay
    <3>4. Calmer(v)
      BY <1>1, <3>1, <3>2, <3>3 DEF Calmer
    <3>5. QED
      BY <2>1, <3>4, CalmerCapped
  <2>4. CASE UNCHANGED <<period, handed, late, faults>> /\ run' = [run EXCEPT ![r].pc = "loop"]
    <3>1. Moved(r, "loop", run[r].todo, run[r].user, run[r].sent, run[r].letter)
      BY <2>4, StageMoves DEF OfferTypes
    <3>2. May(v)' \subseteq May(v) /\ ~Closing(r, v)' /\ ~Closing(r, v)
      <4>1. v \in run[r].todo => r \in May(v)
        BY DEF May
      <4>2. QED
        BY <1>1, <3>1, <4>1, MovedMay DEF Closing
    <3>3. \A q \in Runners : /\ Closing(q, v)' => Closing(q, v) /\ run'[q].letter = run[q].letter
                             /\ Closing(q, v) => Closing(q, v)' /\ run'[q].letter = run[q].letter
      BY <3>1, <3>2, MovedMay
    <3>4. Calmer(v)
      BY <1>1, <2>4, <3>2, <3>3 DEF Calmer
    <3>5. QED
      BY <2>1, <3>4, CalmerCapped
  <2>5. QED
    BY <1>1, <2>2, <2>3, <2>4
<1>6. QED
  BY <1>5 DEF AllCapped

\* A batch that moves has selected nobody else: it goes on with the same
\* customer, takes the next one or lets some go.
Narrows(r, pc, todo, user) ==
    /\ todo \subseteq run[r].todo
    /\ pc \in {"insert", "send"} => \/ user \in run[r].todo
                                    \/ user = run[r].user /\ run[r].pc \in {"insert", "send"}

\* A batch that ends, dies, fails or chooses the next customer.
LEMMA QuietCapped ==
    ASSUME OfferTypes, OfferTypes', AllCapped, NEW r \in Runners, NEW pc, NEW todo, NEW user, NEW sent, NEW number,
           Moved(r, pc, todo, user, sent, number), pc \in {"idle", "loop", "insert", "send"}, UNCHANGED <<subs, period>>,
           Narrows(r, pc, todo, user),
           faults' = faults + 1 \/ (faults' = faults /\ run[r].pc # "close")
    PROVE  AllCapped'
<1>1. ASSUME NEW v \in Users
      PROVE  Capped(v)'
  <2>1. Capped(v)
    BY DEF AllCapped
  <2>2. v \in todo \/ (user = v /\ pc \in {"insert", "send"}) => r \in May(v)
    BY DEF May, Narrows
  <2>3. May(v)' \subseteq May(v) /\ ~Closing(r, v)'
    BY <2>2, MovedMay
  <2>4. \A q \in Runners : Closing(q, v)' => Closing(q, v) /\ run'[q].letter = run[q].letter
    BY <2>3, MovedMay
  <2>5. run[r].pc # "close" => \A q \in Runners : Closing(q, v) => Closing(q, v)' /\ run'[q].letter = run[q].letter
    BY MovedMay DEF Closing
  <2>6. Calmer(v)
    BY <2>3, <2>4, <2>5 DEF Calmer
  <2>7. QED
    BY <2>1, <2>6, CalmerCapped
<1>2. QED
  BY <1>1 DEF AllCapped

\* A batch selects: alone, no other batch may write and a candidate's timer
\* names no letter of the interval; otherwise a fault is charged.
LEMMA BeginCapped ==
    ASSUME OfferTypes, OfferTypes', AllCapped, NEW r \in Runners, Offer!BeginBatch(r)
    PROVE  AllCapped'
<1> DEFINE S == {u \in Users : Offer!Candidate(u)}
<1>1. Moved(r, "loop", S, None, 0, 0)
  BY BeginMoves DEF OfferTypes
<1>2. /\ run[r].pc = "idle" /\ UNCHANGED <<subs, period>>
      /\ \/ faults' = faults + 1
         \/ faults' = faults /\ \A q \in Runners : run[q].pc = "idle"
  BY DEF Offer!BeginBatch, Offer!Fault
<1>3. ASSUME NEW v \in Users
      PROVE  Capped(v)'
  <2>1. Capped(v)
    BY DEF AllCapped
  <2>2. /\ IsFiniteSet(May(v)) /\ Cardinality(May(v)) \in Nat /\ Cardinality(period[v]) \in Nat
        /\ Weight(v) = Cardinality(period[v]) + Cardinality(May(v)) /\ Weight(v) \in Nat /\ faults \in Nat
    BY CountsAreNat
  <2>3. r \notin May(v) /\ ~Closing(r, v) /\ ~Closing(r, v)'
    <3>1. run[r].pc = "idle" /\ run[r].todo = {}
      BY <1>2 DEF OfferTypes, RunTypes
    <3>2. r \notin May(v) /\ ~Closing(r, v)
      BY <3>1 DEF May, Closing
    <3>3. ~Closing(r, v)'
      BY <1>1, MovedMay
    <3>4. QED
      BY <3>2, <3>3
  <2>4. May(v)' = May(v) \union IF v \in S THEN {r} ELSE {}
    BY <1>1, <2>3, MovedMay
  <2>5. \A q \in Runners : (Closing(q, v)' <=> Closing(q, v)) /\ (Closing(q, v) => run'[q].letter = run[q].letter)
    BY <1>1, <2>3, MovedMay
  <2>6. CASE v \notin S
    <3>1. Calmer(v)
      BY <1>2, <2>4, <2>5, <2>6 DEF Calmer
    <3>2. QED
      BY <2>1, <3>1, CalmerCapped
  <2>7. CASE v \in S
    <3>1. May(v)' # {} /\ Cardinality(May(v)') = Cardinality(May(v)) + 1
      BY <2>2, <2>3, <2>4, <2>7, FS_AddElement
    <3>2. Weight(v)' = Weight(v) + 1
      BY <1>2, <2>2, <3>1 DEF Weight
    <3>3. Weight(v) <= faults + 1
      BY <2>1 DEF Capped
    <3>4. faults' = faults => Weight(v) <= faults
      <4>1. SUFFICES ASSUME faults' = faults, Weight(v) > faults PROVE FALSE
        BY <2>2
      <4>2. \A q \in Runners : run[q].pc = "idle" /\ run[q].todo = {}
        BY <1>2, <2>2, <4>1 DEF OfferTypes, RunTypes
      <4>3. May(v) = {} /\ \A q \in Runners : ~Closing(q, v)
        BY <4>2 DEF May, Closing
      <4>4. subs[v].timer \in period[v]
        BY <2>1, <2>2, <3>3, <4>1, <4>3 DEF Capped
      <4>5. ~subs[v].ripe /\ subs[v].bought # "ripe" /\ subs[v].timer # 0
        BY <2>1, <4>4 DEF Capped, OfferTypes, CountTypes
      <4>6. QED
        BY <2>7, <4>5 DEF Offer!Candidate
    <3>5. Weight(v)' <= faults' + 1
      BY <1>2, <2>2, <3>2, <3>3, <3>4
    <3>6. subs'[v].timer \in period'[v] => ~subs'[v].ripe /\ subs'[v].bought # "ripe"
      BY <1>2, <2>1 DEF Capped
    <3>7. ASSUME NEW q \in Runners, Closing(q, v)', run'[q].letter \notin period'[v]
          PROVE  Weight(v)' <= faults'
      <4>1. Closing(q, v) /\ run[q].letter \notin period[v]
        BY <1>2, <2>5, <3>7
      <4>2. faults' = faults + 1 /\ Weight(v) <= faults
        BY <1>2, <2>1, <4>1 DEF Capped, Closing
      <4>3. QED
        BY <2>2, <3>2, <4>2
    <3>8. QED
      BY <3>1, <3>5, <3>6, <3>7 DEF Capped
  <2>8. QED
    BY <2>6, <2>7
<1>4. QED
  BY <1>3 DEF AllCapped

\* The timer takes over from the batch that has written.
LEMMA CloseCapped ==
    ASSUME OfferTypes, OfferTypes', AllCapped, NEW r \in Runners, Offer!Close(r)
    PROVE  AllCapped'
<1>0. PICK u \in Users : u = run[r].user /\ u \notin run[r].todo
  BY DEF OfferTypes, RunTypes, Offer!Close
<1> DEFINE n == run[r].letter
<1>1. Moved(r, "loop", run[r].todo, u, run[r].sent + 1, n)
  BY <1>0, CloseMoves DEF OfferTypes
<1>2. run[r].pc = "close" /\ UNCHANGED <<period, faults>> /\ Closing(r, u)
  BY <1>0 DEF Offer!Close, Closing
<1>3. OnlyFor(u) /\ subs'[u].timer = n /\ subs'[u].ripe = FALSE /\ subs'[u].bought = "none"
  BY <1>0, CloseTimes DEF OfferTypes
<1>4. ASSUME NEW v \in Users
      PROVE  /\ May(v)' \subseteq May(v) /\ (v = u => May(v)' = May(v)) /\ ~Closing(r, v)'
             /\ v # u => ~Closing(r, v)
             /\ \A q \in Runners : q # r => (Closing(q, v)' <=> Closing(q, v)) /\ run'[q].letter = run[q].letter
  <2>1. v \in run[r].todo => r \in May(v)
    BY DEF May
  <2>2. v = u => r \notin May(v)
    BY <1>0, <1>2 DEF May
  <2>3. May(v)' = (May(v) \ {r}) \union IF v \in run[r].todo THEN {r} ELSE {}
    BY <1>1, MovedMay
  <2>4. May(v)' \subseteq May(v) /\ (v = u => May(v)' = May(v))
    BY <1>0, <2>1, <2>2, <2>3
  <2>5. ~Closing(r, v)' /\ \A q \in Runners : q # r => (Closing(q, v)' <=> Closing(q, v)) /\ run'[q].letter = run[q].letter
    BY <1>1, MovedMay
  <2>6. v # u => ~Closing(r, v)
    BY <1>0 DEF Closing
  <2>7. QED
    BY <2>4, <2>5, <2>6
<1>5. Capped(u)'
  <2>1. Capped(u)
    BY DEF AllCapped
  <2>2. Weight(u)' = Weight(u) /\ Weight(u) \in Nat /\ faults \in Nat
    BY <1>2, <1>4, CountsAreNat DEF Weight
  <2>3. Weight(u)' <= faults' + 1
    BY <1>2, <2>1, <2>2 DEF Capped
  <2>4. Weight(u)' = faults' + 1 => subs'[u].timer \in period'[u]
    BY <1>2, <1>3, <2>1, <2>2 DEF Capped
  <2>5. ASSUME NEW q \in Runners, Closing(q, u)', run'[q].letter \notin period'[u]
        PROVE  Weight(u)' <= faults'
    BY <1>2, <1>4, <2>1, <2>2, <2>5 DEF Capped
  <2>6. QED
    BY <1>3, <2>3, <2>4, <2>5 DEF Capped
<1>6. ASSUME NEW v \in Users, v # u
      PROVE  Capped(v)'
  <2>1. subs'[v] = subs[v]
    BY <1>3, <1>6 DEF OnlyFor
  <2>2. Calmer(v)
    BY <1>2, <1>4, <1>6, <2>1 DEF Calmer
  <2>3. QED
    BY <2>2, CalmerCapped DEF AllCapped
<1>7. QED
  BY <1>5, <1>6 DEF AllCapped

\* The mail service takes a letter back.
LEMMA FailedCapped ==
    ASSUME OfferTypes, OfferTypes', AllCapped, NEW n \in DOMAIN log, Offer!FailedCallback(n)
    PROVE  AllCapped'
<1>1. UNCHANGED <<run, faults>> /\ period' = [u \in Users |-> period[u] \ {n}]
  BY DEF Offer!FailedCallback
<1>2. ASSUME NEW v \in Users
      PROVE  Capped(v)'
  <2>1. Capped(v)
    BY DEF AllCapped
  <2>2. /\ subs'[v].timer = subs[v].timer \/ (subs[v].timer = n /\ subs'[v].timer = 0)
        /\ subs'[v].ripe <=> subs[v].ripe
        /\ subs'[v].bought = subs[v].bought
    BY FailedTimes DEF OfferTypes
  <2>3. May(v)' = May(v) /\ (\A r \in Runners : Closing(r, v)' <=> Closing(r, v)) /\ period'[v] = period[v] \ {n}
    BY <1>1 DEF May, Closing
  <2>4. CASE n \notin period[v]
    <3>1. period'[v] = period[v]
      BY <2>3, <2>4
    <3>2. Weight(v)' = Weight(v)
      BY <2>3, <3>1 DEF Weight
    <3>5. 0 \notin period[v]
      BY DEF OfferTypes, CountTypes
    <3>3. subs'[v].timer \in period'[v] <=> subs[v].timer \in period[v]
      BY <2>2, <2>4, <3>1, <3>5
    <3>4. QED
      BY <1>1, <2>1, <2>2, <2>3, <3>1, <3>2, <3>3 DEF Capped
  <2>5. CASE n \in period[v]
    <3>1. /\ IsFiniteSet(period[v]) /\ Cardinality(May(v)) \in Nat /\ Cardinality(period[v]) \in Nat
          /\ Weight(v) = Cardinality(period[v]) + Cardinality(May(v)) /\ Weight(v) \in Nat /\ faults \in Nat
      BY CountsAreNat
    <3>2. Cardinality(period'[v]) = Cardinality(period[v]) - 1
      BY <2>3, <2>5, <3>1, FS_RemoveElement
    <3>3. Weight(v)' = Weight(v) - 1
      BY <2>3, <3>1, <3>2 DEF Weight
    <3>4. Weight(v)' <= faults' /\ Weight(v)' \in Int
      BY <1>1, <2>1, <3>1, <3>3 DEF Capped
    <3>5. subs'[v].timer \in period'[v] => subs[v].timer \in period[v]
      BY <2>2, <2>3 DEF OfferTypes, CountTypes
    <3>6. QED
      BY <1>1, <2>1, <2>2, <3>1, <3>4, <3>5 DEF Capped
  <2>6. QED
    BY <2>4, <2>5
<1>3. QED
  BY <1>2 DEF AllCapped

\* The interval ends: what the batches of the last one may still write is left.
LEMMA OtherCapped ==
    ASSUME OfferTypes, OfferTypes', AllCapped, NEW u \in Users, Others(u)
    PROVE  AllCapped'
<1>1. /\ OnlyFor(u) /\ subs'[u].timer = subs[u].timer
      /\ \/ period' = [period EXCEPT ![u] = {}]
         \/ /\ period' = period /\ (subs'[u].ripe => subs[u].ripe)
            /\ subs'[u].bought = "ripe" => subs[u].bought = "ripe"
      /\ UNCHANGED <<log, run, late, handed, faults>>
  BY OtherTimes DEF OfferTypes
<1>2. ASSUME NEW v \in Users
      PROVE  May(v)' = May(v) /\ \A r \in Runners : Closing(r, v)' <=> Closing(r, v)
  BY <1>1 DEF May, Closing
<1>3. ASSUME NEW v \in Users,
             \/ v # u
             \/ /\ period' = period /\ (subs'[u].ripe => subs[u].ripe)
                /\ subs'[u].bought = "ripe" => subs[u].bought = "ripe"
      PROVE  Capped(v)'
  <2>1. v # u => subs'[v] = subs[v]
    BY <1>1 DEF OnlyFor
  <2>2. period'[v] = period[v]
    BY <1>1, <1>3 DEF OfferTypes, CountTypes
  <2>4. Calmer(v)
    BY <1>1, <1>2, <1>3, <2>1, <2>2 DEF Calmer
  <2>5. QED
    BY <2>4, CalmerCapped DEF AllCapped
<1>4. ASSUME period' = [period EXCEPT ![u] = {}]
      PROVE  Capped(u)'
  <2>1. Capped(u)
    BY DEF AllCapped
  <2>2. period'[u] = {} /\ Cardinality(period'[u]) = 0
    BY <1>4, FS_EmptySet DEF OfferTypes, CountTypes
  <2>3. /\ IsFiniteSet(May(u)) /\ Cardinality(May(u)) \in Nat /\ Cardinality(period[u]) \in Nat
        /\ IsFiniteSet(period[u])
        /\ Weight(u) = Cardinality(period[u]) + Cardinality(May(u)) /\ Weight(u) \in Nat /\ faults \in Nat
    BY CountsAreNat
  <2>4. Weight(u)' = Cardinality(May(u))
    BY <1>2, <2>2, <2>3 DEF Weight
  <2>5. Weight(u)' <= faults' + 1
    BY <1>1, <2>1, <2>3, <2>4 DEF Capped
  <2>6. Weight(u)' = faults' + 1 => May(u)' # {}
    <3>1. May(u) = {} => Cardinality(May(u)) = 0
      BY FS_EmptySet
    <3>2. May(u)' = May(u) /\ faults' = faults
      BY <1>1, <1>2
    <3>3. QED
      BY <2>3, <2>4, <3>1, <3>2
  <2>7. ASSUME NEW r \in Runners, Closing(r, u)'
        PROVE  Weight(u)' <= faults'
    <3>1. Closing(r, u)
      BY <1>2, <2>7
    <3>2. CASE run[r].letter \in period[u]
      <4>1. Cardinality(period[u]) > 0
        BY <2>3, <3>2, FS_EmptySet
      <4>2. QED
        BY <1>1, <2>1, <2>3, <2>4, <4>1 DEF Capped
    <3>3. CASE run[r].letter \notin period[u]
      BY <1>1, <2>1, <2>3, <2>4, <3>1, <3>3 DEF Capped
    <3>4. QED
      BY <3>2, <3>3
  <2>8. QED
    BY <2>2, <2>5, <2>6, <2>7 DEF Capped
<1>5. QED
  BY <1>1, <1>3, <1>4 DEF AllCapped

LEMMA CapKept ==
    ASSUME OfferTypes, OfferTypes', AllCapped, [Offer!Next]_bo
    PROVE  AllCapped'
<1>0. RunTypes /\ SubTypes /\ LogTypes /\ CountTypes /\ LetterIsFresh
  BY DEF OfferTypes
<1>1. ASSUME NEW r \in Runners, Offer!EndBatch(r) \/ Offer!BatchDies(r)
      PROVE  AllCapped'
  <2>1. Moved(r, "idle", {}, None, 0, 0)
    BY <1>0, <1>1, EndMoves
  <2>2. /\ UNCHANGED <<subs, period>>
        /\ faults' = faults + 1 \/ (faults' = faults /\ run[r].pc # "close")
    BY <1>1 DEF Offer!EndBatch, Offer!BatchDies, Offer!Fault
  <2>3. Narrows(r, "idle", {}, None)
    BY <2>2 DEF Narrows
  <2>4. QED
    BY <2>1, <2>2, <2>3, QuietCapped
<1>2. ASSUME NEW r \in Runners, Offer!Choose(r)
      PROVE  AllCapped'
  <2>1. PICK u \in run[r].todo, pc \in {"loop", "insert"} :
          Moved(r, pc, run[r].todo \ {u}, u, run[r].sent, run[r].letter)
    BY <1>0, <1>2, ChooseMoves
  <2>2. UNCHANGED <<subs, period, faults>> /\ run[r].pc = "loop"
    BY <1>2 DEF Offer!Choose
  <2>3. Narrows(r, pc, run[r].todo \ {u}, u) /\ pc \in {"idle", "loop", "insert", "send"}
    BY <2>1 DEF Narrows
  <2>4. QED
    BY <2>1, <2>2, <2>3, QuietCapped
<1>3. ASSUME NEW r \in Runners, Offer!InsertLog(r)
      PROVE  AllCapped'
  <2>1. Moved(r, "send", run[r].todo, run[r].user, run[r].sent, Len(log) + 1)
    BY <1>0, <1>3, InsertMoves
  <2>2. UNCHANGED <<subs, period, faults>> /\ run[r].pc = "insert"
    BY <1>3 DEF Offer!InsertLog
  <2>3. Narrows(r, "send", run[r].todo, run[r].user)
    BY <2>2 DEF Narrows
  <2>4. QED
    BY <2>1, <2>2, <2>3, QuietCapped
<1>4. ASSUME NEW r \in Runners, Offer!Raises(r)
      PROVE  AllCapped'
  <2>1. run' = [run EXCEPT ![r].pc = "loop"] /\ UNCHANGED <<subs, period>> /\ faults' = faults + 1
    BY <1>4 DEF Offer!Raises, Offer!Fault
  <2>2. Moved(r, "loop", run[r].todo, run[r].user, run[r].sent, run[r].letter)
    BY <1>0, <2>1, StageMoves
  <2>3. Narrows(r, "loop", run[r].todo, run[r].user)
    BY <2>2 DEF Narrows
  <2>4. QED
    BY <2>1, <2>2, <2>3, QuietCapped
<1>5. ASSUME UNCHANGED <<subs, run, period, faults>>
      PROVE  AllCapped'
  BY <1>5 DEF AllCapped, Capped, Weight, May, Closing
<1>6. ASSUME NEW n, NEW e, Offer!EventCallback(n, e)
      PROVE  AllCapped'
  BY <1>5, <1>6 DEF Offer!EventCallback
<1>7. CASE UNCHANGED bo
  BY <1>5, <1>7 DEF bo
<1>8. CASE Offer!Next
  <2>1. \/ \E r \in Runners : Offer!Batch(r)
        \/ \E n \in DOMAIN log : Offer!FailedCallback(n) \/ \E e : Offer!EventCallback(n, e)
        \/ \E u \in Users : Others(u)
    BY <1>8 DEF Offer!Next, Others
  <2>2. ASSUME NEW r \in Runners, Offer!Batch(r)
        PROVE  AllCapped'
    BY <2>2, <1>1, <1>2, <1>3, <1>4, BeginCapped, SentCapped, CloseCapped DEF Offer!Batch
  <2>3. QED
    BY <2>1, <2>2, <1>6, FailedCapped, OtherCapped
<1>9. QED
  BY <1>7, <1>8

-----------------------------------------------------------------------------
\* Steps that hand over nothing to a customer and add no batch of his.
LEMMA CalmerCounted ==
    ASSUME OfferTypes, NEW v \in Users, LateCounted(v), May(v)' \subseteq May(v),
           late'[v] = late[v], opened'[v] = opened[v], subs'[v].mailable => subs[v].mailable
    PROVE  LateCounted(v)'
<1>1. /\ IsFiniteSet(May(v)) /\ Cardinality(May(v)) \in Nat
      /\ Cardinality(May(v)') \in Nat /\ Cardinality(May(v)') <= Cardinality(May(v))
  <2>1. IsFiniteSet(May(v)) /\ Cardinality(May(v)) \in Nat
    BY MayIsFinite
  <2>2. QED
    BY <2>1, FS_Subset, FS_CardinalityType
<1>2. late[v] \in Nat /\ opened[v] \in Int
  BY DEF OfferTypes, CountTypes
<1>3. (subs[v].mailable => late[v] = 0 /\ opened[v] = -1) /\ (opened[v] >= 0 => late[v] + Cardinality(May(v)) <= opened[v])
  BY DEF LateCounted
<1>4. subs'[v].mailable => late'[v] = 0 /\ opened'[v] = -1
  BY <1>3
<1>5. opened'[v] >= 0 => late'[v] + Cardinality(May(v)') <= opened'[v]
  BY <1>1, <1>2, <1>3
<1>6. QED
  BY <1>4, <1>5 DEF LateCounted

LEMMA QuietCounted ==
    ASSUME OfferTypes, AllCounted, NEW r \in Runners, NEW pc, NEW todo, NEW user, NEW sent, NEW number,
           Moved(r, pc, todo, user, sent, number), UNCHANGED <<late, opened>>,
           \A v \in Users : subs'[v].mailable => subs[v].mailable,
           Narrows(r, pc, todo, user)
    PROVE  AllCounted'
<1>1. ASSUME NEW v \in Users
      PROVE  LateCounted(v)'
  <2>1. v \in todo \/ (user = v /\ pc \in {"insert", "send"}) => r \in May(v)
    BY DEF May, Narrows
  <2>2. May(v)' \subseteq May(v)
    BY <2>1, MovedMay
  <2>3. QED
    BY <2>2, CalmerCounted DEF AllCounted
<1>2. QED
  BY <1>1 DEF AllCounted

\* Only those who may be written to are selected.
LEMMA BeginCounted ==
    ASSUME OfferTypes, AllCounted, NEW r \in Runners, Offer!BeginBatch(r)
    PROVE  AllCounted'
<1>1. Moved(r, "loop", {u \in Users : Offer!Candidate(u)}, None, 0, 0)
  BY BeginMoves DEF OfferTypes
<1>2. UNCHANGED <<subs, late, opened>>
  BY DEF Offer!BeginBatch
<1>3. ASSUME NEW v \in Users
      PROVE  LateCounted(v)'
  <2>1. LateCounted(v)
    BY DEF AllCounted
  <2>2. CASE subs[v].mailable
    BY <1>2, <2>1, <2>2 DEF LateCounted
  <2>3. CASE ~subs[v].mailable
    <3>1. v \notin {u \in Users : Offer!Candidate(u)}
      BY <2>3 DEF Offer!Candidate
    <3>2. May(v)' \subseteq May(v)
      BY <1>1, <3>1, MovedMay
    <3>3. QED
      BY <1>2, <2>1, <3>2, CalmerCounted
  <2>4. QED
    BY <2>2, <2>3
<1>4. QED
  BY <1>3 DEF AllCounted

\* The batch that hands a letter over may do so no more.
LEMMA SentCounted ==
    ASSUME OfferTypes, AllCounted, NEW r \in Runners, Offer!MailAccepted(r) \/ Offer!MailFailed(r)
    PROVE  AllCounted'
<1>1. /\ run[r].pc = "send" /\ UNCHANGED <<subs, opened>>
      /\ \/ UNCHANGED late
         \/ HandOver(r)
  BY Sends
<1>2. PICK stage \in {"loop", "close"} : Moved(r, stage, run[r].todo, run[r].user, run[r].sent, run[r].letter)
  <2>1. \E stage \in {"loop", "close"} : run' = [run EXCEPT ![r].pc = stage]
    BY Sends
  <2>2. QED
    BY <2>1, StageMoves DEF OfferTypes
<1>3. PICK u \in Users : u = run[r].user /\ u \notin run[r].todo
  BY <1>1 DEF OfferTypes, RunTypes
<1>4. CASE UNCHANGED late
  <2>1. Narrows(r, stage, run[r].todo, run[r].user)
    BY <1>1 DEF Narrows
  <2>2. QED
    BY <1>1, <1>2, <1>4, <2>1, QuietCounted
<1>5. CASE HandOver(r)
  <2>1. late' = [late EXCEPT ![u] = IF subs[u].mailable THEN late[u] ELSE late[u] + 1]
    BY <1>3, <1>5 DEF HandOver
  <2>2. ASSUME NEW v \in Users, v # u
        PROVE  LateCounted(v)'
    <3>1. v \in run[r].todo => r \in May(v)
      BY DEF May
    <3>2. May(v)' \subseteq May(v)
      BY <1>2, <1>3, <2>2, <3>1, MovedMay
    <3>3. late'[v] = late[v]
      BY <2>1, <2>2 DEF OfferTypes, CountTypes
    <3>4. QED
      BY <1>1, <3>2, <3>3, CalmerCounted DEF AllCounted
  <2>3. LateCounted(u)'
    <3>1. r \in May(u) /\ May(u)' = May(u) \ {r}
      BY <1>1, <1>2, <1>3, MovedMay DEF May
    <3>2. IsFiniteSet(May(u)) /\ Cardinality(May(u)) \in Nat
      BY MayIsFinite
    <3>3. Cardinality(May(u)') = Cardinality(May(u)) - 1
      BY <3>1, <3>2, FS_RemoveElement
    <3>4. late[u] \in Nat /\ opened[u] \in Int /\ late'[u] = IF subs[u].mailable THEN late[u] ELSE late[u] + 1
      BY <2>1 DEF OfferTypes, CountTypes
    <3>5. (subs[u].mailable => late[u] = 0 /\ opened[u] = -1) /\ (opened[u] >= 0 => late[u] + Cardinality(May(u)) <= opened[u])
      BY DEF AllCounted, LateCounted
    <3>6. opened'[u] >= 0 => late'[u] + Cardinality(May(u)') <= opened'[u]
      BY <1>1, <3>2, <3>3, <3>4, <3>5
    <3>7. subs'[u].mailable => late'[u] = 0 /\ opened'[u] = -1
      BY <1>1, <3>4, <3>5
    <3>8. QED
      BY <3>6, <3>7 DEF LateCounted
  <2>4. QED
    BY <2>2, <2>3 DEF AllCounted
<1>6. QED
  BY <1>1, <1>4, <1>5

\* At the unsubscription the batches that have selected the customer are counted.
LEMMA OtherCounted ==
    ASSUME OfferTypes, AllCounted, NEW u \in Users, Others(u)
    PROVE  AllCounted'
<1>1. /\ OnlyFor(u) /\ (subs'[u].mailable => subs[u].mailable) /\ UNCHANGED <<run, late>>
  BY OtherTimes DEF OfferTypes
<1>2. ASSUME NEW v \in Users
      PROVE  LateCounted(v)'
  <2>1. LateCounted(v)
    BY DEF AllCounted
  <2>2. May(v)' = May(v) /\ (subs'[v].mailable => subs[v].mailable)
    BY <1>1 DEF May, OnlyFor
  <2>3. CASE opened'[v] = opened[v]
    BY <1>1, <2>1, <2>2, <2>3, CalmerCounted
  <2>4. CASE opened'[v] # opened[v]
    <3>1. opened'[v] = Cardinality(May(v)) /\ subs[v].mailable /\ ~subs'[v].mailable
      BY <2>4, OpenedCounts DEF OfferTypes
    <3>2. late[v] = 0 /\ Cardinality(May(v)) \in Nat
      BY <2>1, <3>1, MayIsFinite DEF LateCounted
    <3>3. QED
      BY <1>1, <2>2, <3>1, <3>2 DEF LateCounted
  <2>5. QED
    BY <2>3, <2>4
<1>3. QED
  BY <1>2 DEF AllCounted

LEMMA CountKept ==
    ASSUME OfferTypes, AllCounted, [Offer!Next]_bo
    PROVE  AllCounted'
<1>0. RunTypes /\ SubTypes /\ LogTypes /\ CountTypes /\ LetterIsFresh
  BY DEF OfferTypes
<1>1. ASSUME NEW r \in Runners, Offer!EndBatch(r) \/ Offer!BatchDies(r)
      PROVE  AllCounted'
  <2>1. Moved(r, "idle", {}, None, 0, 0)
    BY <1>0, <1>1, EndMoves
  <2>2. UNCHANGED <<subs, late, opened>>
    BY <1>1 DEF Offer!EndBatch, Offer!BatchDies
  <2>3. Narrows(r, "idle", {}, None)
    BY <2>2 DEF Narrows
  <2>4. QED
    BY <2>1, <2>2, <2>3, QuietCounted
<1>2. ASSUME NEW r \in Runners, Offer!Choose(r)
      PROVE  AllCounted'
  <2>1. PICK u \in run[r].todo, pc \in {"loop", "insert"} :
          Moved(r, pc, run[r].todo \ {u}, u, run[r].sent, run[r].letter)
    BY <1>0, <1>2, ChooseMoves
  <2>2. UNCHANGED <<subs, late, opened>>
    BY <1>2 DEF Offer!Choose
  <2>3. Narrows(r, pc, run[r].todo \ {u}, u) /\ pc \in {"idle", "loop", "insert", "send"}
    BY <2>1 DEF Narrows
  <2>4. QED
    BY <2>1, <2>2, <2>3, QuietCounted
<1>3. ASSUME NEW r \in Runners, Offer!InsertLog(r)
      PROVE  AllCounted'
  <2>1. Moved(r, "send", run[r].todo, run[r].user, run[r].sent, Len(log) + 1)
    BY <1>0, <1>3, InsertMoves
  <2>2. UNCHANGED <<subs, late, opened>> /\ run[r].pc = "insert"
    BY <1>3 DEF Offer!InsertLog
  <2>3. Narrows(r, "send", run[r].todo, run[r].user)
    BY <2>2 DEF Narrows
  <2>4. QED
    BY <2>1, <2>2, <2>3, QuietCounted
<1>4. ASSUME NEW r \in Runners, Offer!Raises(r)
      PROVE  AllCounted'
  <2>1. run' = [run EXCEPT ![r].pc = "loop"] /\ UNCHANGED <<subs, late, opened>>
    BY <1>4 DEF Offer!Raises
  <2>2. Moved(r, "loop", run[r].todo, run[r].user, run[r].sent, run[r].letter)
    BY <1>0, <2>1, StageMoves
  <2>3. Narrows(r, "loop", run[r].todo, run[r].user)
    BY <2>2 DEF Narrows
  <2>4. QED
    BY <2>1, <2>2, <2>3, QuietCounted
<1>5. ASSUME NEW r \in Runners, Offer!Close(r)
      PROVE  AllCounted'
  <2>1. Moved(r, "loop", run[r].todo, run[r].user, run[r].sent + 1, run[r].letter) /\ UNCHANGED <<late, opened>>
    BY <1>0, <1>5, CloseMoves DEF Offer!Close
  <2>2. \A v \in Users : subs'[v].mailable => subs[v].mailable
    BY <1>0, <1>5, CloseTimes DEF OnlyFor
  <2>3. Narrows(r, "loop", run[r].todo, run[r].user)
    BY <2>2 DEF Narrows
  <2>4. QED
    BY <2>1, <2>2, <2>3, QuietCounted
<1>6. ASSUME UNCHANGED <<run, opened, late>>, \A v \in Users : subs'[v].mailable => subs[v].mailable
      PROVE  AllCounted'
  <2>1. \A v \in Users : May(v)' = May(v)
    BY <1>6 DEF May
  <2>2. QED
    BY <1>6, <2>1, CalmerCounted DEF AllCounted
<1>7. ASSUME NEW n \in DOMAIN log, NEW e, Offer!FailedCallback(n) \/ Offer!EventCallback(n, e)
      PROVE  AllCounted'
  <2>1. UNCHANGED <<run, opened, late>>
    BY <1>7 DEF Offer!FailedCallback, Offer!EventCallback
  <2>2. \A v \in Users : subs'[v].mailable => subs[v].mailable
    <3>1. CASE Offer!FailedCallback(n)
      BY <1>0, <3>1, FailedTimes
    <3>2. CASE Offer!EventCallback(n, e)
      BY <3>2 DEF Offer!EventCallback
    <3>3. QED
      BY <1>7, <3>1, <3>2
  <2>3. QED
    BY <1>6, <2>1, <2>2
<1>8. CASE UNCHANGED bo
  BY <1>6, <1>8 DEF bo
<1>9. CASE Offer!Next
  <2>1. \/ \E r \in Runners : Offer!Batch(r)
        \/ \E n \in DOMAIN log : Offer!FailedCallback(n) \/ \E e : Offer!EventCallback(n, e)
        \/ \E u \in Users : Others(u)
    BY <1>9 DEF Offer!Next, Others
  <2>2. ASSUME NEW r \in Runners, Offer!Batch(r)
        PROVE  AllCounted'
    BY <2>2, <1>1, <1>2, <1>3, <1>4, <1>5, BeginCounted, SentCounted DEF Offer!Batch
  <2>3. QED
    BY <2>1, <2>2, <1>7, OtherCounted
<1>10. QED
  BY <1>8, <1>9

-----------------------------------------------------------------------------
\* A batch that closes or fails counts what it handed over, or a fault does.
LEMMA DayKept ==
    ASSUME OfferTypes, OfferTypes', MaxPerDay # 0, \A q \in Runners : DayCounted(q), [Offer!Next]_bo
    PROVE  \A q \in Runners : DayCounted(q)'
<1>0. RunTypes /\ SubTypes /\ LogTypes /\ CountTypes /\ LetterIsFresh /\ MaxPerDay \in Nat /\ faults \in Nat
  BY ServicesAssumption DEF OfferTypes, CountTypes
<1>1. ASSUME NEW q \in Runners
      PROVE  handed[q] \in Nat /\ run[q].sent \in Nat
  BY <1>0 DEF CountTypes, RunTypes, RunRows
\* A batch that does not move.
<1>2. ASSUME NEW q \in Runners, run'[q] = run[q], handed'[q] = handed[q], faults' = faults \/ faults' = faults + 1
      PROVE  DayCounted(q)'
  <2>1. DayCounted(q)
    OBVIOUS
  <2>2. /\ handed[q] <= MaxPerDay + faults'
        /\ run[q].pc # "idle" => handed[q] <= run[q].sent + faults' + IF run[q].pc = "close" THEN 1 ELSE 0
    BY <1>0, <1>1, <1>2, <2>1 DEF DayCounted
  <2>3. QED
    BY <1>2, <2>1, <2>2 DEF DayCounted
<1>3. ASSUME NEW r \in Runners, NEW pc, NEW todo, NEW user, NEW sent \in Nat, NEW number, NEW k \in Nat,
             Moved(r, pc, todo, user, sent, number), handed' = [handed EXCEPT ![r] = k],
             faults' = faults \/ faults' = faults + 1,
             k <= MaxPerDay + faults',
             pc # "idle" => k <= sent + faults' + IF pc = "close" THEN 1 ELSE 0,
             sent <= MaxPerDay, pc \in {"insert", "send", "close"} => sent < MaxPerDay
      PROVE  \A q \in Runners : DayCounted(q)'
  <2>1. DayCounted(r)'
    <3>1. handed'[r] = k /\ run'[r].pc = pc /\ run'[r].sent = sent
      BY <1>0, <1>3 DEF Moved, CountTypes
    <3>2. QED
      BY <1>3, <3>1 DEF DayCounted
  <2>2. ASSUME NEW q \in Runners, q # r
        PROVE  DayCounted(q)'
    BY <1>0, <1>2, <1>3, <2>2 DEF Moved, CountTypes
  <2>3. QED
    BY <2>1, <2>2
\* A step of a batch that hands over nothing.
<1>4. ASSUME NEW r \in Runners, NEW pc, NEW todo, NEW user, NEW sent \in Nat, NEW number,
             Moved(r, pc, todo, user, sent, number), handed' = handed,
             faults' = faults \/ faults' = faults + 1,
             pc # "idle" => handed[r] <= sent + faults' + IF pc = "close" THEN 1 ELSE 0,
             sent <= MaxPerDay, pc \in {"insert", "send", "close"} => sent < MaxPerDay
      PROVE  \A q \in Runners : DayCounted(q)'
  <2>1. handed' = [handed EXCEPT ![r] = handed[r]]
    BY <1>0, <1>4 DEF CountTypes
  <2>2. handed[r] <= MaxPerDay + faults'
    BY <1>0, <1>1, <1>4 DEF DayCounted
  <2>3. QED
    BY <1>1, <1>3, <1>4, <2>1, <2>2
<1>5. ASSUME NEW r \in Runners
      PROVE  /\ handed[r] <= MaxPerDay + faults
             /\ run[r].pc # "idle" => handed[r] <= run[r].sent + faults + IF run[r].pc = "close" THEN 1 ELSE 0
             /\ run[r].sent <= MaxPerDay
             /\ run[r].pc \in {"insert", "send", "close"} => run[r].sent < MaxPerDay
  BY DEF DayCounted
<1>6. ASSUME NEW r \in Runners, Offer!BeginBatch(r)
      PROVE  \A q \in Runners : DayCounted(q)'
  <2>1. Moved(r, "loop", {u \in Users : Offer!Candidate(u)}, None, 0, 0)
    BY <1>0, <1>6, BeginMoves
  <2>2. handed' = [handed EXCEPT ![r] = 0] /\ (faults' = faults \/ faults' = faults + 1)
    BY <1>6 DEF Offer!BeginBatch, Offer!Fault
  <2> DEFINE S == {u \in Users : Offer!Candidate(u)}
  <2>3. Moved(r, "loop", S, None, 0, 0)
    BY <2>1
  <2> HIDE DEF S
  <2>4. 0 <= MaxPerDay + faults' /\ 0 <= 0 + faults' + 0 /\ 0 <= MaxPerDay
    BY <1>0, <2>2
  <2>5. QED
    BY <1>3, <2>2, <2>3, <2>4
<1>7. ASSUME NEW r \in Runners, Offer!EndBatch(r) \/ Offer!BatchDies(r)
      PROVE  \A q \in Runners : DayCounted(q)'
  <2>1. Moved(r, "idle", {}, None, 0, 0)
    BY <1>0, <1>7, EndMoves
  <2>2. handed' = handed /\ (faults' = faults \/ faults' = faults + 1)
    BY <1>7 DEF Offer!EndBatch, Offer!BatchDies, Offer!Fault
  <2>3. QED
    BY <1>0, <1>4, <2>1, <2>2
<1>8. ASSUME NEW r \in Runners, Offer!Choose(r)
      PROVE  \A q \in Runners : DayCounted(q)'
  <2>1. PICK u \in run[r].todo, pc \in {"loop", "insert"} :
          Moved(r, pc, run[r].todo \ {u}, u, run[r].sent, run[r].letter)
    BY <1>0, <1>8, ChooseMoves
  <2>2. handed' = handed /\ faults' = faults /\ run[r].pc = "loop" /\ run[r].sent < MaxPerDay
    BY <1>0, <1>1, <1>8 DEF Offer!Choose, Offer!DayIsOver
  <2>3. handed[r] <= run[r].sent + faults' + IF pc = "close" THEN 1 ELSE 0
    BY <1>5, <2>1, <2>2
  <2>4. QED
    BY <1>1, <1>4, <1>5, <2>1, <2>2, <2>3
<1>9. ASSUME NEW r \in Runners, Offer!InsertLog(r)
      PROVE  \A q \in Runners : DayCounted(q)'
  <2>1. Moved(r, "send", run[r].todo, run[r].user, run[r].sent, Len(log) + 1)
    BY <1>0, <1>9, InsertMoves
  <2>2. handed' = handed /\ faults' = faults /\ run[r].pc = "insert"
    BY <1>9 DEF Offer!InsertLog
  <2>3. QED
    BY <1>1, <1>4, <1>5, <2>1, <2>2
<1>10. ASSUME NEW r \in Runners, Offer!MailAccepted(r) \/ Offer!MailFailed(r)
       PROVE  \A q \in Runners : DayCounted(q)'
  <2>1. /\ run[r].pc = "send"
        /\ \/ UNCHANGED <<handed, faults>> /\ run' = [run EXCEPT ![r].pc = "loop"]
           \/ HandOver(r) /\ faults' = faults + 1 /\ run' = [run EXCEPT ![r].pc = "loop"]
           \/ HandOver(r) /\ faults' = faults /\ run' = [run EXCEPT ![r].pc = "close"]
    BY <1>10, Sends
  <2>2. ASSUME NEW stage \in {"loop", "close"}, run' = [run EXCEPT ![r].pc = stage]
        PROVE  Moved(r, stage, run[r].todo, run[r].user, run[r].sent, run[r].letter)
    BY <1>0, <2>2, StageMoves
  <2>3. CASE UNCHANGED <<handed, faults>> /\ run' = [run EXCEPT ![r].pc = "loop"]
    <3>1. Moved(r, "loop", run[r].todo, run[r].user, run[r].sent, run[r].letter)
      BY <2>2, <2>3
    <3>2. QED
      BY <1>1, <1>4, <1>5, <2>1, <2>3, <3>1
  <2>4. CASE HandOver(r) /\ faults' = faults + 1 /\ run' = [run EXCEPT ![r].pc = "loop"]
    <3>1. Moved(r, "loop", run[r].todo, run[r].user, run[r].sent, run[r].letter)
      BY <2>2, <2>4
    <3>2. handed' = [handed EXCEPT ![r] = handed[r] + 1]
      BY <2>4 DEF HandOver
    <3>3. /\ handed[r] + 1 \in Nat /\ handed[r] + 1 <= MaxPerDay + faults'
          /\ handed[r] + 1 <= run[r].sent + faults' + 0
      BY <1>0, <1>1, <1>5, <2>1, <2>4
    <3>4. QED
      BY <1>1, <1>3, <1>5, <2>4, <3>1, <3>2, <3>3
  <2>5. CASE HandOver(r) /\ faults' = faults /\ run' = [run EXCEPT ![r].pc = "close"]
    <3>1. Moved(r, "close", run[r].todo, run[r].user, run[r].sent, run[r].letter)
      BY <2>2, <2>5
    <3>2. handed' = [handed EXCEPT ![r] = handed[r] + 1]
      BY <2>5 DEF HandOver
    <3>3. /\ handed[r] + 1 \in Nat /\ run[r].sent < MaxPerDay
          /\ handed[r] + 1 <= run[r].sent + faults' + 1
      BY <1>0, <1>1, <1>5, <2>1, <2>5
    <3>4. handed[r] + 1 <= MaxPerDay + faults'
      BY <1>0, <1>1, <2>5, <3>3
    <3>5. QED
      BY <1>1, <1>3, <1>5, <2>5, <3>1, <3>2, <3>3, <3>4
  <2>6. QED
    BY <2>1, <2>3, <2>4, <2>5
<1>11. ASSUME NEW r \in Runners, Offer!Close(r)
       PROVE  \A q \in Runners : DayCounted(q)'
  <2>1. Moved(r, "loop", run[r].todo, run[r].user, run[r].sent + 1, run[r].letter)
    BY <1>0, <1>11, CloseMoves
  <2>2. handed' = handed /\ faults' = faults /\ run[r].pc = "close"
    BY <1>11 DEF Offer!Close
  <2>3. /\ run[r].sent + 1 \in Nat /\ run[r].sent + 1 <= MaxPerDay
        /\ handed[r] <= (run[r].sent + 1) + faults' + 0
    BY <1>0, <1>1, <1>5, <2>2
  <2>4. QED
    BY <1>4, <2>1, <2>2, <2>3
<1>12. ASSUME NEW r \in Runners, Offer!Raises(r)
       PROVE  \A q \in Runners : DayCounted(q)'
  <2>1. /\ run[r].pc \in {"insert", "send", "close"} /\ run' = [run EXCEPT ![r].pc = "loop"]
        /\ handed' = handed /\ faults' = faults + 1
    BY <1>12 DEF Offer!Raises, Offer!Fault
  <2>2. Moved(r, "loop", run[r].todo, run[r].user, run[r].sent, run[r].letter)
    BY <1>0, <2>1, StageMoves
  <2>3. handed[r] <= run[r].sent + faults' + 0
    BY <1>0, <1>1, <1>5, <2>1
  <2>4. QED
    BY <1>1, <1>4, <1>5, <2>1, <2>2, <2>3
<1>13. ASSUME UNCHANGED <<run, handed, faults>>
       PROVE  \A q \in Runners : DayCounted(q)'
  BY <1>2, <1>13
<1>14. CASE Offer!Next
  <2>1. \/ \E r \in Runners : Offer!Batch(r)
        \/ \E n \in DOMAIN log : Offer!FailedCallback(n) \/ \E e : Offer!EventCallback(n, e)
        \/ \E u \in Users : Others(u)
    BY <1>14 DEF Offer!Next, Others
  <2>2. ASSUME NEW r \in Runners, Offer!Batch(r)
        PROVE  \A q \in Runners : DayCounted(q)'
    BY <2>2, <1>6, <1>7, <1>8, <1>9, <1>10, <1>11, <1>12 DEF Offer!Batch
  <2>3. ASSUME NEW n, NEW e, Offer!FailedCallback(n) \/ Offer!EventCallback(n, e)
        PROVE  \A q \in Runners : DayCounted(q)'
    BY <1>13, <2>3 DEF Offer!FailedCallback, Offer!EventCallback
  <2>4. ASSUME NEW u \in Users, Others(u)
        PROVE  \A q \in Runners : DayCounted(q)'
    BY <1>0, <1>13, <2>4, OtherTimes
  <2>5. QED
    BY <2>1, <2>2, <2>3, <2>4
<1>15. CASE UNCHANGED bo
  BY <1>13, <1>15 DEF bo
<1>16. QED
  BY <1>14, <1>15

LEMMA DaysKept ==
    ASSUME OfferTypes, OfferTypes', DaysCounted, [Offer!Next]_bo
    PROVE  DaysCounted'
<1>1. CASE MaxPerDay = 0
  BY <1>1 DEF DaysCounted
<1>2. CASE MaxPerDay # 0
  BY <1>2, DayKept DEF DaysCounted
<1>3. QED
  BY <1>1, <1>2

-----------------------------------------------------------------------------
\* Of a step of the services, the mailing sees its own steps or none.
LEMMA OfferAlone == ASSUME [Next]_vars PROVE [Offer!Next]_bo
BY DEF Next, vars, bo, OfferStep, ChoiceStep, MailboxStep, WheelStep, AttributionStep, TemplateStep,
       CatalogueStep, PictureStep, MailStep, SettingsStep

OfferInv == OfferTypes /\ AllCapped /\ AllCounted /\ DaysCounted

LEMMA OfferInvAlways == Spec => []OfferInv
<1>1. Init => OfferInv
  BY OfferBegins DEF Init, OfferInv
<1>2. OfferInv /\ [Next]_vars => OfferInv'
  BY OfferAlone, OfferTyped, CapKept, CountKept, DaysKept DEF OfferInv
<1>3. QED
  BY <1>1, <1>2, PTL DEF Spec

\* Within one interval a customer gets one Best Offer letter, and one more for
\* each death, exception, lost answer or overlapping batch, however many
\* batches run and callbacks come: the timers of the closing transaction and
\* the batches that have not reached it add up (best_offer._send_one).
THEOREM OneOfferAnInterval == Spec => []OncePerInterval
<1>1. OfferInv => OncePerInterval
  <2> SUFFICES ASSUME OfferInv, NEW u \in Users PROVE Offer!Cardinality(period[u]) <= 1 + faults
    BY DEF OncePerInterval, Offer!OncePerInterval
  <2>1. /\ Cardinality(May(u)) \in Nat /\ Cardinality(period[u]) \in Nat /\ faults \in Nat
        /\ Weight(u) = Cardinality(period[u]) + Cardinality(May(u))
    BY CountsAreNat DEF OfferInv
  <2>2. Weight(u) <= faults + 1
    BY DEF OfferInv, AllCapped, Capped
  <2>3. Cardinality(period[u]) <= 1 + faults
    BY <2>1, <2>2
  <2>4. QED
    BY <2>3, SameCount
<1>2. QED
  BY OfferInvAlways, <1>1, PTL

\* After an unsubscription only the batches that had selected the customer
\* before can still write to him, each of them once.
THEOREM UnsubscribedIsFinal == Spec => []LateLettersBounded
<1>1. OfferInv => LateLettersBounded
  <2> SUFFICES ASSUME OfferInv, NEW u \in Users, opened[u] >= 0 PROVE late[u] <= opened[u]
    BY DEF LateLettersBounded, Offer!LateLettersBounded
  <2>1. Cardinality(May(u)) \in Nat /\ late[u] \in Nat /\ opened[u] \in Int
    BY MayIsFinite DEF OfferInv, OfferTypes, CountTypes
  <2>2. late[u] + Cardinality(May(u)) <= opened[u]
    BY DEF OfferInv, AllCounted, LateCounted
  <2>3. QED
    BY <2>1, <2>2
<1>2. QED
  BY OfferInvAlways, <1>1, PTL

\* A batch hands over no more than max_per_day letters, and one more for each
\* letter it does not know it sent.
THEOREM DayIsKept == Spec => []DayLimit
<1>1. OfferInv => DayLimit
  BY DEF OfferInv, DaysCounted, DayCounted, DayLimit, Offer!DayLimit
<1>2. QED
  BY OfferInvAlways, <1>1, PTL

=============================================================================
