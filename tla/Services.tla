------------------------------- MODULE Services -------------------------------
(***************************************************************************)
(* The services around the post-sale and cart mailings, side by side: the  *)
(* Best Offer batches, the rows of a mailbox, the wheel, attribution, the  *)
(* template library, the catalogue with its top lists, the picture cache,  *)
(* the mail transports and the settings, and the choice of products for a  *)
(* letter.  Each has its tables and memory to itself, so a step of the     *)
(* whole is a step of one of them.                                         *)
(***************************************************************************)
EXTENDS Integers, Sequences, FiniteSets

CONSTANTS
    None, Gone, Miss, Bad, Empty,   \* null and its kin, see the modules
    Runners, Threads, Ticks,        \* processes, threads, ticks of the worker
    Admins, Requests,               \* concurrent requests: of admins, for a prize
    Users, Catalogue, LastCategory, ItemsLimit, LastN, MaxPerDay, Tracked, \* BestOffer
    Shops, Customers,                                                      \* LetterChoice
    Codes,                                                                 \* WheelPrize
    Letters, Orders, Window, Grace,                                        \* Attribution
    TemplateIds, Scenarios,                                                \* Templates
    Products, Cats, Listings, Files, PageSize, TopN, SortOrders,           \* Catalog
    Names, Exts,                                                           \* ImageCache
    Batches,                                                               \* MailTransports
    Urls, Numbers, Patches, EnvOnec,                                       \* Settings
    MaxLetters, BatchFaults, MaxRequests, PrizeFaults, Horizon, MaxOverlaps, CatalogueChanges,
    FileChanges, ProbeFaults, MaxPresses, MailFaults, MaxSaves, MaxStarts  \* bounds

VARIABLES
    subs, log, held, run, period, opened, late, handed, faults,             \* BestOffer
    choice,                                                                 \* LetterChoice
    row, cooling, asked, fed, after,                                        \* Subscribers
    spun, slot, prizeReq, mails, requests, lost, deaths,                    \* WheelPrize
    now, order, letter, attRun, clicks, attOverlaps,                        \* Attribution
    tpl, req,                                                               \* Templates
    listing, products, cats, top5, sold, writer, fileAnswer, catChanges,    \* Catalog
    cdn, resolved, thread, answer, changes, softFaults,                     \* ImageCache
    env, provider, mta, job, reply, copies, real, presses, mailFaults,      \* MailTransports
    saved, site, onec, admin, tick, catalogue, interval, since, saves, starts, aborted, overlaps, loaded \* Settings

-----------------------------------------------------------------------------
Offer == INSTANCE BestOffer WITH MaxFaults <- BatchFaults
Pick == INSTANCE LetterChoice
Sub == INSTANCE Subscribers
Wheel == INSTANCE WheelPrize WITH MaxFaults <- PrizeFaults, req <- prizeReq
Att == INSTANCE Attribution WITH run <- attRun, overlaps <- attOverlaps
Tpl == INSTANCE Templates WITH Ids <- TemplateIds, Services <- Scenarios, Requests <- Admins
Cat == INSTANCE Catalog WITH
    MaxChanges <- CatalogueChanges, run <- writer, answer <- fileAnswer, changes <- catChanges
Img == INSTANCE ImageCache WITH MaxChanges <- FileChanges, MaxFaults <- ProbeFaults, faults <- softFaults
Mail == INSTANCE MailTransports WITH MaxFaults <- MailFaults, handed <- copies, faults <- mailFaults
Set == INSTANCE Settings

\* Null is no code, order, template, scenario or row, and a draft is not a deleted template; the
\* loop of the catalogue is none of the ticks; PUT /settings does not take the address of 1C;
\* there are extensions, and a miss is none; an empty batch is refused; a page has items, and a
\* category of a feed a positive place; what is counted is finite.
ASSUME ServicesAssumption ==
    /\ None \notin Codes /\ None \notin Orders /\ None \notin TemplateIds /\ {None, Gone} \intersect Scenarios = {}
    /\ None # Gone
    /\ "catalogue" \notin Ticks
    /\ \A p \in Patches : p \in Seq(Set!Entries)
    /\ Exts \in Seq(STRING) /\ Exts # <<>> /\ Miss \notin STRING
    /\ \A b \in Batches : b \in Seq(BOOLEAN) /\ b # <<>>
    /\ IsFiniteSet(Runners) /\ IsFiniteSet(TemplateIds)
    /\ MaxPerDay \in Nat

\* A line of a file may lack its id or its category; a line of a feed has both, or the schema of
\* the request refuses it.
ASSUME CatalogueAssumption ==
    /\ IsFiniteSet(Products) /\ Products \subseteq Nat /\ IsFiniteSet(Cats) /\ None \notin Cat!Rows
    /\ SortOrders \subseteq Nat \ {0} /\ PageSize \in Nat \ {0} /\ TopN \in Nat /\ CatalogueChanges \in Nat
    /\ \A l \in Listings : l \in Seq(Cat!Items)
    /\ \A f \in Files :
          /\ f.rows \in Seq(Cat!Lines) /\ f.declared \in Seq([cat : Cats])
          /\ IsFiniteSet(f.top5) /\ f.top5 \subseteq Cat!Places
          /\ f.format = "feed" => \A n \in DOMAIN f.rows : f.rows[n].id # None /\ f.rows[n].cat # None

\* Catalogues have their keys, and the category of a purchase exists; a letter has room for a
\* product (limit = max(1, ...)).
ASSUME ChoiceAssumption ==
    /\ Pick!IsCatalogue(Catalogue) /\ Catalogue.order # <<>>
    /\ LastCategory \in [Users -> Pick!ToSet(Catalogue.order) \union {None}] /\ ItemsLimit \in Nat \ {0}
    /\ \A shop \in Shops : /\ Pick!IsCatalogue(shop) /\ shop # None
                          /\ shop.price \in [Pick!ToSet(shop.shelf) -> Int]
    /\ \A c \in Customers : Pick!IsCustomer(c)

\* The bounds of the histories, and the length of the clock.
ASSUME BoundsAssumption ==
    /\ {MaxLetters, BatchFaults, MaxRequests, PrizeFaults, MaxOverlaps, FileChanges, ProbeFaults,
        MaxPresses, MailFaults, MaxSaves, MaxStarts} \subseteq Nat
    /\ Horizon \in Nat \ {0}

-----------------------------------------------------------------------------
bo == <<subs, log, held, run, period, opened, late, handed, faults>>
su == <<row, cooling, asked, fed, after>>
wh == <<spun, slot, prizeReq, mails, requests, lost, deaths>>
at == <<now, order, letter, attRun, clicks, attOverlaps>>
tp == <<tpl, req>>
ct == <<listing, products, cats, top5, sold, writer, fileAnswer, catChanges>>
im == <<cdn, resolved, thread, answer, changes, softFaults>>
mt == <<env, provider, mta, job, reply, copies, real, presses, mailFaults>>
st == <<saved, site, onec, admin, tick, catalogue, interval, since, saves, starts, aborted, overlaps, loaded>>
vars == <<bo, choice, su, wh, at, tp, ct, im, mt, st>>

Init == /\ Offer!Init /\ Pick!Init /\ Sub!Init /\ Wheel!Init /\ Att!Init /\ Tpl!Init
        /\ Cat!Init /\ Img!Init /\ Mail!Init /\ Set!Init

OfferStep == Offer!Next /\ UNCHANGED <<choice, su, wh, at, tp, ct, im, mt, st>>
ChoiceStep == Pick!Next /\ UNCHANGED <<bo, su, wh, at, tp, ct, im, mt, st>>
MailboxStep == Sub!Next /\ UNCHANGED <<bo, choice, wh, at, tp, ct, im, mt, st>>
WheelStep == Wheel!Next /\ UNCHANGED <<bo, choice, su, at, tp, ct, im, mt, st>>
AttributionStep == Att!Next /\ UNCHANGED <<bo, choice, su, wh, tp, ct, im, mt, st>>
TemplateStep == Tpl!Next /\ UNCHANGED <<bo, choice, su, wh, at, ct, im, mt, st>>
CatalogueStep == Cat!Next /\ UNCHANGED <<bo, choice, su, wh, at, tp, im, mt, st>>
PictureStep == Img!Next /\ UNCHANGED <<bo, choice, su, wh, at, tp, ct, mt, st>>
MailStep == Mail!Next /\ UNCHANGED <<bo, choice, su, wh, at, tp, ct, im, st>>
SettingsStep == Set!Next /\ UNCHANGED <<bo, choice, su, wh, at, tp, ct, im, mt>>

Next == \/ OfferStep \/ ChoiceStep \/ MailboxStep \/ WheelStep \/ AttributionStep \/ TemplateStep
        \/ CatalogueStep \/ PictureStep \/ MailStep \/ SettingsStep

Spec == Init /\ [][Next]_vars

-----------------------------------------------------------------------------
TypesOK == /\ Offer!TypeOK /\ Sub!TypeOK /\ Wheel!TypeOK /\ Att!TypeOK /\ Tpl!TypeOK
           /\ Cat!TypeOK /\ Img!TypeOK /\ Mail!TypeOK /\ Set!TypeOK

\* The properties are those of the modules, where they are explained.

\* One Best Offer letter in an interval, one more for each fault.
OncePerInterval == Offer!OncePerInterval

\* A batch keeps to max_per_day, but for letters it does not know of.
DayLimit == Offer!DayLimit

\* Letters after an unsubscription come from batches that had begun.
LateLettersBounded == Offer!LateLettersBounded

\* Nor from pings and the wheel: a second row or a later feed is needed.
LateNeedsTwinOrFeed == Sub!LateNeedsTwinOrFeed

\* The rotation over the categories is fair, and no customer is passed over for nothing.
FairRotation == Pick!RotationIsFair

\* The cross-sell is fair, and shows nothing bought, sold out or dead.
FairCrossSell == Pick!CrossSellIsFair

\* One prize letter, one more for each lost answer.
OnePrizeLetter == Wheel!OnePrizeLetter

\* A taken prize slot stands for a letter with its code.
SlotHasLetter == Wheel!SlotHasLetter

\* One order is credited to one letter unless runs overlap.
OneOrderOneLetter == Att!OneOrderOneLetter

\* Credit needs a click within the window before the order.
CreditIsEarned == Att!CreditIsEarned

\* Concurrent admins lose an active template only by removing or overtaking one.
ActiveLostOnlyByRemoval == Tpl!ActiveLostOnlyByRemoval

\* An undisturbed pull brings over all of 1C's catalogue.
SyncIsComplete == Cat!SyncIsComplete

\* Tidying the top lists keeps products with a picture, and their order.
TidyingKeepsLists == Cat!TidyingKeepsLists

\* A file that parses fails in the database only because of another writer.
ParsedFileFits == Cat!ParsedFileFits

\* A picture is given up for good only on proof.
MissNeedsProof == Img!MissNeedsProof

\* Repeating what was answered "not ok" duplicates a letter only after a fault.
RepeatsAreExplained == Mail!RepeatsAreExplained

\* The answer of a batch accounts for every message, and "live" is no pretence.
AnswerIsTrue == Mail!AnswerIsTrue

\* Ticks and pulls use addresses saved at some time since they began.
TicksUseSaved == Set!TicksUseSaved

\* Between requests the web process has what is saved, 1C once it was loaded.
PanelShowsSaved == Set!PanelShowsSaved
=============================================================================
