# TLA+ model of the mailing service

The repository is a service that writes e-mails to a shop's customers in three
scenarios: *post-sale* letters some days after an order, *abandoned cart*
letters some minutes after a customer has left, and a periodic *best offer*.
`app/` is the application (API, ticks, admin panel, PostgreSQL);
`mailer-service/` is a separate service that queues letters in SQLite and hands
them to an SMTP provider. The two talk over HTTP: `POST /v1/send` in one
direction, best-effort callbacks (`sent`, `failed`, provider events) to
`POST /esp/webhook` in the other.

What can go wrong is between the parts: two ticks at once, a crash between
hand-over and bookkeeping, a lost answer, a callback that comes late, twice or
never; and, around the mailings, several admins, requests and processes that
share tables and caches statement by statement. This directory models that in
TLA+: sixteen modules checked by TLC on small instances, and thirty-seven theorems
checked by TLAPS for every value of the constants.

## Inventory

| Component | State | Operations | What is hard | What makes it correct |
|---|---|---|---|---|
| Post-sale (`app/postsale.py`) | `send_queue`, `email_log`, `subscribers.last_*` | `enqueue_for_orders`, `run_due`, `_process_one` | ticks overlap (worker, cron, admin), row locks end with the SELECT, crash between send and commit | one letter per order, one trigger a day but for named mishaps, bounded retries, every job settles |
| Rollback (`app/analytics.py`) | the same tables | `esp_webhook`, `rollback_failed_send` | four separate statements racing with ticks and repeated callbacks | undoes what the failed letter did and nothing else |
| Cart (`app/cart.py`) | `cart_sessions`, `orders`, timers | `cart_ping`, `order_post`, `run_due`, `_process` | stale snapshots, late pings, 1C later than the shop, failed letters reopening sessions | one letter per cooldown, no letter to a buyer, departed carts settle |
| Mail service (`mailer-service/app`) | `outbox` | accept, worker, SMTP, callbacks, provider webhook | crash between SMTP and the database, lost replies, a task that ends silently | letters settle once, reports are true, sends and copies bounded |
| Best Offer (`app/best_offer.py`, `product_pick.py`) | timers, rotation pointer, `email_log` | `run_batch`, `_send_one`, the choice of products | stale candidate list, daily maximum per batch, overlapping batches, callbacks | one letter an interval, no repeated product, a fair rotation |
| Subscribers (`app/cart.py`, `feeds.py`, `analytics.py`) | the rows of one mailbox | consent, wheel lead, feed, unsubscription | two rows of one mailbox, old feed rows | an unsubscription is not lost |
| Wheel (`app/cart.py`) | `wheel_spun_at`, `wheel_prize_code` | `wheel_lead`, `wheel_prize` | claim, send, release | one prize letter per e-mail; a taken slot has its letter |
| Attribution (`app/analytics.py`) | `clicked_at`, `attributed_order_id` | tracking events, `run_attribution` | concurrent runs, late clicks | one order, one letter, earned by a click |
| Templates (`app/admin.py`) | `email_templates` | create, attach, activate, delete | several admins between two statements | a scenario loses its template only by a removal or a stale look |
| Catalogue (`app/onec.py`, `import_*.py`, `feeds.py`, `admin.py`) | products, categories, `top5_by_category` | paged pull, files, feeds, computing and tidying the top-5 | several writers, unique keys, two-statement edits | a pull is complete, a parsed file fits, tidying loses nothing |
| Images (`app/images.py`) | `_resolved`, shared by threads | lookups, `/img`, warm-up | files that come and go, timeouts, threads | nothing is given up for good without proof |
| Mail transports (`app/mailer.py`, `admin.py`) | configuration | `get_mailer`, `send_batch`, single letters, test letters | partial failure, lost answers | the admin is told the truth, repeats are explained |
| Settings (`app/app_settings.py`, `svc_config.py`, `onec.py`) | `app_config`, module globals in two processes | `set_many`, `load_site`, `load_overrides`, start of either process | caches, half-done requests, ticks that share a global, a start that loads half | ticks use what was saved, the panel shows what is saved |
| Shop scripts (`app/static`) | cookie, timer | ping, order | tabs, visibility | no ping without a cart |
| Auth, activity log, diagnostics, deployment | - | - | - | - |

`PROJECT.json` lists every component with its status and every hazard with its
line.

## Modules

| Module | Models | Composition |
|---|---|---|
| `PostsaleQueue` | post-sale queue, ticks, log, rollback; the mail service as the fate of each letter | |
| `MCPostsaleQueue`, `MCPostsaleOverlap` | its instances for TLC, alone and several in one run | extend `PostsaleQueue` |
| `PostsaleQueueProofs` | its theorems | extends `PostsaleQueue` |
| `LetterService` | abstract: what the application relies on in the mail service | |
| `MailerOutbox` | the mail service in detail | instantiates `LetterService` with `status` = the state column |
| `MCMailerOutbox`, `MailerOutboxProofs` | instances and theorems | extend `MailerOutbox` |
| `CartRecovery`, `MCCartRecovery` | sessions, ticks, orders, rollback of cart letters | |
| `CartRecoveryProofs` | its theorems | extends `CartRecovery` |
| `ProductPick` | the choice of products as pure operators, with what it promises stated over sets | |
| `LetterChoice` | one choice, for any catalogue and customer | extends `ProductPick` |
| `BestOffer`, `MCBestOffer` | the batch, its callbacks, the timers | extends `ProductPick` |
| `Subscribers` | the rows of one mailbox | |
| `WheelPrize` | the wheel's letter | |
| `Attribution` | clicks, orders, attribution runs | |
| `Templates` | the template library | |
| `Catalog` | products, categories, top-5 and their writers | |
| `ImageCache` | lookups of pictures | |
| `MailTransports` | transports and the answers of the panel | |
| `Settings` | saved settings and the copies in two processes | |
| `Services` | the services around the mailings, side by side | instantiates `LetterChoice`, `BestOffer` and the eight modules above |
| `MCServices` | its instance for TLC: one service at a time | extends `Services` |
| `CustomerProofs` | theorems about the mailbox, the wheel, attribution and the Best Offer batches | extends `Services` |
| `PanelProofs` | theorems about templates, settings and the mail transports | extends `Services` |
| `SupplyProofs` | theorems about pictures, the catalogue and its top lists | extends `Services` |
| `PickProofs` | theorems about the choice of products | extends `Services` |
| `TypeProofs` | the types of all services together | extends the four modules above |

In `Services` every step is a step of one service while the others stand still:
they share no tables and no memory. Its specification puts no bound on what may
run beside what, so a theorem about it holds whatever the other services do.

The application's two modules use the mail service as a letter that is queued,
then sent or failed, with reports that may repeat or never come. That is what
`LetterService` says, and `MailerOutbox` is shown to implement it.

A definition marked *Mutant* in a comment is not part of the model: it is a
plausible bug, kept beside the definition it would replace, and used to see that
the property it is paired with in `PROJECT.json` notices it.

### PostsaleQueue

One action per database statement or external call that others can see:
`FeedOrder`/`PostOrder` and `Enqueue` are the two INSERTs of an order and its
job; a runner goes `BeginTick` (the snapshot of `run_due`), `Check` (all early
returns of `_process_one`, in their order, as `Verdicts`), `InsertLog`,
`MailAccepted`/`MailRefused`/`ReplyLost`, `Close` or `Undo` and `Bump`. `cur[r]`
holds the attempts read in the selection, so `_bump_attempt` writes stale values
as the code does. `Raises` is any statement that throws inside `_process_one`,
`RunnerDies` the end of the process or connection. A webhook handler goes
`FailedCallback`, `ReadLog`, `ResetTimers`, `Reschedule`, `DeleteFailed`. The other
scenarios are seen in `last_any_trigger_at` alone: one of their letters overwrites it
(`OtherScenarioSends`; the cart does not look at the day) and may fail afterwards
(`OtherScenarioFails`), when the rollback clears what a post-sale letter had left there.
`mishaps` is history: the customers for whom something has happened today after which
the daily limit need not hold.

Abstracted: letters are (order, generation of the log row); product selection
survives or not, chosen freely; time is `ripe`, `deferred` and `today`. A job put
off by 24 hours returns at midnight in the model, never later than in the code,
and the timer that blocks it has also been cleared by then.

### MailerOutbox

The worker goes `Poll`, `Take` (an SMTP dialogue begins), `ProviderTakes`,
`SendReturns`/`SendRaises`/`ReplyLost`, `MarkSent`/`MarkFails` or `CountFailure`,
`Report` (repeatable: three tries of the callback), `EndReport`, `Pause`.
Requests and provider events interleave with it at every await. `WorkerStops` is
a statement outside the `try`: the task ends and the process lives on with
`pc = "dead"`. `sends` and `copies` are history: dialogues begun, and those in
which the provider took the letter.

### CartRecovery

`Ping`, the two statements of `POST /order` (`ReportOrder`, `InsertOrder`), the
feed, and 1C learning of an order are the outside; a tick goes `BeginTick`
(departure), `Select` (snapshot), `Gate` (`cart_gate` as `Verdicts`), `Recheck`
(the second order check), `InsertLog`, the mail, `Close`. `OrderPlaced` is a set
of answers: the local table's, or 1C's if configured (a failing 1C falls back).
A session is closed from the snapshot, whatever a ping has made of it. Rollback
is `FailedCallback`, `ResetTimers`, `Reopen`, the last for every sent session
of the customer. Log rows whose part is over are recycled (`Free`), which keeps
the state space finite without bounding the ticks; `Gate` reads subscriber and
order in one step, as nothing is written between the two reads and the mail step
comes much later anyway.

### The modules around the mailings

`BestOffer` has the steps of a batch (`BeginBatch` reads the candidates once,
`Choose`, `InsertLog`, `MailAccepted` or `MailFailed`, `Close`, `Raises`,
`BatchDies`) beside callbacks, unsubscriptions and other letters. Its products
come from `ProductPick`, which is the code's algorithm on lists:
`rotate_and_pick`, the fallback to the whole catalogue, `pick_cross_sell`, and the
filters that drop what is sold out or has no live picture. The loops of the code
are a few operators (`InOrder`, `Keep`, `Joined`, `rotate_ids`, `Take`) that say which
element stands at which place and do not recurse, so that they can be reasoned
about. `FairRotation`, `FairCrossSell` and `NothingToShow` say over sets what the
choice must return; `LetterChoice` makes it one step, for any catalogue and customer.

`Subscribers` follows one mailbox, which may own the row of the customer number
and the row `anon:<e-mail>`. `WheelPrize` has the claim, the letter and the
release of the slot as steps of concurrent requests. `Attribution` keeps the dates
of all clicks as history beside the last one, which is all the code keeps.

`Templates` splits `create_template`, `attach_template` and `activate_template` where
the code reads before it writes, also inside their transactions: under READ COMMITTED
another request may commit between two statements of one. The rows a transaction has
written are locked (`Free`), the unique index refuses a statement (`Commit`), and a
transaction may be rolled back (`ActivateFails`: a deadlock, a lost connection).
`Catalog` has the pull page by page with the category insert as a read and a
write, the file imports and feeds as one transaction after a read, and the
two statements of the panel that tidy a top list; the second may fail half way
because the primary key is checked row by row. `clean` is history: nobody else
wrote since the pull or import began.

`ImageCache` has the lookups of several threads, extension by extension.
`MailTransports` has the transport chosen by the configuration, each letter of a
batch, and the answers the panel gives. `Settings` has `set_many` key by key,
`load_site` and `load_overrides` as a query and an assignment, the ticks of one worker
process, which share the address they have loaded, the pages and the manual pull that
load the address of 1C (`GetOnec`, `SyncNow`), and the starts of both processes:
`WorkerStarts` loads the address of 1C and not the site, `WebStarts` the other way
round, and the site only if the database answers. What the admin starts by hand in
the web process (`admin.run_now`) shares that process's address with the requests of
the panel; such runs are not modelled here, so `TicksUseSaved` is about the worker.

## What is checked

Each run is a cfg; `expect` and properties are in `PROJECT.json`.

| Run | Instance | Shows |
|---|---|---|
| `postsale_overlap` | three parts, see below; 2 attempts, 2 letters of an order, 1 handler | `OneLiveLetter`: overlapping ticks, rollback and a crash never give an order two letters; `SentJobHasLetter`: a sent job has a letter and its row; `SecondTriggerNeedsMishap`: what a second letter of one day takes |
| `postsale_day` | 2 orders of one user, 2 runners, no fault | **violated**: `OneTriggerPerDay` |
| `postsale_live` | 1 order, 1 runner, 1 letter of another scenario, lost replies, 1 fault | `EveryJobSettles` under `FairSpec`; `AttemptsBounded`; `LettersBounded`: an order has at most `MAX_ATTEMPTS` log rows, and one more for each fault; `AttemptsNeverDecrease`, `ClosedJobsStayClosed` |
| `postsale_lost_reply` | lost replies allowed | **violated**: `OneLiveLetter` |
| `outbox` | 2 letters, batch of 2, 2 attempts, 2 faults | refinement of `LetterService`, `SendsBounded`, `CopiesBounded`, `FirstTriesInOrder`, `EveryLetterSettles` |
| `cart` | 2 sessions of one user, 1 runner, orders in the local table, 1 failed letter, 1 fault, 2 pings | `CapPerWindow`, `BuyerGetsNoLetter` |
| `cart_live` | 1 session, 2 runners, 1C configured, 1 failed letter, 1 fault | `DepartedSettles`, also when ticks overlap |
| `cart_buyer` | 1 session, 1C configured, no fault | **violated**: `BuyerGetsNoLetter` |
| `cart_after_order` | 1 session, no fault | **violated**: `NewCartIsNotBought` |
| `best_offer_repeat` | 1 customer, 3 letters, no fault, 6 products | **violated**: `NoRepeat` |
| `unsubscribed` | one mailbox, 2 letters | **violated**: `NoMoreLetters` |
| `services` | eleven instances, one at a time, see below | the properties of `BestOffer`, `LetterChoice`, `Subscribers`, `WheelPrize`, `Attribution`, `Templates`, `Catalog`, `ImageCache`, `MailTransports`, `Settings` |

In `postsale_overlap` and `services` the states of several instances add up: the
variable `part` says which one a behaviour is about. Those of `postsale_overlap`
(about 2 700 000 states) are

| Part | Instance |
|---|---|
| order | 1 order, 2 runners, 1 fault, no lost reply; the provider may report a failure after "sent" |
| day | 2 orders of one user, 2 runners, lost replies, 1 fault; one letter and one try of an order |
| others | 2 orders of one user, 1 runner, 1 letter of another scenario that may fail, no fault |

In `day` and `others` all orders are taken in before the first delay is over, nobody
cancels or unsubscribes, and a fault strikes only where it leaves a letter unrecorded:
the rest would take letters away. `OneLiveLetter` is about `order` alone: with lost
replies it is violated, see below.

In `services` `part` says which service a behaviour is about; the
others stay where they start, so the state space is the sum of the parts
(about 850 000 states), and nothing is lost by it, as a property speaks of one
service only:

| Part | Instance | Shows |
|---|---|---|
| race, pair | 1 customer and 2 batches; 2 customers and a day limit of 1; 2 letters, 1 fault | `OncePerInterval`: one letter an interval, one more for each fault; `DayLimit`: within a batch, up to letters it does not know of; `LateLettersBounded`: letters after an unsubscription come only from batches that had selected the customer before |
| subscribers | one mailbox, 2 letters | `LateNeedsTwinOrFeed`: pings and the wheel never revive a customer |
| wheel | 3 requests, 2 codes, 4 prize requests, 2 faults | `OnePrizeLetter`, `SlotHasLetter` |
| attribution | 2 letters, 2 orders, 2 runners, 1 overlap, times 1 and 2 | `OneOrderOneLetter` unless runs overlap, `CreditIsEarned` always |
| templates | 2 templates, 2 scenarios, 2 requests | `ActiveLostOnlyByRemoval` |
| catalog | 3 products, 2 categories, pages of 1, 2 writers, 3 changes, 4 files, a place to move a category to | `SyncIsComplete`, `TidyingKeepsLists`, `ParsedFileFits` |
| images | 1 name, 2 extensions, 2 threads, 2 changes, 1 soft failure | `MissNeedsProof` |
| mail | 3 batches, 2 presses, 2 faults, every configuration | `RepeatsAreExplained`, `AnswerIsTrue` |
| settings, panel | 1 address, 2 admins; 2 ticks, 2 requests or starts of the web process, 2 starts of the worker; 3 requests or starts of the web process alone | `TicksUseSaved`, `PanelShowsSaved` |
| choice | 72 catalogues of 3 products, some with a top list that names one of them twice, and every customer: start, recent products, limit 1 or 3, offset, 6 orders | `FairRotation`, `FairCrossSell` over all these inputs |

The violated runs are disagreements between the code and what its own comments
and documents say; the findings in `PROJECT.json` quote both sides:

* *lost reply*: `HttpMailer.send` turns a timeout into "refused"; the caller
  deletes the log row that keeps one letter per order and tries again.
* *buyer*: `POST /order` converts the sessions and then stores the order; a ping in
  between (or any later one) revives a session, and with 1C configured the local order
  is not consulted.
* *one trigger a day*: `FOR UPDATE SKIP LOCKED` outside a transaction locks nothing
  afterwards, so two ticks (worker, cron, admin) read the same `last_any_trigger_at`
  and both write. What is left of the promise is `SecondTriggerNeedsMishap`.
* *after an order*: `created_at` of a session is never renewed, and the cookie
  lives a year; all later carts look bought.
* *best offer repeat*: de-duplication asks for letters whose status is `sent`, but
  an opened letter is `opened`; the customer who reads gets the same products
  again while others are left.
* *unsubscribed*: the link marks one row; a mailbox with two is written to
  through the other.

Other disagreements are named by the properties that stop short of them:

* Overlapping cart ticks share the fault of the post-sale ticks: both select a departed
  session and read the same `last_sent_cart_at`, and the customer gets two letters in a
  period, although `app/cart.py:5` ("кап 1 письмо / 3 суток") and
  `app/svc_config.py:44` promise one. It is broken by more than one letter for each
  overlap: when the letter whose cooldown was written last fails, both ticks pass the
  gate again. `CapPerWindow` is therefore checked and proved for one runner.
* `max_per_day` is counted anew by every batch, and there are several in the send hour
  and by hand, while the panel says "Макс. писем/день" (`app/svc_config.py:30`) and
  `app/best_offer.py:235` speaks of the day's limit. `DayLimit` is about one batch.
* `attach_template` looks whether another template is active and writes what it saw.
  Meanwhile that one may be deleted, and the scenario is left with none although
  `app/admin.py:1113` says that the attached one becomes active then; or the attached
  one has been activated, and "inactive" is written over it: the third case of
  `ActiveLostOnlyByRemoval`.
* A restarted web process has not loaded the address of 1C, and the manual pull asks for
  it before it loads: "1С не настроена" (`app/admin.py:1535`), although it is saved.
  `PanelShowsSaved` excepts the address of 1C until a page has loaded it (`loaded`).
* `rotate_and_pick` takes the first category with `min_items` products left
  (`app/best_offer.py:24`), but counts places, and a list may name one product at two of
  them: its letter begins with one product although a later category has two. That is what
  lines 86-87 want to avoid by asking for the stock. `FairRotation` speaks of places.

Three things met on the way are no findings, because the repository says nothing
against them. Overlapping post-sale ticks also break `AttemptsBounded`,
`LettersBounded` and the two action properties; hence `postsale_live` has one runner,
and the theorems about them assume one.
The rate limit of the mail service pauses inside a batch only
(`mailer-service/app/worker.py:80`), so the last letter of one batch and the first
of the next are not apart. And `product_pick.py:28` compares the enum column
`service` with a `text[]`; read literally PostgreSQL has no such operator and
every choice of products would raise. The models take the query for what it
says, and have the exception path of every statement as `Raises`.

### Bounds

A second order, session or letter is enough for every property, all of which
speak of one or two of them; a second runner is enough for two to overlap, and
one handler for a rollback to race a tick. In `services`
two of everything that races suffice likewise, and one more where a third makes a
difference (three requests of the wheel: one claims, one is refused, one comes
after the release; three products: a page in the middle of a pull). The catalogues
and customers of `choice` are every combination of a top list that is empty, full or names a product twice, missing
stock, photos and live pictures, recent products and orders by name, number, price
or with a category the shop does not know; `PickProofs` covers the rest. Two attempts
let a retry happen and be the last. `MaxFaults` is the number of crashes, exceptions or lost replies;
properties that a crash may weaken say by how much (`1 + faults`) and so hold for
any number. In `CartRecovery` a tick that overlaps another
counts towards the same bound, in `overlaps`. `MaxLetters` bounds log rows (post-sale)
or letters followed at a time (cart); in the liveness runs it is large enough
that no behaviour is stopped by it. All orders or sessions belong to one user:
different users share nothing but the runners. Symmetry is used for orders or
sessions and runners in safety runs only. Deadlock is checked except in the
outbox (finished letters, no more faults) and the cart (bounded pings), which
may come to rest. `services` and the violated runs of its modules stop at their bounds, and state safety
only, so they need no fairness.

### Fairness

`FairSpec` of `PostsaleQueue`: each runner's tick goes on (`_loop` catches every
exception and starts the next tick after its interval), order delays elapse,
days pass. Nothing of the mail service, callbacks or people.
`MailerOutbox`: the worker's loop goes on, backoffs elapse, and the container is
restarted (`restart: unless-stopped`). Nothing of the provider's verdicts; the
liveness property excuses a dead worker task (`pc = "dead"`), which nothing in
the code revives.
`CartRecovery`: ticks go on, timeouts run out, an accepted letter is settled
(`LetterService`), and the one strong assumption, `SF(MailAccepted)`: a mail
service asked again and again accepts at last. It is needed: the code retries a
refused cart letter without a limit, so with a service that refuses for ever a
session stays departed for ever.

## What is proved

By TLAPS, for all values of the constants that satisfy the named assumptions: every
safety and action property that a passing run checks, and the refinement of
`LetterService`. Left to TLC are the three liveness properties. The pattern is always
the same: an inductive invariant, one lemma for the initial states, lemmas for the
actions (one for all those that leave its variables alone), and a last step that
combines them.

### Post-sale queue (`ConstantsAssumption`)

`TypeCorrect` is the type invariant, with the facts that a runner or handler past a
given point has its job, letter and log row.

* `OneLetterPerOrder`: if `LostReplies` is false, `[]OneLiveLetter`, for any number of
  runners. `LetterInv` says why no second row can be inserted while a letter lives:
  a live letter has its row (`LiveRow`), generations above the counter are unused
  (`FreshGens`), a runner about to send or to undo owns a letter nobody has seen
  (`OwnLetter`, `OwnersDiffer`), and the webhook takes back only failed letters
  (`TakesBackFailed`), so its DELETE cannot free the index under a live letter.
* `SentMeansLogged`: `[]SentJobHasLetter`, with lost replies, crashes and any number of
  runners. `ClosingInv` follows a row from its insertion to the closing of the job.
* `RetriesBounded`, `NoAttemptForgotten`, `ClosedIsFinal`, if there is one runner
  (`OneRunner`). `ClaimInv`: what a tick selected, and has in hand, is what the table
  says (`SelectedIsCurrent`, `WorkIsCurrent`); with a second runner the unconditional
  writes of `_bump_attempt` and `_finish` meet other rows than they read.
* `TriesBounded`, if there is one runner: every log row but the last has cost an
  attempt or a fault (`RowsCost`).
* `SecondTriggerADay` (`[]SecondTriggerNeedsMishap`), for any number of runners, with
  lost replies and faults. `DayInv`, for users without a mishap: a live letter of the day
  is what the user's timer records, or another scenario's letter is, or it is the one
  being closed (`DayIsMarked`); no two runners write to the user at once
  (`OneInFlight`); and one that is about to insert, send or close sees no other live
  letter of the day (`NoneBefore`, `NoneBeside`). `ClosingInv` tells it which letters a
  rollback may take back.

### Mail service (`OutboxAssumption`)

* `OutboxTypeCorrect`, `DialoguesBounded` (`[]SendsBounded`). `OutboxInv`: the batch and
  the current letter are still queued with the attempts that were read
  (`BatchIsFresh`, `CurIsFresh`: only the worker writes these columns), and every
  dialogue is paid for by an attempt, a fault or the one in progress (`Budget`).
* `CopiesPaid` (`[]CopiesBounded`): the same account for copies.
* `FirstTriesByAge` (`[]FirstTriesInOrder`). `OrderInv`: numbers of arrival are distinct
  and bounded by the counter, an untried letter is due, and whatever is in the batch
  is older than what is queued outside it.
* `OutboxImplementsService`: every step of the outbox is a step of `LetterService` or
  leaves its variables alone; `ReportIsTrue` makes a report name the state the row is
  in, and `Budget` makes a provider event refer to a letter recorded as sent.

### Abandoned cart (`CartAssumption`)

* `CartTypeCorrect`.
* `BuyersAreSpared`: without 1C (`OneC = FALSE`), `[]BuyerGetsNoLetter`, for any number of
  runners. With 1C it is violated, see `cart_buyer`.
* `OneLetterAPeriod`: with one runner, `[]CapPerWindow`. `CapInv`: the cooldown of a user
  with a letter in the making is not running, and every live letter of the period is
  the one the cooldown names, the one being closed, or paid for by a fault
  (`UncoveredPaid`).

### The services around the mailings

Four assumptions, all in `Services` and all evaluated by TLC on its instance:

* `ServicesAssumption`: null is no code, order, template or scenario, and a draft is not
  a deleted template; the catalogue
  loop is none of the ticks; a `PUT /settings` carries addresses and numbers and never
  the address of 1C (`EDITABLE` in `app_settings.py`); there is an extension to probe
  and a miss is none (`EXTS` in `images.py`); an empty batch is refused (`admin.py`,
  `mail_send_batch`); runners and templates are finitely many.
* `CatalogueAssumption`: a listing is a sequence of items, a file a sequence of lines
  that may lack their id or category, but for a feed, which the schema of the request
  refuses then; a page has room for an item; a category sent by feed has a positive
  `sort_order`.
* `ChoiceAssumption`: a catalogue obeys the keys of the tables (`IsCatalogue`), a letter
  has room for a product (`limit = max(1, ...)`), the category of a last purchase is one
  of the catalogue. `IsCatalogue` asks for no more than the keys: a top list, keyed by
  position, may name a product twice.
* `BoundsAssumption`: the bounds of the histories are numbers.

* `OneOfferAnInterval` (`[]OncePerInterval`): the letters of an interval and the
  batches that may still add one are together at most `1 + faults`, and when there is
  no room left, the timer, or the transaction that is about to write it, keeps the
  customer out of further batches (`Capped`).
* `UnsubscribedIsFinal` (`[]LateLettersBounded`) and `DayIsKept` (`[]DayLimit`): the
  batches that had selected the customer have written or may do so (`LateCounted`); a
  batch knows what it has handed over, but for faults and the letter it is about to
  close (`DayCounted`).
* `PrizeOnce`, `SlotIsPaid`: the slot has one owner. A request between claim and
  release holds it with its own code, no two do, and while it is free or held every
  letter so far was one whose answer was lost (`NothingYet`).
* `CreditsAreEarned`: `AttInv` keeps, for a run that has found a letter, the click that
  earned it: `clicked_at` may be overwritten and the credit given before it is stored.
  `OneCreditEach` (`[]OneOrderOneLetter`): letters that carry an order and runs that are
  about to store it are together at most one and one for each overlap
  (`CreditsCovered`).
* `NobodyIsRevived`: once asked, some row of the mailbox stays marked until a feed
  comes (`MarkStays`).
* `TemplatesStay`: the unique index keeps one active template a scenario (`OnlyOne`), a
  request names a template, and the rows an activation has locked stay of its scenario
  (`HoldsOwn`): these are `TplInv`, from which the last lemma shows which statement can
  leave a scenario without an active template.
* `LettersUseSavedUrl`: every answer that any tick is about to assign to the shared
  address may be used by every tick at work (`TicksAreFresh`). `PanelIsTrue`
  (`[]PanelShowsSaved`): while requests do not overlap, what a request has read is still
  saved, and what it is not about to load is loaded (`AnswersAreSaved`,
  `SiteIsLoaded`, `OnecIsLoaded`): the site since the process started, the address of
  1C since a page loaded it.
* `MissIsProved`: an extension whose file stays in its place has not been passed over
  yet, unless a probe went without an answer (`NotPassedOver`).
* `TidyingIsHarmless`: `ListInv` only says that the lists are finite and their places
  integers. The argument is `LowerPlaceBefore`: the rows before a place are a set that
  grows with it, so of two renumbered rows the lower one had a lower place.
* `CatalogueTypeCorrect`, `PullIsComplete` (`[]SyncIsComplete`) and `ParsedFileIsStored`
  (`ParsedFileFits`) come from one invariant, `CatInv`. No two categories share a place
  and every reference has its row (`TablesOk`); what a pull or an import carries refers
  to rows that are there or that it is about to insert (`Steady`); and as long as nobody
  else has written (`clean`), the places it has computed are free and every item of the
  pages before the current one is in the tables as its last occurrence left it
  (`Brought`). `UpsertedRow` says what the statement makes of a product named several
  times: the picture of any of its lines, the rest of the last.
* `RotationStaysFair` and `CrossSellStaysFair`: the invariant only says that a choice,
  once made, is that of some shop and customer (`ChoiceMade`); the proof is about the
  operators. `InOrderLists`: `InOrder` lists a finite set once, in its order: the rank of
  an element, the number of those before it, is one to one onto 0 .. N-1.
  From it what filtering, joining, turning and cutting a list returns (`KeepFacts`,
  `JoinedFacts`, `RotateFacts`, `TakeFacts`); `LeadersFirst`: a product the primary
  category has to offer stands before all others; `FreshCount`: the loop counts the places of
  a list, which are as many as its products where it names each once; `NextInTurn`: the
  pointer is the category after the primary one; `ByPriceFacts`: the dearest category leads.
* `AllTypesCorrect` (`[]TypesOK`): the types of all parts. That of Best Offer rests on the
  lemmas about the choice: a letter names products and a pointer a category
  (`SendTyped`), so what a batch carries, logs and writes back does (`RowsTyped`);
  `LetterIsFresh` of the theorems above makes the letter it closes one of the log.
* `RepeatsPaid` (`[]RepeatsAreExplained`): every copy is paid for with a fault but those
  of a request that has handed something over and will be answered "ok" (`Paid`).
  `AnswersTrue` (`[]AnswerIsTrue`): at every stage the letters counted as sent, failed and
  not yet reached make up the request (`Counted`), and without a fault the transport is
  what it was when it was asked (`LiveIsReal`).

### Only model-checked

* Liveness: `EveryJobSettles`, `EveryLetterSettles`, `DepartedSettles`. Fairness and
  `ENABLED` are out of the prover's reach.
* That the one-runner hypothesis of the theorems about post-sale and cart is needed:
  TLC finds the counterexamples named above, no theorem says so.

## Not modelled

Rendering of letters and pages, statistics and KPI (read-only SQL), the syntax of
the import formats, authentication (a signed cookie, stateless), the activity log
(never read back), diagnostics, wiring and migrations have no behaviour of the
kind modelled here. Left out of what is modelled: bounces and the retry event of
the webhook, cancelling and retrying letters of the outbox by hand,
configuration changes of the mail service in the middle of a batch, the answer of
a ping about unknown products, the rate limit per address and the drawing of the
wheel in the browser, intervals and signals of the worker. The browser scripts
appear as the inputs `Ping` and `ReportOrder` of `CartRecovery`.

## Plan

Done: post-sale, outbox, cart; best offer with the choice of products; subscribers,
wheel, attribution, templates, catalogue, images, transports, settings. Left, in
this order:

1. Proofs: the step refinement of a shared abstract letter log by `PostsaleQueue` and
   `CartRecovery`.
2. `MailerOutbox`: cancelling and retrying by hand, a new configuration within a
   batch. Bounce and retry events in the webhook.
3. A composition of `PostsaleQueue` with `LetterService` as its environment, in
   place of the fate of a letter.
4. The browser's heartbeat and visibility events as a module in front of
   `CartRecovery`.
