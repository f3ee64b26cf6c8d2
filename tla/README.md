# Razor Gateway in TLA+

Razor Gateway recovers failed payments: a Go engine (`src/go/rz`) classifies
events, decides by named rules what to do, carries the action out and writes
every transition to a hash-chained audit log; a stream server shows the log
live, and a Blazor UI (`src/gateway-ui`) displays it and takes payments. This
directory holds a model of the engine, the log and its readers, the admin desk,
the payments and the UI's scripts, the TLC runs that check it, and theorems
checked by TLAPS.

## The system

| Component | State | Operations | Interacts with |
|---|---|---|---|
| Decision engine (`classify.go`, `rules.go`, `engines.go`, `statemachine.go`) | none; reads the global tunables | `Classify`, the rules, seven `Decide…` engines, `StepState` | called by the runner for every turn |
| Batch runner (`runner.go`) | locals of `RunBatch`: attempt, touches per customer, budget | `RunBatch` | claims and appends in the store, executes |
| Execution gateway (`execution.go`) | none | `ExecuteAction` | called by the runner |
| Audit store (`store.go`, `chain.go`) | JSONL file; in memory the claim set, a mutex | `Append`, `Claim`, `All`, `Clear`, `VerifyChain` | runner, HTTP handlers, several commands on one file |
| Anchor (`anchor.go`) | published anchors | `PublishAnchor`, `VerifyAnchor` | reads the chain's tail |
| Stream hub and server (`stream.go`, `streamserver.go`) | subscribers' channels | `/events`, `/tamper`, `/payment-event`, `/admin-action`, … | `Append` broadcasts into it |
| Tunables, sandbox, comparison (`config.go`, `sandbox.go`, `compare.go`, `naive.go`) | the global tunables | load, run scenarios | run batches over logs of their own |
| Metrics, scores (`metrics.go`, `riskscore.go`, `prescore.go`) | none | compute over rows or events | read the log |
| Auth, webhook (`auth.go`, `webhook.go`) | none | role check, signature and age check | guard the handlers |
| Admin desk and payment events (`streamserver.go`) | none of its own; the log | `/admin/action` with three actions, `/payment-event` | reads the log, decides, appends to it, beside running batches |
| UI stream client (`AuditStreamService.cs`) | buffer of rows, status | subscribe, reconnect | reads `/events` |
| UI payments (`RazorpayPaymentService.cs`, `Program.cs`) | seen webhooks; last hash, a semaphore, a JSONL file of its own | create an order, verify a payment, take a webhook, forward rows | called by the checkout script and by Razorpay; posts to `/payment-event` |
| Checkout script (`gateway.js`) | one promise per call | `razorpayCheckout` | Razorpay's form, the payment endpoints |
| Reconnection dialog (`ReconnectModal.razor.js`) | dialog, visibility listener | `retry`, `resume`, reload | Blazor's circuit |

What is hard here: the same event delivered again, at the same time or after a
crash; the steps between claim, decision row, action and outcome row; one log
file under several goroutines and several processes; a write that is cut; a
batch that runs out of budget; rules whose order decides who wins; seven engines
that share caps only some of them read; admins who decide on a log that moves
on; payments reported by a browser and by webhooks, in any order and again; and
attempts to reconnect that overlap. `PROJECT.json` lists every such
hazard at its line, with the properties that cover it.

What makes each component correct:

- engine: locked rules win whatever the input and the tunables; caps and promise
  dates hold at their boundaries;
- runner: no action twice, none without its decision in the log, none after the
  event is settled, no event lost without being reported, every call ends;
- store: the file is a valid chain at all times, what was acknowledged stays,
  claims survive restarts, corruption is noticed;
- stream: a slow client holds up nobody; between the replayed log and the live
  rows none is lost, and rows come in order; the hub never sends on a channel it
  has closed;
- admin desk: locked rules hold for admins too, and what they settle stays so;
- UI payments: a payment that was made is recorded, by its verification or its
  webhook; a webhook leaves one row; the log is a chain; the page is told "ok"
  only of what is on record, and told something;
- reconnection: the dialog covers a page exactly while it has no connection,
  there is always a way back, and a reload is the last resort.

## Modules

| Module | Models | Checked by |
|---|---|---|
| `Policy` | `classify.go`, `rules.go`, `engines.go`, `statemachine.go`, the odds of `execution.go`, as operators | through `Runner` |
| `CaseLedger` | abstract: an event is a case, opened once, owned by one run, acted on with attempts 0, 1, 2, …, closed for good | refined by `Runner` |
| `Runner` | `runner.go`: goroutines in `RunBatch` over one store | `MCRunner` |
| `RunnerProofs` | theorems about `Runner`: types, at most once, audit before action | tlapm |
| `LedgerProofs` | theorems about `Runner`: settled events, lost outcomes, the refinement of `CaseLedger` | tlapm |
| `PolicyProofs` | theorems about `Runner` under the policy: locked rules, promises, caps, the batch limit | tlapm |
| `HashChain` | `chain.go` as operators | through `AuditStore` |
| `AuditLog` | abstract: a log that grows at its end or is wiped | refined by `AuditStore` |
| `AuditStore` | `store.go`: what happens inside an append and a claim | `MCAuditStore` |
| `AuditStoreProofs` | theorems about `AuditStore` | tlapm |
| `AuditStream` | `stream.go`, `/events` and `/demo/tamper` of `streamserver.go`, the connection of `AuditStreamService.cs` | `MCAuditStream` |
| `AuditStreamProofs` | theorems about `AuditStream` | tlapm |
| `AdminDesk` | `/admin/action` and `/payment-event` of `streamserver.go`, composed with `Runner` (`INSTANCE`) | `MCAdminDesk` |
| `AdminDeskProofs` | theorems about `AdminDesk` | tlapm |
| `PaymentService` | the payment endpoints of `Program.cs`, `RazorpayPaymentService` and `PaymentAuditService` | through `Checkout` |
| `PaymentLedger` | abstract: a call is answered once, "ok" only of a payment made and recorded | refined by `Checkout` |
| `Checkout` | `razorpayCheckout` of `gateway.js` over `PaymentService`, and Razorpay | `MCCheckout` |
| `Reconnect` | `ReconnectModal.razor.js`, and Blazor | `MCReconnect` |
| `ReconnectProofs` | theorems about `Reconnect` | tlapm |
| `CheckoutProofs` | theorems about `Checkout` and `PaymentService` | tlapm |

**Policy.** One operator per Go function, with the function's name and its order
of rules. Times are half-hour ticks (quiet hours in India, UTC+5:30, start on the
half hour in UTC), rates are whole percents, a description is the set of
keywords the classifier looks for. `StoppingInput` drops the amount, as
`StepState` does. Only the retry flows and the promise flow read the promise
date, although README.md:162 of the repository speaks of all touches:
`PromiseHonoured` is about charges. The voice, degradation and promise engines do
not read the touch cap, the amount never reaches the supervisor rule of promises,
and a revoked mandate in the degradation flow is contacted: `CappedTouches` and
`LockedRulesHold` name the flows they hold for.

**Runner.** `run[g]` holds the locals of one call; its `pc` is where the call
stands. Every store operation is a step, because each runs under the store's
mutex: `ClaimRefused`/`ClaimOverLimit`/`ClaimGranted` are `Claim` and the code up
to the next store operation, `Decide` is `StepState` and the append of its row,
`Execute` the action, `RecordAction`, `RecordRecovery` and `RecordFollowUp` the
appends after it. `StoreFails` is the error return of any of them, `Crash` the
death of the process with the claim set. `effects` is a history variable: what
reached customers. Whether an action recovers the money is a free choice where
`ExecuteAction` draws a pseudo-random number. An append here succeeds or does
nothing; cut writes are `AuditStore`'s matter. The append of an outcome
(`runner.go:146`) comes after the action, so `OnlyLastOutcomeMissing` says what
can be missing from the log; README.md:345, "no partial execution", holds of the
decision row only.

**AuditStore.** An append is three steps under the mutex of its process: read
the tail, open the file, write. A digest is the sequence of payloads it commits
to, which makes the hash injective and nothing more. `end` says how the file
ends: in a whole line, in text that does not parse, or in a line whose newline is
missing. `Clear` unlinks the file (`inode`), so a process that has it open
writes into nowhere. `run-batch` calls `Clear` before anything else of the
process runs, so its guard asks that the process's goroutines are idle.

**AuditStream.** A row is its number in the log. `Write` is the file write of
`Append`, with the store's mutex taken until `EndCast`; a broadcast is
`StartCast` (the hub's read lock, and the clients it finds), one `Send` per
client, `EndCast`. `Subscribe` and `Unsubscribe` need that lock for themselves
(`Unread`). A handler goes from "accepted" through "subscribed" to "replay"; when
`All()` fails it is "blind", it only forwards. A frame is received when the
handler writes it, if the UI is still on that connection (`Emit`); what a
broken connection would have carried is lost. `got` and `dropped` are history.
`Connect`, `Cut` and `Restart` are the loop of `RunLoopAsync` and what makes it
go round. `WaitForSubscriber` and refused credentials are left out.

**AdminDesk.** All of `Runner` runs beside the requests: `Batches_Next` are its
steps, over the same `log`. A request is two steps. `Ask` reads the log and makes
up the row, from the latest row of the event and, for a nudge, from the engine
asked again without the event's signals (`buildRecoveryContext`); `Record` appends
it. A refusal is a row as well, with the state of the row it was decided on.
Requests that write nothing (wrong role, unknown action, no such event) are left
out. The model follows the code where that surprises: a refusal and the
notes of escalations hide the rule they follow, a redelivered event's duplicate
row makes it look suppressed to admins, and a promise is shown as waiting one
append before RunBatch is through with it, so that an admin's `recovered` may be
followed by the second row of the hold. Nothing carries out what an admin
decides, although the comment at streamserver.go:432 says so.

**PaymentService and Checkout.** A checkout is its order and the payment made of
it. A request is indexed by the checkout that verifies or by the slot of a
webhook; its `pc` goes from "received" to "queued" at the gate and "writing" inside it to an
answer. A row is its number in the log, which is its hash as well. A line is
written whole or not at all, cut lines being `AuditStore`'s matter. Missing settings, a body that
is no JSON, a sender that hung up (the token is cancelled, also at the gate) and
a failing write all make the handler throw: `Fail`. `Restart` loses `seen` and the
last hash. Of the script only the promise counts: the first `resolve` wins, later
ones are lost, and the handler of the form runs outside the `try`. `call` is
where the script stands, "stuck" when that handler threw. Razorpay keeps its form
open after a failed payment, closes it with success, sends each event of a
payment until it is answered with success, and may be paid after the form was
closed. The page waits for its call a minute at most and offers the button again,
so checkouts overlap and the page's own state is left out. `CreateOrderAsync` changes no state here.
`goLog` holds the rows that reach `/payment-event` (`PaymentEvent` of `AdminDesk`).

**Reconnect.** `face` is the class Blazor sets on the dialog, `modal` whether it is
shown. `call[k]` is what the k-th call of `retry` or `resume` awaits; a call made
while the server was away is `doomed` to throw, one that names a circuit replaced
since is `outdated`. `listener` is the `visibilitychange` listener, of which the
DOM keeps one however often it is added. What is taken from Blazor: "show" comes
with a lost and with a paused connection, "hide" with every successful
reconnection or resumption, "rejected" only when the circuit is gone for good,
overlapping `resumeCircuit` calls share one answer, which is true on a connected
page. A reload brings a new page with a new circuit.

## Runs

Passing runs:

| Run | Question | Bounds | States |
|---|---|---|---|
| `concurrent` | at most once, audit before action, nothing after settling | 3 goroutines (symmetric), 1 event, 4 deliveries, 1 crash, 1 fault | 208,111 |
| `redelivery` | lost outcomes, charges over all deliveries, what a run out of budget reports, refinement of `CaseLedger` | 1 goroutine, 2 events of a customer, 3 deliveries, budget of 3 decisions, 1 crash, 1 fault | 46,576 |
| `policy` | locked rules, promises, caps on every input; the touch cap across flows; every call returns | about 500 events at two clocks, and every batch of 3 of 4 events of one customer | 26,429 |
| `store` | chain validity, claims, acknowledged lines, cut lines, refinement of `AuditLog` | 1 process, 3 goroutines, 4 calls, 1 clear, 1 crash, 1 failing write; cuts inside the text of a line | 95,456 |
| `stream` | gaps, order, closed channels, slow clients, reconnection | 2 writers and the tamper demo, 2 connections, 2 rows, 1 status, capacity 1, 1 break or restart, 1 failing replay | 314,836 |
| `admin` | what admins cannot undo, whatever batches do meanwhile | 1 goroutine, 3 events of three flows by day and night, 2 deliveries, 2 requests (symmetric), 1 payment id, 1 crash, 1 fault | 2,435,245 |
| `payments` | recorded, chained, once, answered; refinement of `PaymentLedger` | 1 checkout, 2 webhooks at a time of 2 events, 1 restart, 1 fault | 488,630 |
| `reconnect` | dialog, way back, reload, coming back | 3 calls that overlap; no other bound | 19,128 |

Bounds. Two goroutines are enough for a race on a claim; the third lets one
refuse while another crashes. Four deliveries let an event come back after it
was settled, after a crash and during a run. `GuardLimit` stands for the code's
100 turns and is small so that it is reached; the retry and touch caps of
`SmallTunables` and `TwoTries` are 2 so that a run passes them.
`PolicyEvents` takes one value on each side of every threshold a rule has. All
events are of one customer, since sharing the touch counter is what is hard. Two
rows are
enough for a row to be replayed, sent and dropped while another is written; a
channel of one frame fills at once. Two admins and one batch let a row come
between any reading and its append; the second delivery makes duplicates. A
verification and two webhooks are three requests at the gate, one inside and two
that wait; with two events of a payment an ignored one and its repetition meet a
restart. Nothing in the service relates two payments but the gate and the last
hash, which the three requests share. Three calls let one attempt end
while two others are under way, one of each kind.

Fairness. `policy` assumes weak fairness of `Advance(g)`, the steps of a call that
was made. Goroutines are scheduled preemptively and nothing in `RunBatch` waits
but for the store's mutex, which Go hands over in order of arrival when it is
contended for long. No delivery is assumed, and none is needed. `stream` assumes
weak fairness of a goroutine in a broadcast (`Sending(s)`) and nothing of clients:
`AppendsReturn` holds although no handler need ever run. `RowsArrive` names what
it needs on top (`ClientFairness`): the handlers are scheduled, and the UI, whose
loop has no exit but its own shutdown, reads and connects again. `stream` does
not check for deadlock, since a server without requests rests; a broadcast that
is stuck shows in `AppendsReturn`. `payments` assumes that handlers and the script are
scheduled, that the semaphore is handed on (it is taken for one write), and
that Razorpay delivers until it is answered; `CheckoutAnswers` also that customers
finish with the form (`CustomerFairness`). `reconnect` assumes that every attempt
ends, Blazor's and the script's, which are promises that settle; `ComesBack`
also that the server stays reachable from some point on and that the customer keeps
leaving and entering the tab and presses "resume" when it is offered again and
again. No run assumes that "retry" is pressed. `admin` and `payments` do not check for
deadlock either: both rest when nobody asks for anything.

Violations. Four runs check a sentence of the documentation or of a comment that
the code does not keep; `PROJECT.json` quotes it under `findings`:

| Run | Sentence | What happens |
|---|---|---|
| `v_duplicate` | duplicates were already processed | an event that met a spent budget was claimed and dropped |
| `v_cut` | a truncated line is a loud error | a line without its newline parses, and spoils the next |
| `v_accepted` | accepted webhooks are recorded | the mark outlives an append that failed: the retry is acknowledged, and there is no row |
| `v_locked` | locked rules never permit admin override | the names an admin is checked against are not those the engine fires: a revoked mandate is given a channel |

`v_cut` differs from `store` in that a write may also be cut at its newline (two
goroutines and no `Clear` are enough there). `v_accepted` has two payments of one
event each, without restarts, `v_locked` one request on six kinds of events.
Two processes on one log file, as `run-batch` and `stream-server` are
when both are started, fork the chain: `ChainValid` is about one process.

## Proofs

`RunnerProofs` proves for every set of goroutines, events, batches, clocks, every
tunables and bounds, with crashes and failing appends:

- `TypeCorrect`: `Spec => []TypeOK`;
- `ExecutesAtMostOnce`: `Spec => []AtMostOnce`;
- `AuditsBeforeAction`: `Spec => []AuditBeforeAction`.

They assume what `Runner` assumes of its constants: events have ids, customers,
flows and signals of the right kinds, batches are sequences of events, clocks
are positive, tunables and bounds are natural numbers (`applyTunableKey` refuses
others). So do the two modules that build on this one, `LedgerProofs` and
`PolicyProofs`.

`AtMostOnce` speaks of effects only; it is not inductive, since nothing in it
says that two goroutines cannot hold one event. `IInv` adds why they cannot:
what a goroutine holds is claimed (`HeldIsClaimed`), nobody else works on it
(`OneWorker`), a hydrated claim set covers the log (`LoggedIsClaimed`) and
everything carried out is in the log (`AuditBeforeAction`), so an id that is not
known was never acted on; and a worker's attempt number is ahead of what it has
carried out (`EffectsBehind`). `DecidedFirst` carries the decision row from
`Decide` to `Execute`. Most actions only append a row of the event they hold and
go on or let go of it: `BookkeepingKeepsIInv` does these once, and each action
shows that it is one. `ClaimKeeps`, `ExecuteKeeps` and `CrashKeeps` are the
three that change something else. `IInv` was also checked by TLC on the
instances of `concurrent` and `redelivery`.

`LedgerProofs` goes on with `IInv`:

- `NothingAfterSettled`: `Spec => NoActionAfterSettled`;
- `MissesOnlyLastOutcome`: `Spec => []OnlyLastOutcomeMissing`;
- `ImplementsCaseLedger`: `Spec => KeepsCaseLedger`, the refinement.

`CasesFit` relates where a goroutine stands to what the log says of its event:
past the decision the case is open, as long as an action may follow it is not
closed, and the loop ends only on a closed one. The first theorem follows from
its third conjunct. `ActsFit` counts: a run number is used once (`RunsFit`), the
actions of an event are all of the run that works on it and as many as its
attempt number says (`CountsFit`), and all but the one in flight have their
outcome in the log (`OutcomesFit`). For the refinement, `Decide` of a new event
opens the case, `Execute` acts with the next attempt because the count is exact,
the row that settles it closes it, and everything else is a stutter.

`PolicyProofs` looks into the engines:

- `LocksHold`: `Spec => []LockedRulesHold`;
- `PromisesHonoured`: `Spec => []PromiseHonoured`;
- `RetriesAreBudgeted`: `Spec => []RetryBudget`;
- `TouchesAreCapped`: `Spec => []CappedTouches`;
- `LimitIsReported`: `CapBelowGuard /\ Spec => LimitReported`.

What an engine allows is read off its rules once, for every input and all
tunables (`ActAllowed`, `TouchAllowed`, `RowLawful`); `PolicyFits` carries it from
the decision to the action. A step may lie between the two, but `Now` of a batch
stands still. The retry budget combines it with `AtMostOnce`: the attempts of an
event are below `maxRetry` and no two are the same. `TouchesFit` says that the
run's own counter, which every flow advances, is never below what the capped
flows did. For the limit, `BatchesFit` says that each event of the batch is
answered in the log, at hand or to do while the limit was not hit, and
`StepsFit` that the turns of an event never pass its customer's touches. So an
event of a capped flow ends by the cap if the cap is below the loop guard: that is
`CapBelowGuard`. It is a hypothesis and no assumption of the model because the code does
not ask for it: `max_touches_cap` may be configured to 100 and more, and then the guard
of `runner.go` ends such an event without a word. The default is 3.

`AuditStoreProofs` proves for every set of goroutines, events and notices, and
every bound on crashes, failing writes and clears:

- `TypeCorrect`: `Spec => []TypeOK`, with any number of processes;
- `LogIsChained`: `Spec => []ChainValid`;
- `AckedLinesStay`: `Spec => []AckedStays`;
- `CutsAreLoud`: `Spec => LoudAfterCut`;
- `LoggedIsNotGranted`: `Spec => NoGrantOfLogged`;
- `ImplementsAuditLog`: `Spec => KeepsAuditLog`, the refinement.

All but the first are about one process (`SingleProcess`): two fork the chain. The
three about what stays in the log also assume that what a cut write leaves does
not parse (`CutsDoNotParse`); `v_cut` shows what happens otherwise, and the chain
is valid even then. `LoggedIsNotGranted` assumes that handlers log other things than
batches claim (`KindsDiffer`). The chain rests on `HolderAppends`, that who is past
`readLastHash` holds the mutex, and on `InHand`, that the tail, the end and the file
he saw are still those: a `Put` then chains its line to the last one or cuts the
file (`PutEffect`). `LogSteps` sums up every step as one line added, the log wiped
or its lines left alone, from which the last three follow. For claims, `ClaimsFirst`
says that what is about to be logged was claimed, and `KnowsTheLog` that a hydrated
store knows every event in the log: together they are inductive.

`AuditStreamProofs` proves for every set of writers and connections, every
capacity and bounds, with broken connections, restarts and failing replays:

- `TypeCorrect`: `Spec => []TypeOK`;
- `SendsOnOpenChannels`: `Spec => []NoPanic`;
- `ReplayLeavesNoGap`: `Spec => []NoGap`;
- `ReplaysThenLive`: `Spec => []ReplayThenLive`.

Here `IInv` adds that a broadcast sends to clients only (`OnlyClientsAreSentTo`),
that a closed channel is no client's and its handler is gone (`ClosedForGood`),
and that whoever replays has subscribed before (`HandlersSubscribe`): without the
last, a row could be written between the reading of the log and the
subscription, and be underway to nobody. The store's mutex plays no part in it,
but the order of rows rests on it. `MutexFits` says that a writer in a broadcast
holds the mutex and carries the last row, so at most one row is on its way;
`OrderFits` that what was received after the replay, then what the channel
holds, rises and stays below the row still to come, and that a replay goes on
where it stands. Both were checked by TLC on the instance of `stream`.

`AdminDeskProofs` proves for every set of goroutines, events, admins and payments,
every tunables and bounds, whatever events the server has loaded:

- `TypeCorrect`: `Spec => []TypeOK`;
- `HeedsEngine`: `Spec => []AdminsHeedEngine`;
- `FulfilledAfterHold`: `Spec => []FulfilledWasOnHold`.

They assume of events, batches and clocks what `Runner` does, and that payments
have ids of their own. The difficulty is that an admin decides on a log that has moved
on when the row is appended. Whether an event is suppressed depends on the event and
the batch's clock alone (`SuppressionIsFixed`), so the engine suppresses it in its first turn or
never. `WorkerFits` says so of a goroutine: it is through with its event, or the event
is not to be suppressed, or nothing was decided yet and every row there is of it, also those on
the desks, lets it alone (`AllLetAlone`); duplicates are such rows, and what an
admin makes up after one is such a row again. `SuppressedFit` carries that on once
the event was suppressed. `HoldsFit` says what the engine writes after a hold, and
`RowsFit` and `DesksFit` lead everything shown as waiting or marked as fulfilled back to
one. `OneWorker` is needed here as well, since another goroutine on the same event
could act after the hold (`ClaimsFit`). `LatestExists` gives `Latest` its meaning: that
an event with rows has a last one is carried along, since induction over the length of
the log is out of reach. Actions of `RunBatch` that log something are `Proper` steps and
taken once (`ProperKeepsIInv`), as are rows that come from outside
(`OutsideRowKeepsIInv`). `NudgesByDay` is about the engine asked
without the event's signals. `IInv` was checked by TLC on the instance of `admin`.

`ReconnectProofs` proves for any number of calls:

- `TypeCorrect`: `Spec => []TypeOK`;
- `DialogCoversOutage`: `Spec => []ModalCoversOutage`;
- `AlwaysAWayBack`: `Spec => []WayBack`;
- `ReloadsAsLastResort`: `Spec => ReloadIsLast`.

`TypeOK` and `ModalCoversOutage` are inductive together, since every action that
touches the link touches the dialog. `WayBack` is not: it speaks of the moment
when no call is left, and the listener is off while a retry is under way.
`SomebodyRetries` says that after "failed" it is off only then; each way a retry
can end (`SettleKeeps`, `ResumeKeeps`) arms it or connects the page. That answers
of `resumeCircuit` come to all who wait for one is what `ResumeKeeps` needs.

`CheckoutProofs` proves for every set of checkouts, webhook requests and events,
and every bound on restarts and failures:

- `TypeCorrect`: `Spec => []TypeOK`;
- `LogIsChained`: `Spec => []ChainPerStart`;
- `WebhooksOnce`: `Spec => []WebhookOncePerStart`;
- `SeenIsAccountedFor`: `Spec => []SeenIsRecorded`;
- `OkIsTrue`: `Spec => []OkIsRecorded`;
- `ImplementsPaymentLedger`: `Spec => KeepsPaymentLedger`, the refinement.

They assume that checkouts and webhook requests have different names, that
"verify" is no event, and that the bounds are natural numbers. The types hold
together with `Addressed`: a request under way knows its payment, a checkout's
is the verification of the payment that was made. The chain rests on the gate
(`GateHeld`: who writes holds it), on the last hash being that of the last row or,
right after a start, none (`LastHash`), and on the row in hand being built on it
(`BuiltOnLast`); a step that touches neither is `Apart` and taken once. Of the
webhooks, `WebhookOncePerStart` speaks of rows only; `HookInv` adds that a row of
this start and a request about to write one both mean the payment is marked, that
one request at most is about to (`MarkedOnce`), and that it finds no row of this
start (`MarkedIsFirst`). `OkHasRow` carries the row from the server's answer to the
page. For the refinement, `Write` of a first verification is `Record`, a payment made
in the form or later is `Pay`, the first answer to a call is `Answer`, a reload
answers every call under way with "no", and anything else is a stutter.

Every invariant and action property of the passing runs and each of the three
refinements is a theorem. Only model-checked are the liveness properties
(`EveryRunEnds`, `AppendsReturn`, `RowsArrive`, `CheckoutAnswers`,
`CapturedIsRecorded`, `ComesBack`): `ENABLED` and with it fairness are out of the
prover's reach.

## Not modelled

Wording, tables, e-mail copy, redaction, secrets, the demo data generator, the
animation at the head of `gateway.js` and the Blazor pages: no state whose
properties could fail. The provider adapter: its results are the inputs of
`Runner`. Amounts recovered, channels and the escalation summary that `RunBatch`
returns. Still planned rather than out of reach: the anchor, the sandbox and the
tunables file, the scores and metrics, the role table and the webhook window of
the Go server.

## Plan

1. The pages of the UI: the bounded buffer of `AuditStreamService`, pages that
   subscribe late, rows that come twice.
2. Tunables, sandbox and comparison: a global changed under running batches;
   metrics over the rows of `Runner` and `AdminDesk`.
3. Anchor, risk score, role table, webhook window as operators with reference
   definitions.
4. Proofs: the arguments behind the liveness properties as far as they are
   invariants, such as a measure of the turns a call of `RunBatch` has left;
   theorems about the components above as they are modelled.
