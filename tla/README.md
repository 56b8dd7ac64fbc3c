# Verification of the SMS gateway

The program is a server through which tenants send SMS over a fleet of Android
phones. A message is a row of `sms_messages`; several server nodes share one
PostgreSQL database, each holds the WebSockets of some phones in memory, and a
phone hands messages to its SIMs. This directory holds TLA+ models of that
system, the configurations that check them with TLC, and theorems about them
checked by TLAPS.

All paths below are relative to `src/`.

## 1. Inventory

| component | state | operations | talks to |
|---|---|---|---|
| dispatcher `app/services/sms/sms_dispatcher.ts` | `sms_messages`, `sms_attempts` | take a queued message, expire it, defer it, assign it to a SIM, write the frame, undo the assignment | route selection, allowance, registry of sockets, webhooks |
| device results and sweeps `sms_result_service.ts`, `retry_policy.ts`, `app/realtime/message_router.ts` | the same rows | ACK, RESULT, DELIVERED; lease sweep; deadline sweep; retry or fail | phones, allowance, webhooks |
| sending and cancelling `sms_service.ts` | `sms_messages` with idempotency keys, `sms_events` | send, batch, bulk, cancel | dispatcher (wake-up), rate limit, webhooks |
| recipient allowance `recipient_allowance.ts` | `sim_daily_recipients`: one row per SIM, number and day | claim, release, recordSent | dispatcher, results |
| webhook publication, job queue, runner `app/services/webhooks/*`, `app/services/infra/job_*.ts` | `jobs`, `webhook_endpoints` | enqueue with a dedupe key, claim, complete, fail, reclaim, deliver, disable an endpoint | every transaction that changes an outcome |
| gateway sessions and presence `app/realtime/*`, `app/services/gateway/gateway_service.ts`, `gateway_presence_service.ts`, `gateway_node.ts` | `gateways.status/node_id/last_seen_at`, `gateway_sessions`, a registry of sockets per node | handshake, replacement, close, heartbeat, stale sweep, disable, enable, start, shutdown | dispatcher (who can be reached), operators |
| gateway assignment `gateway_assignment.ts`, `requested_route.ts` | `gateways.assignment/tenant_id`, `sms_messages.requested_gateway_id` | register, claim by code, release, assign, remove, fail stranded messages, tell the phone | tenants, sending, sockets |
| route selection `sim_profile_selector.ts` | `sim_profiles.next_available_at`, `gateways.next_available_at` | candidates, plan, reserve, release | dispatcher, allowance |
| USSD and balances `app/services/ussd/*` | `ussd_requests`, `operator_ussd_commands`, `sim_profiles.balance_*` | request, result, stale sweep, balance scheduler, codes, re-arming | phones |
| rate limiting `app/services/infra/rate_limiter.ts` | none: it counts the messages of the last minute | count, admit | sending |
| reports, monitoring, administration, audit | none of their own that others read | queries, forms | |

What makes this hard, and where:

* *Rows read without a lock and written later.* The cancel request, both
  sweeps, the undoing of a hand-off, `markDisconnected` and `markConnected` all
  decide on one copy of a row and write after others may have changed it.
* *Unreliable phones.* A phone repeats a result until it is confirmed, reports
  hours late, reports on an attempt that was taken from it, loses its socket
  between the assignment and the frame; the delivery report may overtake the
  send result.
* *Crashes.* A node may die between the commit of an assignment and the frame;
  a restarted node releases phones that may have moved elsewhere.
* *Side effects of a transition.* The allowance ledger, the events for webhooks
  and the erased text must follow the row through all of the above.
* *Leases on jobs.* A worker taken for dead comes back and completes or fails a
  job another one runs; a receiver answers after the request was given up.
* *Limits checked before they are used up.* The rate limit, the in-flight limit,
  the endpoint limit and the recipient cap are counted in one statement and
  consumed in another.
* *Two changes of one row.* The ORM writes the columns that differ from what was
  read, so two handlers may each write a part of it: assignment and tenant, the
  failures of a SIM, a USSD status.
* *Sockets.* Handshakes, replacements and late teardowns of one phone
  interleave over nodes that share only a database row.

What makes each component right:

* dispatcher and results: every message in flight is somebody's, no phone gets a
  message twice, no more copies than attempts, a success is never lost, every
  accepted message is settled.
* allowance: a SIM is charged exactly for the numbers it sent to; a slot that
  was not used comes back.
* webhooks: every outcome is announced, and what a tenant is told only improves.
* sessions: the socket a node writes to is the one the phone listens to; the
  database comes to agree with the sockets, in both directions.
* job queue: a job is delivered at least once, twice only for a cause, and not run
  by two workers unless a handler outlived its lease.
* routing: caps, windows and in-flight limits hold although they are read before
  any lock; the fill order of the fleet is kept.
* assignment: a device is one tenant's, no message waits for a device it may not
  use, and the phone shows what it is for.
* intake: what a caller is told is what the table holds, a key stands for one
  message, and the rate is exceeded only by what was admitted at the same time.
* USSD: every session ends, and a SIM that never answers is left alone.

`PROJECT.json` lists the components, and the hazards line by line.

## 2. Modules

| module | what it is |
|---|---|
| `SmsLifecycle` | dispatcher, results, sweeps, cancel, with the allowance ledger and the webhook jobs of a message |
| `SmsContract` | abstract: what a tenant is promised about one accepted message |
| `SmsRefinement` | `SmsLifecycle` as an implementation of `SmsContract` |
| `MCSmsLifecycle` | constants of the TLC instances |
| `GatewaySessions` | the sockets and presence of one phone over several nodes |
| `JobQueue` | the jobs table and its runners, for any handler |
| `WebhookDelivery` | extends `JobQueue` with its one handler: events, endpoints, deliveries |
| `Routing` | the SIM for a message: shortlist, reservation, slot of the recipient, statement by statement |
| `DeviceOwnership` | whose traffic a device carries: registration, claim, release, assignment, removal |
| `Intake` | acceptance of messages: single, batch and bulk, idempotency keys, rate limit |
| `Ussd` | USSD sessions, answers, sweep, the scheduler and the failure count |
| `MCWebhookDelivery`, `MCRouting`, `MCDeviceOwnership`, `MCIntake` | constants of their TLC instances |
| `SmsLifecycleProofs` | theorems: types of `SmsLifecycle`; who holds a message in flight |
| `SmsOutcomeProofs` | theorems: what becomes of a message, and the steps of the refinement |
| `WebhookDeliveryProofs` | theorems about `JobQueue`, with any handler, and about `WebhookDelivery` |
| `GatewaySessionsProofs`, `RoutingProofs`, `DeviceOwnershipProofs`, `IntakeProofs`, `UssdProofs` | theorems about the module of that name |

### SmsLifecycle

`msg`, `attempt`, `ledger` and `event` are the tables; `job` is what each phone
has done with a message on each SIM (external, modelled from the frames the
server sends and accepts). `dispatch`, `cancelling`, `leaseSweep` and
`deadlineSweep` hold what a dispatcher, a request and a sweep carry in memory
between reading and writing.

One step is one transaction. Where the code reads outside of it, the read is a
step of its own: `CancelRead` / `CancelSave`, `SelectLeases` / `ReclaimLease`,
`SelectDeadlines` / `ExpireMessage`, `Assign` / `HandOff` or
`RequeueUndelivered`. The reports are `Acknowledge`, `RecordSent`,
`RecordDelivered`, `RecordUndelivered` and `RecordFailure`; each may come at any
time and any number of times after the phone did what it reports, for whichever
attempt the phone was given. `Publish` carries the dedupe index: an event whose
job still waits makes the statement fail, and then the transaction that
published it changes nothing.

Of time there is a lease that runs or has elapsed and a deadline that is ahead
or has passed. A message keeps only whether its text is still there.

### SmsContract and SmsRefinement

A message is `open`, then `failed`, `sent`, `undelivered` or `delivered`, and
an outcome only improves, on the strength of something that happened on air.
`OutcomeOf` and `FactsOf` are the refinement mapping.

### GatewaySessions

`gateway` is the phone's row, `session` its rows of `gateway_sessions`,
`registry` the `connectionManager` of each node, `link` the server's end of a
socket, `phone` the socket the phone believes in. A handler is cut where it
awaits the database: `Accept`, `SaveOnline`, `Register` for a handshake;
`OnClose`, `Flush`, `FindOwned`, `SaveOffline` for a teardown; `Heartbeat`,
`CheckCurrent`, `Reassert`; `SwitchRead`, then `Disable` or `Enable`. `Column`
is how the ORM saves a model: a column is written only if it differs from what
was read, so a stale copy may leave a changed column alone. `Crash`, `Stop`,
`Exit` and `Start` are the life of a node; shutdown waits for every socket to
close and for the teardowns it has started.

### JobQueue and WebhookDelivery

`job` is the table, `runner` the pass of each process, `hand` the copies of the
jobs it has claimed; `past` counts claims, reclaims, leases outlived and retries.
`Complete` and `Fail` look at the job's id alone, as the code does, so a worker
whose lease was reclaimed may delete the job under its successor or put it back.
`WebhookDelivery` gives the handler its steps: `StartPost`, an answer accepted,
refused or lost, the success recorded or the failure counted, then
`DisableEndpoint` in a statement of its own. `Publish` reads the subscribers and
enqueues one job each, statement by statement. A message's event and an alert
differ only in who publishes them.

### Routing

What `SmsLifecycle` takes for one step, `Assign`, is here a transaction of several:
`Plan` (the shortlist, read before it), `ReserveSim` and `ReservePhone` (conditional
updates that win or lose the pacing window and keep the row locked), `Claim` or `Full`
(the recipient's slot), `Commit`, `HandOff` or `Undo` and `ClearWindows`. `locks`
are row locks; two transactions that wait for each other are resolved by
`BreakDeadlock`, as PostgreSQL does. `now()` is the start of a transaction, which
`late` keeps. `sequential` and `spread` differ in the `Targets` of a plan.

### DeviceOwnership

`device` is the row (`purpose` is its two columns assignment and tenant), `phone` the
socket and what the screen shows, `request` the requests under way, each with the row
it has read. `Saved` writes the columns that differ from it. `Commit` is the
transaction that changes the row and fails the messages that can no longer be
carried; event, refresh and frame follow. The histories `crossed`, `overtaken` and
`excused` name the cases in which the code promises less; section 6 lists them.

### Intake

`call` is a request with its entries and results, `rows` the messages. `LookUp`,
`Create`, `Trace` are `send` (the events are statements of their own); a batch runs
them entry by entry; `Sort`, `Resolve`, `InsertBulk` are a bulk request, whose
messages and events are one transaction, tried a second time when a replay stored
some of them in between. `Weigh` is the rate limiter, which counts the rows
themselves. `Fail` ends a request anywhere; `crowd` is what others had still to write.

### Ussd

`start` is a request between its steps (row created and frame written, then the status
`sending` saved over whatever has been answered since), `task` an answer or a sweep
(request read, SIM read, request closed, SIM saved), `pass` what is left of the
scheduler's pass. `SavedSim` writes only what differs from the SIM as read. Rows are
kept by the code; `Forget` gives the place of a closed one that nothing has in hand
to another, so that the rows that may matter at once are bounded, and not their number.

## 3. Runs

| run | shows | instance |
|---|---|---|
| `SmsRaces` | a message in flight is held by one attempt, no SIM gets it twice, no more copies than attempts, no blank SMS, no live lease taken away | 1 message, 3 SIMs (two in one phone), 2 dispatchers, 2 attempts, a cancel, a deadline, 2 faults |
| `SmsOutcome` | a recorded success stays; the ledger counts every send once, where it was sent; an unused slot is returned; only a real send revives a settled message | 2 messages to one number, 2 phones, allowance of 1 |
| `SmsKept` | `KeepsContract` and `OutcomePublished` | 1 message, 3 SIMs, 2 dispatchers, 3 events, 2 restarts |
| `SmsLive` | `Settles` | 1 message, 2 phones, a cancel, a deadline, a restart or a lost socket |
| `Sessions` | `LiveIsRegistered`, `OfflineHeals`, `GoneGoesOffline`, `SessionsEnd` | 2 nodes, 2 sockets, one of crash, shutdown and disabling, early loss |
| `Jobs` | no job is lost (`NothingLost`), run by two without a lease outlived (`RunAlone`), claimed beyond its budget (`ClaimsWithinBudget`), delivered twice without cause (`DuplicatesNeedUpset`); an endpoint that is off stays off until asked (`OffUntilAsked`); every job ends (`JobsSettle`) | 2 workers, 1 endpoint, 1 event, 1 job, 2 attempts, 1 crash, stall, failed statement or lost answer, 1 retry |
| `Routing` | `ClaimsExact`, `InFlightBounded`, `OnePerWindow`, `SpareUntouched` | 4 messages to 2 numbers, two of them for one SIM only, 2 SIMs in one phone with a rate of its own and 2 in flight at most, one capped at 1 number, 2 dispatchers, both strategies, 1 attempt, 1 upset |
| `Ownership` | `NoneStranded`, `TenantExact`, `ShownTrue` | 1 device, 2 nodes, 2 tenants, 2 requests at once, 3 changes, 1 message, 1 socket lost or message handed back |
| `Intake` | `AnswersTrue`, `OneMessagePerKey`, `RateBounded` | 2 callers, 3 requests, 1 key, bodies of one, two, and two equal entries, limit 2, 1 failure |
| `Ussd` | `Concludes`, `GivesUp` | 1 SIM, 1 request at a time, an administrator, 1 connection, 1 sweep, 2 failures to give up, 1 change, 1 death |
| `SmsCancel`, `OwnershipNamed` | statements of the code's comments and documents that the code does not keep | the smallest that shows it |

Why the bounds are enough. Two attempts are the least with which an earlier and
a current attempt can be confused and with which an attempt number is reused;
three SIMs let a third attempt be tried after an undone one; two dispatchers
let one undo what the other continues. An allowance of one with two messages to
one number makes a claim meet a row that is held, full or returned. Two nodes
and two sockets are the least with which a teardown and a handshake of one phone
overlap, on one node and across nodes. Two workers and one job are the least with
which a worker comes back to a job another one runs, and with two attempts that job
is put back once and given up once; jobs interact only through their keys, and two
jobs with two keys, two upsets and a retry were run once without the deliveries
(4.7 million states). Three messages are the least with which two dispatchers
claim for one number while a third one holds the cap, and the fourth fills a SIM to
its limit in flight while two dispatchers have read that it has room; with two
attempts and three messages `Routing` was run once (7.6 million states). Two nodes
let a device be changed where its phone is not connected; three changes let two
cross and a third follow.
Three requests let two race under a key and a third replay them; two requests with
every body of one or two entries were run once (0.8 million states). In `Ussd` an
answer, a sweep and a starter meet on one request and one SIM; with two
connections that handle an answer and its repetition at once it was run once (2.1
million states, five minutes), and with two requests at a time on one SIM, without
administrators, changes and deaths, for its invariant (0.8 million).

`MaxFaults`, `MaxUpsets`, `MaxChanges`, `MaxRequests`, `MaxRetries`, `MaxJobs` and
`MaxSlides` bound faults and what people ask for; the attempts are bounded by
`max_attempts`, as in the code. The theorems of section 5 hold without these bounds.

`TypeOK` of `GatewaySessions` and of `Intake` is proved rather than listed in a run. Symmetry is
used only in runs without a liveness property. `CHECK_DEADLOCK FALSE` everywhere: a
system whose messages are settled, whose phone has no socket left to open, or that
nobody asks anything any more, really stops.

## 4. Fairness

`SmsLifecycle`: `GatewayNode.start` sets a poll timer, and every pass takes what
is queued (`Dispatch`, weakly fair for every message); a sweep timer runs both
sweeps (`SelectLeases`, `ReclaimLease`, `SelectDeadlines`, `ExpireMessage`); a
dispatcher that committed goes on to the frame or the undo; a request that read
goes on to save; clocks advance. Nothing is assumed of a phone: it may never
acknowledge, never send and never report. `Settles` has one dispatcher, because with two
of them and a lost socket an undo from a stale copy can free attempt numbers
again and again.

`GatewaySessions`: handlers go on, the ping timer finds dead sockets that are
registered on a node that is up, the stale sweep runs, nodes that are down come
back, and a phone with a working socket sends heartbeats (its side of the
protocol). Nothing makes a phone connect.

`WebhookDelivery`: the poll timer of a runner starts a pass whenever none is under
way, and a pass goes on. A claim is strongly fair for every job: claims go to what
has been due longest, so a job that is claimable again and again is claimed. A
request to a receiver is timed out. A lease elapses once nobody holds it, and a
process that went down is started again by its supervisor. `JobsSettle` needs no
good will of receivers or tenants.

`Ussd`: every process sweeps, whether or not it holds phones; handlers that have
begun go on, unless they die; the session window passes. Nothing makes a phone
answer, an administrator act, a pass begin or a SIM fall due. That a SIM asked
without end is understood without end (`GivesUp`) holds although counts are lost:
a handler saves one more than it has read, so once all that read a value have
saved, the count is above it.

`Routing`, `DeviceOwnership` and `Intake` have safety properties only.

## 5. Proofs

Every safety property the passing runs check, invariants and action properties alike,
is a theorem as well. Each holds for any sets of messages, SIMs, phones, numbers,
dispatchers, nodes, sockets, workers, endpoints, devices, tenants, callers and requests
(finite where something is counted) and any bound on faults, from the one named
assumption of its module, except where a hypothesis is given below.

`SmsLifecycle`, from `ConstantsAssumption` (functions have their domains, limits are
natural numbers, `MaxAttempts` is positive, the null values are no elements):

* `TypeCorrect` from `TypeInv == TypeOK /\ RoomToTry`. The second part says that
  a queued message has an attempt left and that a row not written yet is blank;
  without it the next attempt number could leave `1 .. MaxAttempts`.
* `AlwaysHeldByItsAttempt` and `AlwaysInFlightHasBody` from `Held`, which adds to
  the property what holds of the text of a message in flight. One lemma per group
  of handlers shows that each either leaves the message in flight as it was or
  takes it out of flight.
* `LeasesAreRespected`: of all steps only `ReclaimLease` makes an attempt time out, and it
  looks again; reports close attempts as failed, and `Held` says which is the current one.
* `AlwaysOneHandOffPerSim` and `AlwaysCopiesWithinBudget` from `Carriers`:
  a SIM has at most one row per message (`OneRowPerSim`), a committed hand-off has
  a row that names its SIM (`PendingHasRow`) and that row is its alone
  (`PendingAlone`), and a job a phone was ever given has a row that no dispatcher
  can delete any more (`JobHasRow`). The budget follows by counting: the SIMs that
  sent inject into the attempt numbers.

What becomes of a message (`SmsOutcomeProofs`) has a hypothesis, `Undisturbed`: no cancels,
no deadlines, no lost sockets. The three writers it excludes save a row without looking
at what it has become, and do break these promises (section 6), so the promises are
proved of everything else: any number of messages, phones and dispatchers, late, repeated
and overtaking reports, elapsed leases, retries and restarts. `StepKinds` says that a step
is then one of few: a message is sent, deferred, assigned, acknowledged, closed and
retried, or heard to have been sent (`Heard`, with the verdict), or an attempt is closed
late. `Kept` is the inductive part they share: only a message in flight has a lease, an
open one has its text, and a recorded send is never lost.

* `SuccessIsKept` is the last conjunct of `Kept`; it needs the others, since only a lease,
  an open status or a text distinguishes the messages that sweeps and retries may touch.
  `RevivalsAreProven` goes through the kinds of step.
* `OutcomesArePublished` from `Told`: the status, and the fact of the send, have a job for
  every subscribed event. A job that still waits makes `Publish` refuse the transaction,
  so an outcome is never written without its event.
* `SlotsAreReturned` is inductive as it stands, in the strong form the run now checks: a
  slot that counts nothing is held only while a message to its number is in flight on its
  SIM (earlier versions also accepted a job in the phone or a dispatch under way).
* `SendsAreCountedOnce` from `Counted`: the number of attempts recorded as sent equals the
  ledger's count, and they are finitely many, without which a cardinality says nothing.
* `ChargedWhereSent` has another hypothesis, `OneSimPerPhone`, and not `Undisturbed`: a report
  names its phone and not its SIM. It rests on `AlwaysOneHandOffPerSim`: what a radio has
  sent is not overwritten by a second hand-off.
* `ContractIsKept`: initial states of `SmsLifecycle` map to initial states of `SmsContract`,
  and each kind of step to a step of it or a stutter. This is the safety part of
  `KeepsContract`; its fairness is checked by `SmsKept`.

`GatewaySessions`, from `SessionsAssumption`:

* `AlwaysLiveIsRegistered`, with `Placed` (a used socket has a node): a socket
  is registered when it begins to be listened to, registering closes its
  predecessor, and it leaves the registry only closed.

`JobQueue` and `WebhookDelivery`, from `JobQueueAssumption` and `WebhookAssumption`:

* `QueueRunsAlone`, with any handler, and `DeliveriesRunAlone`, with the deliveries,
  from `QueueInv`. It adds to the property that the lease of a job in hand is running
  (`HeldUnderLease`): `LeaseElapses` is the only step that ends one under its holder,
  and it counts that as a stall. The deliveries need two facts more: a handler is
  somewhere in a delivery only while its job is being handled (`Attached`), and what is
  published is an event (`Announced`), so that what is enqueued has a key.
* `DeliveriesWithinBudget` from `Accounted`. A bound on the claims alone is not
  inductive: a worker that was taken for dead may put the job back while its successor
  holds it, and the attempts of the row do not show how often that can still happen.
  `Accounted` adds to the claims made whatever can lead to another one: the job is due,
  a claim in hand with attempts left (`Tries`), and the attempts not made (`Untried`).
  No step adds to that sum but a retry and a reclaim, which add as much to the budget.
* `DeliveriesTyped`; `DeliveriesNeverLost` from `Answered`: not only a deleted job is settled,
  but so is one whose handler has returned or whose receiver has accepted, whoever else
  holds the job by then; `OffStaysOff`.
* `DuplicatesAreBounded` by the same kind of account (`Spared`): the requests received, plus
  everyone who may still post without a further upset (`Trying`), plus the workers that
  stop and leave a job behind (`Leaving`), plus one if the job itself waits or is left to
  its lease (`Exposure`), never exceed one plus the upsets. A post takes its worker out of
  the sum, and a claim turns the job's share into its worker's.

`Routing`, from `RoutingAssumption` (with finitely many dispatchers, SIMs and numbers),
over `Sound`: what a pass that is open has locked and where it stands on its shortlist.

* `InFlightStaysBounded` from `Roomy`: to the messages in flight on a SIM, add the dispatchers
  whose shortlist still has it. A dispatcher comes in only while there is room, and leaves
  the sum when its message joins it. The bound alone is not inductive.
* `WindowsHoldOne` from `WindowInv`: a row whose window is over, or which a dispatcher has
  reserved and not committed, has paced nothing yet; the row locks let one reserve.
* `ClaimsStayExact` from `ClaimInv`: a dispatcher that has counted and not written yet finds,
  by the lock of the SIM's row (`Exclusive`), room for the slot it is about to write.
* `SparesStayUntouched` from `Ordered`: all that comes earlier in the fleet than a SIM on a
  shortlist, may carry the message and has not tried it, was full before, and stays on
  record as such, whatever the shortlist has lost since. A shortlist made of SIMs the
  number knew already is not in order, and `known` exempts it, as the code means to.

`DeviceOwnership`, from `OwnershipAssumption`:

* `TenantsStayExact`: a change made from the row as it is writes both columns or neither
  that differ; `crossed` records the others.
* `MessagesSettled` from `SettledInv`, which speaks of messages on their way too: one that is
  handed back, or written late, waits again with the device it named.
* `PhonesShowTrue` from `Told`: a connected phone shows the row, or a request is going to tell
  it of the row. The property had to be corrected for it: with a second node, a change on
  the node that does not hold the phone's socket tells nobody (section 6). It was true
  only of the one node the run had.

`Routing` was corrected in the same way: `SpareUntouched` held in its run for want of a
fourth message, and now says which shortlists and which SIMs it is about.

`Intake`, from `IntakeAssumption` (the null key is no key, the callers are finitely many):

* `AlwaysTyped`, `AnswersAreTrue` and `KeysStayUnique` from `IntakeInv`. `Numbered` says that
  requests have numbers of their own, so that a row tells whose it is; `OneRowPerKey` is the
  unique index; `Truthful` is what an answer says of the row it names; `Stage` says what a
  request at each of its steps has written: what it accepted, one row more while its
  events are traced, and nothing before a bulk insert. The rows of that insert get their
  numbers by counting (`UpToGrows`, `EveryNumberTaken`), each entry one of its own.
* `RateStaysBounded` from `RateInv`. The bound alone is not inductive: a request that was
  admitted adds rows after the last one was weighed. What it still owes is added to the
  rows (`Debts`), and a step then only pays for what it writes from its own debts
  (`PaidFromOwnDebts`) while the sum stays within the limit and the crowd. A request that
  is admitted finds the rows and its own cost within the limit, and the debts of all
  others are the crowd. `Crowd` counts a set of owed entries, and not with a fold, so
  that this can be proved.

`Ussd`, from `UssdAssumption`:

* `AlwaysTyped` from `UssdInv`: the row that a starter or a handler has in hand is there
  (`Starting`, `InHand`), which is what the guard of `Forget` is for. The proof found two
  arms of a CASE in `SavedSim` that overlapped, of which TLC took the first and TLA+ any;
  it is now the chain of conditions that the code has.

Only model-checked: liveness (`Settles`, `OfflineHeals`, `GoneGoesOffline`, `SessionsEnd`,
`JobsSettle`, `Concludes`, `GivesUp`) and the fairness in `KeepsContract`. They need fairness
and ENABLED, which are beyond the prover.

## 6. What the code does not keep

Checked by a run each, and quoted under `findings`:

* a cancelled message may have been sent by a radio (`SmsCancel`);
* a message that named a device is carried by another after the device was removed
  (`OwnershipNamed`): the foreign key sets the name to NULL.

Found with TLC in the same way, without a run that is kept:

* the deadline sweep may expire a message that has been assigned or sent since it
  was selected (`sms_result_service.ts:216`);
* the undoing of an assignment from a stale copy may throw a recorded success away
  (`sms_dispatcher.ts:398`);
* a message whose only SIM lost its lease is queued forever
  (`sms_dispatcher.ts:152`);
* a late teardown may mark a phone offline that has moved to another node
  (`gateway_service.ts:207`);
* an alert is de-duplicated only until it is delivered, since its key goes with the
  job's row: while its condition lasts it is delivered again at every sweep
  (`job_queue.ts:140`);
* `release` deletes a slot beside a claim that found it held and has not committed
  yet, and a message is then in flight without its number in the ledger
  (`recipient_allowance.ts:131`).

These are the reason for switches in the other runs: `SmsOutcome` has no cancel,
no deadline and no lost socket, `SmsKept` neither cancel nor deadline nor lost
socket, and `SmsLive` has as many SIMs as attempts.

Seen while modelling, without a run:

* a cancelled message returns no allowance slot;
* in a phone with two SIMs a report names the job, not the SIM, and
  `lockOwnedMessage` takes the phone's latest attempt for it, so the wrong SIM may
  be charged (`CountedWhereSent` gives every SIM a phone of its own);
* `TERMINAL_SMS_STATUSES` are said never to change, but a late success revives a
  failed or expired message (`RevivedOnlyByProof` is what does hold);
* a message that the dispatcher finds expired is settled without an `expired`
  event, unlike in the deadline sweep, and `OutcomePublished` therefore
  leaves `expired` and `cancelled` unsubscribed;
* `disabled` in `gateways.status` is overwritten by a handshake or teardown in
  flight; `is_active` still keeps the phone out at its next connect and out of routing,
  but its present socket stays open;
* a session row stays open when its process dies, or when the socket was lost
  before anyone listened; `SessionsEnd` excepts both;
* handshakes of one phone may finish out of order on one node, and then the older
  socket closes the newer one.

Job queue and webhooks:

* a job that kills its worker is claimed again without bound (`ClaimsWithinBudget`
  grants one claim per lease that elapsed), and a worker that comes back late can
  put a job back to pending that another one has failed for good;
* a delivery whose success cannot be recorded is made again;
* an endpoint is switched off in a statement after the count, also if a delivery
  has succeeded or a tenant has switched it on in between;
* two requests at once can exceed the limit of ten endpoints.

Routing:

* a dispatcher that undoes its assignment late clears the pacing window of its
  successor (`OnePerWindow` excepts it);
* a report that comes after the slot went back may exceed the cap
  (`ClaimsExact` excepts it);
* two dispatchers that hold a SIM each and want one phone may deadlock; PostgreSQL
  aborts one of them.

Device ownership:

* two claims may both find the device free, and the second overwrites the first;
  partial saves from older rows can leave a pool device with a tenant
  (`TenantExact` excepts devices with crossed changes);
* a message in flight when its device was released, or that names a pool device taken
  from the pool, is not failed, and with the default expiry of 0 it waits forever
  (`NoneStranded` excepts it);
* a phone on another node is not told of a change, SESSION_READY describes the row
  as it was read at authentication, and a removal closes the socket while the
  token still opens a new one;
* registration writes the row, then the token: a phone whose registration dies
  between them is refused until an operator removes the row;
* an empty list of SIMs marks no slot absent.

Intake:

* replays and refused entries are charged against the rate as new messages are;
* a header key is cut to 128 characters and `:index` is added behind it, so with a
  key of that length every batch fails, and two long keys with one beginning are
  one key; a single message's key `K:0` is the key of the first entry of a batch `K`;
* a repeated bulk entry is refused even if the entry it repeats was a conflict;
* a bulk request whose second insert is refused too, by a batch that inserts entry by
  entry under the same key, fails with nothing written.

USSD:

* an answer that arrives before `sending` is saved is overwritten by it; the sweep
  then closes the request as failed and counts a failure;
* the sweep and an answer may both close one request, which then shows two outcomes
  in turn (`ussd_service.ts:127` says it should not), and both count;
* two counts may become one, a success may leave failures counted since it read the
  SIM, and a failure counted late undoes a re-arming;
* the scheduler starts a session on the next SIM without waiting for an answer
  (its comment says one at a time);
* a code removed while its session runs makes the answer a counted failure;
* a request whose frame could not be written is not counted, and the SIM stays due;
* a swapped SIM keeps the balances and the failures of the one before.

Wake-up: a listener that fails while reconnecting is not tried again until the process
restarts, and stopping ends only the first connection; polling carries on.

## 7. Not modelled

In `SmsLifecycle`: the text and its encoding, the order in which SIMs are
preferred and the pacing of a SIM (see `Routing`), the day's end in the allowance,
retry delays, the event timeline, the RESULT_ACK frame. A `cancelled` event is
published outside a transaction; `PublishAlone` models it.
In `GatewaySessions`: tokens, telemetry, the kill of a process whose shutdown hangs.
In `Routing`: the arithmetic of scores (an order of SIMs stands for it), the end of the
day, USSD balances as a reason for a SIM to be unusable. In `WebhookDelivery`: bodies
and signatures, backoff times. In `DeviceOwnership`: sockets that replace one
another and the disabling of a device (`GatewaySessions`), telemetry. In `Intake`:
which check refuses an entry, several clients of one tenant, the audit record (its
errors are swallowed). In `Ussd`: several operators, the values of a balance, the
limits of 100 swept and 5 scheduled SIMs per pass, and reports of a phone that holds
a request's SIM no longer.

The modules share tables but not states: what one leaves open (which SIM is usable,
when an event is published, when a device is removed) it leaves to every choice
the other may make. A composition of all of them is beyond TLC.

Pure functions over strings (encoder, phone normaliser, USSD parsers, signatures) are
left to the unit tests; reports, monitoring and most of administration are queries and
single writes; the wake-up signal is an optimisation on top of a poll.

## 8. Plan

Done: `SmsLifecycle` with its contract, runs and proofs; `GatewaySessions`; `JobQueue`
with `WebhookDelivery`; `Routing`, which took in the allowance; `DeviceOwnership`;
`Intake`; `Ussd`.

Proved: all that the passing runs check of safety, in every module, and the steps of
the refinement. Liveness stays with TLC.

Not done, in the order of what it would say: the deadline sweep, cancel and lost
sockets without the hypothesis `Undisturbed` once the code locks the rows it saves; a
lock order between the ledger and the message, below the grain of `SmsLifecycle`; a
composition of `Routing` with the results of the phones.
