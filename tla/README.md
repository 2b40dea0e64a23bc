# Formal models of the Hellum IoT backend

TLA+ modules that model the backend under `src/app`, TLC configurations that check
them on small instances, and proofs that TLAPS checks for every instance.
`PROJECT.json` maps each definition to the lines it models and lists the
components, runs, hazards and theorems.

## 1. The system

A FastAPI application, started by uvicorn with two worker processes
(`src/Dockerfile`), over MongoDB and one MQTT broker (Mosquitto). The processes
share nothing but the database and the broker; inside a process everything runs
on one event loop, so code interleaves at `await`s only. MongoDB operations on one
document are atomic; there are no transactions.

| part | state | operations | talks to |
|---|---|---|---|
| Device provisioning (`consumer.py`, `mqtt_service.py`, `smarthome_device_repository.py`) | `binding_tokens` (unique token, TTL index), `smarthome_devices` (unique MAC) | request token, handle registration (3 database calls), list, rename, release | bridge, catalog |
| Device model catalog (`device_models.py`) | `device_models` (unique slug) | create, update, delete, list | read by the registration handler |
| Device administration (`smarthome_admin.py`) | - | list, forced delete (2 database calls) | `smarthome_devices` |
| MQTT bridge (`mqtt_service.py`, `main.py`) | per process: `_run` task, command queue, aiomqtt client | start, stop, publish_command; loop: connect, subscribe, listen, drain | broker, handlers, fulfillment |
| Google Home fulfillment (`smart_home.py`) | - | SYNC, QUERY, EXECUTE | `smarthome_devices`, bridge queue |
| OTA administration (`admin.py`, `admin_service.py`) | `releases`, GridFS files, `device_overrides` | create release, upload firmware (3 calls), enable, rollout, override | read by the check |
| OTA check and download (`check_service.py`, `smart_switch.py`) | `devices`, `audit_checks` | check (up to 7 database calls), download (2) | `releases`, overrides, GridFS |
| OAuth and consumer sessions (`oauth.py`, `consumer.py`) | `oauth_codes`, `refresh_tokens`, `users` | authorize, code grant, refresh grant, sign-in | Google |
| Admin roles (`admin_roles.py`, `security.py`) | `admin_users`, the `SUPER_ADMIN_EMAIL` setting | authenticate, authorize, grant, revoke | before every admin route |
| Rate limiter (`rate_limit.py`) | per process: hit times per client | admit or refuse | before the OTA check |

What is hard, and the properties that make each part correct:

* **Provisioning.** The handler makes three database calls, two workers may run it
  for the same message, MQTT may deliver a message twice, late or never, the TTL
  monitor and the clock run on their own, and the handler can be cancelled at any
  `await`. Correct: a token pays for one device at most, the device belongs to the
  token's user, a claimed MAC changes hands only through a delete, an expired
  token stays dead.
* **Bridge.** Two tasks in a TaskGroup over one connection, errors that cancel the
  sibling, a queue that outlives connections, a back-off, several processes under
  one client identifier, a cancellation that may be lost, a queue that dies with
  its process. Correct: no accepted command vanishes unaccounted for, repetition and
  reordering only where a failed publish was put back, one loss per break, the queue
  is drained after an outage, the loop runs as long as the app and ends with it.
* **Fulfillment.** Ownership is checked when a command is accepted and the command
  is published later; reports come back on their own time. Correct: QUERY tells the
  last report processed, a command comes from a present or past owner.
* **OTA.** A check reads the device, its pin, the pinned release and the newest one
  at different moments, while administrators change them all; any call may fail,
  and the check is then finalized once more; the download comes later and names a
  version, not a file. Correct: file and hash of a release belong together, an
  offer was to be had during the check, a pin wins, a blocked device gets nothing,
  the audit log says what was answered, and what is downloaded is what was offered
  unless it was replaced.
* **Sessions.** Consuming, checking, deleting and inserting grants are separate
  calls of two endpoints over one collection, while grants expire and are swept.
  Correct: a code or a token is good for one pair, a session stays with its
  account, a used or expired grant stays dead.
* **Roles.** Requests of several administrators are authorized and act in different
  steps, and the setting may change with a restart. Correct: only the setting makes
  a super admin, a person has one grant under any spelling, a request acts only for
  somebody who had access since it came.
* **Rate limiter.** The queue forgets what left the window. Correct: it decides as
  if it did not, and no stretch as long as the window holds more than the limit.

## 2. Modules

| module | what it is |
|---|---|
| `Provisioning` | token, handler, consumer and admin operations over MongoDB, one database call per step |
| `DeviceClaims` | what provisioning promises: issue, atomic claim, void, release |
| `MCProvisioning` | symmetry sets for TLC |
| `ProvisioningProofs` | typing, inductive invariants, action properties and the refinement, proved |
| `MqttBridge` | the bridge tasks of every worker, their queues, the broker's session |
| `MqttBridgeProofs` | typing, inductive invariants, back-off, losses and the refinement of `MqttBridge`, proved |
| `CommandChannel` | what the bridges promise the rest of the system: an accepted command waits, is delivered, settles or is dropped |
| `SmartHome` | fulfillment: composes EXECUTE, `CommandChannel`, device, broker, state handler and QUERY |
| `MCSmartHome` | endpoint ids and boards for TLC |
| `SmartHomeProofs` | typing, inductive invariant and safety properties of `SmartHome`, proved |
| `Sessions` | sign-in, account linking, code and refresh grants, one database call per step |
| `MCSessions` | symmetry sets for TLC |
| `SessionsProofs` | typing, inductive invariants and action property of `Sessions`, proved |
| `Releases` | releases, uploads in three steps, pins: what administrators do |
| `ReleasesProofs` | inductive invariant of the releases and uploads, proved |
| `Ota` | checks and downloads, one database call per step, composed with `Releases` |
| `MCOta` | versions, ranks, percentages and symmetry for TLC |
| `OtaProofs` | typing, inductive invariants and action property of `Ota`, proved |
| `SlidingWindow` | what a rate limit promises, over the whole history |
| `RateLimiter` | the middleware of one process: queues, clock, restarts |
| `AdminRoles` | verification, authorization, grant and revocation |
| `FrontDoor` | `RateLimiter` and `AdminRoles` in the process that restarts with both |
| `MCFrontDoor` | emails, their spellings and symmetry for TLC |
| `FrontDoorProofs` | typing, invariants and the refinement of `FrontDoor` and its parts, proved |

`Provisioning` implements `DeviceClaims`, `MqttBridge` implements `CommandChannel`
and `RateLimiter` implements `SlidingWindow`. `SmartHome` uses both parts in the abstract form: claiming or
releasing a device is one step, and the queues, tasks and connections that carry
a command are the three sets of `CommandChannel`. `Sessions` shares nothing with
them but the identity of a user. The firmware service shares nothing with the smart
home but the process: `Ota` is composed of `Releases` and the devices' side, and
`FrontDoor` of the two guards before them.

### Provisioning

A collection is a set of documents, a filter the set of documents it matches
(`Redeemable`, `Owned`, `WithMac`, `CatalogEntries`), a unique index a guard on the
insert (`MacFree`). `stage[w]` is the database call the registration handler of
worker `w` makes next: `consume` (`find_one_and_update` on the token), `check`
(expiry), `lookup` (catalog), `create` (insert); `msg`, `userId` and `layout` are its
locals. `Abort` ends a handler at any of them: a database error that
`_listen_messages` logs, the cancellation of the listener by its sibling task or by
`stop()`, or a crash. A message is not kept anywhere: `ReceiveRegistration` hands
a free worker any message, so loss, duplication and reordering need no variable.
MAC strings are the lower-cased, stripped ones the handler stores; an endpoint list
is an opaque value, and a display name is reduced to who chose it (`namedBy`).
`issuedTo`, `claims` and `grant` are history variables. `Workers` has one member for
each handler at work: a worker process has one, and a cancelled one whose call
motor's thread has already begun keeps a member until that call took effect.

### MqttBridge

`run[w]` is where `_run` stands; `sleep` is the back-off. `inflight` and `arrived`
are the publisher between `get()` and the return of `publish`, `inbox` and `busy` the
listener, `link` what the aiomqtt client knows of its connection, `session` which
worker the broker has under the one identifier. `LeaveClient` is what the end of
the TaskGroup and of `async with aiomqtt.Client` do together. `PublishFails` and
`ListenerFails` differ in what becomes of the command in flight, as in the code: a
failed publish puts it back, a cancelled one does not.

aiomqtt and Mosquitto are external. Modelled of them, from how the code uses them:
one session per identifier; `messages` yields what was received and then raises on
a broken connection; `publish` raises on a broken connection and by time-out;
leaving the client raises the connection's error if it broke and otherwise
disconnects quietly. A command is its number; what handlers do with messages is
the subject of the other modules, and so is what a cancelled handler's database
call still does after its connection.

`Stop` is the `stop()` of the shutdown: it cancels the task where it is, once. That ends
the loop, and with it the process (`ProcessEnds`), unless the task is in a client that
knows its connection broke: the error of leaving the client then takes the place of
the cancellation, and the loop goes on (`LoopGoesOn`) while `stop()` waits. `Exit` is any
other end of a process: it is killed, or `stop()` raised the error a dead loop left.
The queue is in the memory of the process and goes with it; a process that is
started in its place is another member of `Workers`. A command is accepted in one step
with its `put`, which does not wait, and none is accepted once `stop()` was called, since
the server calls it after its last request.

`accepted`, `owner`, `received`, `lost`, `abandoned`, `requeues` and `failures` are history
variables: the commands accepted and by which worker, what the broker got in its
order, what was lost in flight with a cancelled publisher, what a process still had
when it ended, how often each command was put back, and the breaks since the last
connection. `NoCommandVanishes` counts on `lost` and `abandoned`, and says of each what it
may hold: nothing that is still anywhere, and of what was left behind only what an
ended process had accepted. A queue is one process's, so order
(`OvertakenOnlyIfPutBack`) is promised only among the commands of one worker.

`ImplementsCommandChannel` maps the commands that are queued or in flight to
`waiting`, the broker's deliveries to `delivered`, and what was given up, one command with
a connection or all with a process, to `dropped`; putting a failed command back is a
stutter.

### SmartHome

`ExecuteFind` and `ExecutePut` are the two halves of an EXECUTE target, around the
`await` of its `find_one`; in between, the device may change hands. Devices and the
broker are external: a device reports whenever it likes and whenever it obeys, and
a report reaches the worker that has the session, or nobody. `inbox` and `handling`
are the client's messages and the handler's write. A handler that is cancelled
during its write leaves it `adrift`: motor runs the call in a thread, so it may take
effect later (`LateWrite`), also after the next connection's. Processes do not end
here: what their end does to commands is a step of the channel
(`CommandsLeaveChannel`), and what it does to reports is what leaving the client does.

What splits a string at underscores is modelled on the words between them: an id
is the sequence of its words, so `rsplit("_", 1)` takes the last word and demands
that the rest be one 12-character MAC. Reports have numbers in the order in
which the devices publish them; `createdAt`, `written`, `gone` and `owners` are
history variables that use those numbers.

### Sessions

`stage[r]` is the database call request `r` makes next, `userId` and `via` its locals:
the user, and the code or refresh token (a grant) it presents. `Upsert` is the
shared first call of sign-in and of authorize, `ConsumeCode` the
`find_one_and_update` of the code grant, `FindRefresh`, `PassCheck`, `DeleteRefresh` and
`Mint` the calls of a refresh; the consumer endpoint and the OAuth endpoint have
the same code over the same collection and share the actions. `Abort` ends a
request between two calls. A pair is its refresh token, because an access token
is stored nowhere. `issuedTo`, `source` and `pairs` are history variables: to whom a
grant was issued, for which grant a refresh token was had, and how many were.

### Releases and Ota

`releases[v]` is the document of version `v` of the one device type whose devices
check for updates, reduced to the fields the check reads; `uploads[u]` is how far the
upload of file `u` has come (`found`, `stored`, `linked`), and a file stands for its
bytes and their hash. An upload that fails or dies between two calls is one that
takes no further step. A version is compared by `Rank`, its semver precedence.

`checks[r].stage` is the call request `r` makes next: `touch` and `find`
(`upsert_last_seen`), `override`, `pinned`, `latest`, then `result` and `log`
(`_finalize`), then `answered`, and `download` between the lookup of the file id and the
stream. `pin`, `verdict` and `file` are its locals, `log` what it has written to
`audit_checks`, `got` what the last download brought. `Fail` is the exception
that `check_smart_switch` turns into the fallback; a call may have taken effect
before it failed, which matters for the audit entry only. `Cut` is a fallback that
failed as well, or a process that died. `AdminStep` is any step of `Releases`
together with the history `since`: what was available, and which pin held, from the
first step of the check to its decision.

Abstracted: `get_active_latest` is one read; the rollout bucket is a constant of the
device, because it is a hash of its MAC; `RefuseDownload` may happen at any time, because a
link expires with the clock; `last_check_result` is not kept, because nothing reads
it, but writing it may fail; the `blocked` flag is set by hand, because no route
sets it; `override_invalid` is no result, because a pin is parsed when it is set.

### RateLimiter and AdminRoles

A request is counted without an `await`, so `Accept` and `Reject` are one step each:
times are taken from the front of the queue (`Expired`, `Dropped`), and the rest
decides. `admitted` is the history. The clock ticks in the unit of the
limit and does not go back; the code uses the wall clock and would not survive one
that does. The queues are one process's: with two workers a client gets
twice the limit, and a restart (`Forget`) starts the promise anew.
`ImplementsSlidingWindow` keeps `now`, `admitted` and `answer` and leaves out the queues.

`requests[q].stage` is `verified` between the verification of the Google token, which
runs in a thread, and the look at the setting or `admin_users`, and `authorized`
between that and what the route does. `Canon` maps each spelling of an email
to the lowered and stripped one. `entitled` and `supers` are history variables:
whether the sender had access since the request came, and everybody the setting
has named. `Serve` stands for all other admin routes.

## 3. Runs

| run | instance | shows |
|---|---|---|
| `provisioning` | 2 users, 2 MACs, 2 tokens, 1 model, 2 endpoint lists, 2 workers, symmetry | all safety properties, and that every behaviour is one of `DeviceClaims` |
| `bridge` | 1 worker, 2 commands, 7 faults, inbox of 1 | what becomes of commands, that each settles, the reconnect delay, and that every behaviour is one of `CommandChannel` |
| `bridge_dies` (violation) | 1 worker, 1 command, 1 fault | finding 1 |
| `two_workers` (violation) | 2 workers, no command, no fault | finding 2 |
| `stop_waits` (violation) | 1 worker, no command, 1 fault | finding 3 |
| `reports` | 1 device, 1 endpoint, 2 workers, 2 reports, 3 connections, 1 fault | reports settle; at rest the database follows the device unless a loss the property names |
| `commands` | 2 users, 1 board of 2 endpoints (one list repeats an id), 1 command, 1 report | QUERY tells the last report, commands are an owner's |
| `overtaken` (violation) | 2 workers, 2 reports, no fault | finding 4 |
| `sessions` | 2 accounts, 1 code, 3 refresh tokens, 2 requests, symmetry | all safety properties of `Sessions` |
| `double_refresh` (violation) | 1 account, 3 refresh tokens, 2 requests | finding 5 |
| `ota` | 1 device, 1 check at a time, 2 versions to release and an older one to run, 2 uploads, percentages 49 and 50 for a device in bucket 49, symmetry | all safety properties of `Releases` and `Ota` |
| `front_door` | 1 client, limit 2 in a window of 2, clock to 6; 2 people, one spelled in two ways, 2 requests, restarts, symmetry | the safety properties of the limiter and the roles, and that the limiter implements `SlidingWindow` |

Two users, MACs, tokens and workers are enough for a conflict over each of them,
and a MAC can be claimed, released and claimed again by another user; the proofs
cover all other sizes. The runs check the properties; the inductive invariants
behind them (`TokenInv`, `CodeInv`, `QueueHoldsTheWindow`, `CheckInv`, `CommandInv`,
`Connections` and the others of section 4) are proved. Two commands let one be put back behind another; seven
breaks in a row take the delay 1, 2, 4, 8, 16, 32 to its cap of 60. Two reports
over three connections and two workers give every order of two writes, a handler
cancelled in mid-write among them. Three refresh tokens let two requests present
one and each store another. Two uploads race for one release or serve one each; two
versions let the pin, the newest enabled release and the running version be in
every order; checks share no state but what administrators change and the device's
document, so a second request at a time only repeats the first. A window of 2 and
a limit of 2 with a clock to 6 give admissions at every distance around the
window's edge, three windows in a row. `MaxTime`, `MaxCommands`, `MaxFaults`, `MaxInbox`, `MaxReports` and
`MaxConnections` bound the models, not the code: the queue has no limit.
`provisioning`, `ota` and `front_door` have no state to stop in; the others stop when the bounds are used
up, when the process has ended, or when no unissued grant is left, and so do not
check for deadlock.

Fairness (`MqttBridge!Fairness`): weak fairness of each step the event loop takes by
itself (a ready task runs, `asyncio.sleep` ends), of the broker's answers and of
noticing a broken connection (keep-alive). Nothing is assumed about faults, new
messages, API calls or shutdown; the bound on faults makes outages end. `StopReturns`
takes the call of `stop()` as given and asks for its return.

Fairness (`SmartHome!FairSpec`): a listener with a message takes it, and a write whose
handler or thread has begun takes effect. The code does both without a condition that
could stop it. That a bridge connects again is not assumed, because finding 1 refutes
it, and not needed: reports of a connection that is never made are never under way.
Nothing is assumed of devices, sessions, users or lost messages. `Provisioning`, `Sessions`, `Ota` and
`FrontDoor` promise nothing that must happen: a request may fail at each step.

### Findings

1. `bridge_dies`: an `MqttError` raised inside the TaskGroup arrives at
   `except aiomqtt.MqttError` as an `ExceptionGroup` and is not caught, unless leaving
   a broken client replaces it. A publish that times out while the client believes
   it is connected therefore ends the "persistent reconnecting loop" for good, and
   the API goes on accepting commands.
2. `two_workers`: with two workers and one client identifier each connection ends
   the other's. The "long-lived connection" never stays, without any fault.
3. `stop_waits`: `stop()` cancels the bridge while its client knows that the connection
   broke. Leaving the client raises the connection's `MqttError` in place of the
   `CancelledError`, `except aiomqtt.MqttError` takes it, and the loop sleeps, reconnects
   and serves. `stop()` awaits it, so that the shutdown ("stop MQTT bridge then close
   MongoDB") does not get to its second half.
4. `overtaken`: two workers hold one report each of one endpoint, and nothing orders
   their writes. The older can be written last, so that `state` is not "the most
   recently known ON/OFF value" until the device reports again.
5. `double_refresh`: a refresh token is found first and deleted later, and nobody
   looks at what the delete removed. Two requests with one token both get a pair,
   where one was to be rotated into another.

One more divergence has no run. SYNC announces the endpoint id `relay_a`, which the
documentation of the catalog gives as an example, in an id that QUERY and EXECUTE refuse
(`Malformed`), because `rsplit` takes `a` for the endpoint.

Three things the `ota` run shows that no document speaks of, and that are therefore
no findings: of two uploads for one release the one linked last wins, whichever
was started first; a device that runs the version it is pinned to is offered the newest
release all the same; and a check is not atomic: it may answer with a pinned version that
was released only after the pin was removed. `OfferWasAvailable` says what is left.

## 4. Proofs

`ProvisioningProofs` proves, for any users, MACs, tokens, models, endpoint lists and
workers, under the one assumption that `None` is none of them:

* `Typing`: `TypeOK` is inductive.
* `TokenSafety`: `OneDevicePerToken` is not inductive: that `claims[t]` is 0 when a
  handler inserts depends on who else may be about to insert. `TokenInv` adds that a
  held token has been spent by nobody yet, cannot be redeemed and is held by one
  handler (`HeldTokenIsReserved`), and that a token document is the only one of its
  token and unused only if nothing was claimed (`TokenDocsAreSound`).
* `OwnersHeldTheToken`, `DocumentsAreUnique`, `NamesAreTheOwners`: `OwnershipInv`, on
  top of `TokenInv` (the inserting handler's user is the token's).
* `LinksArePermanent`, `ExpiredTokensAreDead`: the action properties.
* `ProvisioningImplementsClaims`: refinement. A token is open while its document is
  unused or a handler holds it; `CreateDevice` is the claim, giving up a held token or
  sweeping an unused one voids it, everything else stutters.

`SessionsProofs` proves, for any accounts, codes, refresh tokens and number of
requests, under the assumption that codes, refresh tokens and `None` differ:

* `Typing`: `TypeOK` is inductive.
* `CodeSafety`, `CodesAreOneTime`: as for binding tokens. `CodeInv` adds to
  `OnePairPerCode` that a consumed code is one request's alone, cannot be redeemed and
  has paid for nothing yet, and that an unused code document is the only one of
  its code and has paid for nothing.
* `SessionsStayWithTheirUser`: `SessionStaysWithUser` is inductive together with
  `CodeInv`; a grant is issued once, so a new one disturbs no older chain.
* `DeadGrantsStayDead`: the action property, from `TypeOK`: no step brings a document
  of a dead grant back, and only a request past the check can store a pair.

`FrontDoorProofs` proves, for any clients, limit, window, emails and number of requests,
from `LimitAssumption` (limit, window and clock are natural numbers), `NoEmailAssumption`
(`None` is no email and no role) and `CanonAssumption` (lowering an email twice is
lowering it once):

* `LimiterHolds`, and from it `FrontDoorLimits` and `FrontDoorQueues`. `NeverTooMany` speaks
  of the history, the code of the queue: `QueueHoldsTheWindow` ties them, since what is
  not in the queue lies before the window. `Ordered` adds that admissions are in the
  order of time. The arithmetic is in two lemmas about any ordered sequence,
  `WindowIsTheEnd` and `GoneAndLeft`; `LeftIsTheWindow` concludes that after the
  loop the queue is full just if the window is.
* `LimiterImplements`, `FrontDoorImplements`: refinement. By the same lemma `Accept` is
  `Admit`, `Reject` is `Refuse`, `Forget` is `Renew`.
* `RolesHold`, and from it `GrantedOnce`, `SuperBySetting`, `GrantedBySupers`,
  `AccessBeforeAction`. `RolesInv` adds that every grant is for the plain role and
  under the lowered spelling (`GrantsArePlain`), that the history of the setting
  includes the present one (`SettingIsRecorded`), and that whoever would be let in
  now is recorded as having had access (`EntitledIfLetIn`).
* `FrontDoorTyped`: typing. `Halves` carries all this from the parts to the whole: a
  step of `FrontDoor` is a step or a stutter of each.

`ReleasesProofs` and `OtaProofs` prove, for any versions and order of them, uploads,
devices, buckets, percentages and number of checks at a time, from the assumptions that
ranks are natural numbers, buckets and percentages lie between 0 and 100
(`RankAssumption`, `PercentagesAssumption`, `BucketAssumption`) and that `None` and
`NotFound` are no value of the others (`NoneAssumption`, `OtaAssumption`):

* `ReleasesHold`: `ReleaseIsWhole` with `UploadsHaveReleases` (an upload that found its
  release still has one when it links its file, since releases are not deleted).
* `ChecksAreTyped`, `ReleasesStayWhole`: the same under the devices' steps.
* `OffersWereAvailable`, `PinsAreObeyed`, `BlockedDevicesGetNothing`,
  `AnswersAreAudited`, `DownloadsAreAsOffered`: none is inductive, because each speaks of an
  answer and a check reads for several steps while administrators go on. `CheckInv`
  says of each what it means in the middle of a check: the history has all that
  is available now (`AvailableIsRecorded`), a pin that still holds is the one read, so
  that the check never comes to the latest release (`PinIsFollowed`), a flag set
  before the check stops it at the test (`BlockedStaysBlocked`), the log has the entry of
  the verdict last (`LogFollows`), and a hash or file that was read is of an upload made for
  that version, or of one replaced since (`FilesAreOfTheOffer`).
* `SupersededFirmwareStaysGone`: the action property; an upload links once.

`MqttBridgeProofs` proves, for any number of workers, commands, faults and received
messages, from `BridgeAssumption` (the bounds are natural numbers, `None` is no
worker and no command):

* `BridgesAreTyped`: with `TasksAreInTheClient`, which says where `_run` is when its tasks
  have something to do, and which the other proofs rest on.
* `CommandsDoNotVanish`, `RepeatsWerePutBack`, `OvertakenWerePutBack`: `CommandSteps`
  first reduces the steps to the seven ways they deal with commands. `CommandInv` adds
  that a worker holds what it accepted and nothing twice (`HeldOnce`), that what was given
  up is in nobody's hands, and what was left behind is an ended process's (`GivenUp`, with
  `EndIsFinal`), that an
  acknowledgement is only awaited of what the broker has (`ReceivedOnceAccepted`), that
  the broker got a command that is still to be sent no more often than it was put back
  (`Counted`), and that what went ahead of a command never put back is older (`InOrder`).
* `SleepsDouble`: `DelayInv` says what the delay is at each place of the loop, not
  only while it sleeps; `SleepGrows` is the arithmetic.
* `BreaksCostOneCommand`: for one worker, which is the instance the run checks. With two
  the property is false, as finding 2 suggests: a takeover costs the command in
  flight without any fault. `Losses` adds that a fault which has cut the session,
  but not yet the publisher, is still to be paid for, be it by the listener's error or
  by a `stop()` whose cancellation is lost. What the end of a process costs is not
  bounded: it is all that the process has (`abandoned`).
* `BridgesImplementTheChannel`: refinement. `TakeCommand` and `PublishFails` stutter, since
  queued and in flight are both waiting; `BrokerReceives` delivers, `PublishAcked`
  settles, a cancelled publisher drops its command, and the end of a process drops all it
  has.

`SmartHomeProofs` proves, for any users, MACs, endpoints, endpoint lists, workers,
commands, reports, connections and faults, from `SmartHomeAssumption` (ids are
non-empty sequences of words, a layout is a list of them, the bounds are natural numbers,
`None` is no worker):

* `FulfillmentIsTyped`, `CommandsAreOwned`: the latter with `OwnersAreKnown`, since the
  user of a request that is under way may have lost the device meanwhile.
* `QueriesTellReports`: `DocumentsTellLastReport` with `OneDocument`. It speaks of endpoint
  ids that a board has once (`Only`), as the property does: of a repeated
  id only the first endpoint is updated and the last is read.
* `DatabaseFollowsDevice`: that a report at rest is in the document, unless it was lost
  or written over, takes the order of writes. `Connections` says why nothing but a
  change of connection can invert it: reports of one connection are in one worker's hands
  (`OneHolder`, `HoldersAreConnected`), in order (`InboxesAreSorted`), a write is adrift only
  when nobody has a report of its connection (`AdriftIsLast`), and no report is
  written before an earlier one of its connection is done with (`OneAfterAnother`).
  `LastIsAccountedFor` then follows every step of the last report.

What stays with TLC. Liveness under fairness is out of the prover's reach:
`CommandsSettle` and `EveryReportSettles` are checked on the instances of section 3 only. The
five properties of the findings (`RunsForTheLifetime`, `LongLivedConnection`, `StopReturns`,
`NewestReportKept`, `OnePairPerRefreshToken`) do not hold, and there is nothing to
prove about them. Every other property of a run is a theorem.

## 5. Plan

1. Done: all modules of section 2, and the proofs of every safety property, action
   property and refinement the runs check.
2. Left: the hazards of `PROJECT.json` that no property covers. The document that the
   rename reads back for its answer, and what SYNC announces, could be modelled in
   `Provisioning` and `SmartHome`. A command obeyed after the device changed hands, a
   request that acts after its access was revoked, and a limit that several processes
   exceed together are what the code does, and nothing says it should not: the properties
   next to them (`CommandsAreTheOwners`, `ActsOnlyWithAccess`, `NeverTooMany`) let them pass.
3. Left: that claiming and releasing in `SmartHome` is what `DeviceClaims` says of
   owners. It takes a history of the tokens in `SmartHome`, which has none.

## 6. Not modelled

Logging, health check, request ids, cross-origin headers, the seed script and the
broker's configuration hold no state a property is about; schema validation is in
the sets the inputs are taken from. Access control of the HTTP layer (JWT, API key)
is taken as given outside `AdminRoles`: an action's user is the authenticated one.
Email addresses of consumers are not modelled: an upsert that the unique index on
them refuses changes nothing. The documents that the rename and the override
routes read back for their answers are not modelled; what they change is. The access
tokens of consumers are stored nowhere. Memory is not modelled: the command queue
and the limiter's table of clients have no bound in the code.
