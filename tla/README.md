# SaintAGI control plane: specification, model checking and proofs

SaintAGI is a Next.js control plane (`src/`) over a Postgres database
(`supabase/migrations/`) that sells workspaces with AI agents. The agents run
in a gateway (OpenClaw, vendored, third party) which the control plane drives
over a WebSocket. Money comes in through Stripe, goes into a prepaid wallet per
organisation, and is spent on invited seats and on model usage.

This directory holds TLA+ modules for the parts of the control plane whose
correctness depends on the order of things: what happens when several requests,
retries and failures meet at the same rows. Paths below are relative to the
root of the repository.

Everything here runs on two kinds of atomic step. A **statement or
transaction** of Postgres is atomic: it takes effect at once or not at all. A
**handler** is a sequence of awaited statements and HTTP calls, and anything
can happen between two of them: the next statement of another request, an
error, an error *after* the statement took effect (the answer is lost), or the
death of the server process. Supabase calls do not throw on an error, they
return it; a handler that does not look at it goes on. Where the code does not
look, the models go on too.

## 1. Inventory

| Component | State | Operations | Meets others through |
|---|---|---|---|
| **Wallet and ledger** `src/lib/billing/{wallet,usage,invites}.ts`, SQL in migration 00023 | `org_wallets.balance_cents`, `wallet_ledger`, `usage_events` | `mutate_wallet`, `record_usage_charge` (one transaction each), `assertCanSpend`, `recordInviteCharge`, `reverseInviteCharge` | called by webhook, invites, usage sync |
| **Stripe webhook** `src/app/api/billing/webhook/route.ts`, fence in `wallet.ts` | `stripe_events.status`, subscription columns of `orgs` | `POST` with four branches; `reserveStripeEvent`, `markStripeEventProcessed`, `markStripeEventFailed` | Stripe's at-least-once delivery; credits the wallet |
| **Invites** `src/lib/invites.ts` | `org_invites` (status, billing status, expiry), membership | create and send, revoke, accept, preview | charges and refunds the wallet, sends e-mail |
| **Usage billing** `src/lib/openclaw/usage-sync.ts` | `session_usage_checkpoints`, `usage_sync_states` | `syncOpenClawUsageForOrg`, telemetry sync | reads the gateway, debits the wallet; started by page loads and model selection |
| **Plans and trials** `src/lib/plans.ts` | none (columns of `orgs`) | pure decisions | agents, usage, e-mail |
| **E-mail** `src/lib/email/*` | `email_events`, `email_preferences` | reserve, send, record; cron sweeps; unsubscribe | Resend; invites |
| **Gateway routing** `gateway-assignments.ts`, `gateway-shards.ts`, `tenant-gateway.ts` | `openclaw_gateway_assignments`, environment | resolve, assign the least loaded shard | every gateway call |
| **Runtime manager** `runtime-manager.ts`, `runtime-store.ts` | state file, `openclaw_runtimes`, a process | ensure, start, stop, restart | development mode only; routing reads its table |
| **Gateway RPC client** `client.ts` | pending calls of one WebSocket session | connect, call, time out, fail; read-patch-write of the gateway configuration | gateway |
| **Agent provisioning** `api/agents/route.ts`, `api/agents/[id]/route.ts`, `api/openclaw/bootstrap/route.ts` | `agents`, gateway agents | create with compensation, bootstrap, repair, delete | gateway client, plans; organisations meet in a shared gateway |
| Model governance, context injection, knowledge, observability, terminal, support, data access, other routes, UI, edge functions, vendored gateway | see `PROJECT.json` | | |

What makes each correct, and what makes it hard:

* **Wallet.** No balance below zero; the ledger explains the balance; usage on
  record and money taken match. Hard: concurrent transactions on one row, a
  balance check outside the transaction, a three-statement charge with a
  compensation, lost answers, a death under the row lock.
* **Webhook.** Each event credited once, none lost; a closed event stays
  closed; the subscription on record is Stripe's. Hard: duplicate, overlapping
  and reordered deliveries, failure after the credit, stale reservations.
* **Invites.** A refund for a charge and no more; the row tells what the wallet
  saw; accepted stays accepted; members are on paid seats. Hard: four
  operations that decide on a row they read and write it by id later.
* **Usage billing.** Usage billed once; the checkpoint stands for what was
  billed; trials are free. Hard: unserialised syncs, dropped query errors,
  rounding, a sliding window.
* **E-mail.** One message per dedupe key; no unsubscribe lost. Hard: a
  reservation that does not exclude, a crash after the send.
* **Routing.** A request goes to the gateway that holds the tenant or fails.
  Hard: configuration that changes under a stored assignment, an ensure whose
  failure nobody sees.
* **Runtime manager.** One process per tenant, one tenant per port. Hard: a
  state file, a table and a process that are written one after the other,
  without a lock.
* **RPC client.** Every call settles once; a configuration patch never undoes
  another. Hard: timeouts against late answers, a socket that breaks at any
  moment, a session retried from the start.
* **Provisioning.** Plan limits hold; rows and gateway agents match. Hard:
  count-then-create, one snapshot for two patches, a gateway whose own handlers
  are not serialised, a compensation that may fail.

`PROJECT.json` lists every hazard at its line, with the properties that cover it.

## 2. Modules

```
WalletLedger                      the wallet's promise (abstract)
 |- WalletTransactions            the transactions behind it; implements WalletLedger
 |- StripeWebhook                 credits it through Post
 |- InviteLifecycle               debits and credits it through Post
 |- UsageSync                     debits it through Post
EmailDelivery                     sweeps, Resend and the member's preferences
GatewayCalls                      what a gateway session promises (abstract)
 |- GatewaySession                socket, timers and calls; implements GatewayCalls
AgentProvisioning                 rows, gateway configuration and the requests that write both
TenantGateways                    where a tenant's requests go; composes
 |- RuntimeManager                one process per tenant on the application's host
 |- GatewayAssignments            shards of hosted gateways
WalletLedgerProofs, WalletTransactionsProofs, StripeWebhookProofs,
InviteLifecycleProofs, UsageSyncProofs, EmailDeliveryProofs,
AgentProvisioningProofs, GatewayProofs (of GatewaySession and TenantGateways)
MCWallet, MCWebhook, MCInvites, MCUsageSync, MCEmail,
MCSession, MCProvisioning, MCGateways                    instances for TLC
```

### WalletLedger

`balance` and `ledger` are the tables `org_wallets` and `wallet_ledger`. `Post`
is `app_private.mutate_wallet` seen from outside: the refusals (`Accepts`), the
arithmetic (`NextBalance`) and the row with `balance_after_cents` (`Row`).
`LedgerExplainsBalance` says that the rows form a chain from 0 to the balance.

The other modules extend it and take a posting as one step. That is sound
because `WalletTransactions` implements `WalletLedger` (checked and proved): to
anyone outside, a posting happens at its commit.

### WalletTransactions

Callers run one of three calls. `pc` is the next statement:

| step | code |
|---|---|
| `AssertCanSpend` | `usage.ts` 30-39, a read outside every transaction |
| `InsertUsageEvent` | `billing/invites.ts` 21-40, a statement of its own |
| `LockWallet` | migration 00023, 193-205: `SELECT ... FOR UPDATE`; `seen` is the row it read |
| `Commit` | the rest of `mutate_wallet`, and of `record_usage_charge` for usage |
| `Refuse` | 213-215, the exception rolls back |
| `Abort`, `Die` | a failed statement, a dead caller; Postgres rolls back and releases |
| `DeleteUsageEvent` | `billing/invites.ts` 56-59, whose own error nobody looks at |

The lock is explicit (`holder`) and not implied by atomicity, so that the
property that depends on it can fail: with a plain `SELECT` two callers read the
same balance and `LedgerExplainsBalance` and the refinement break (the mutant).
`credit` stands for `creditWallet` in all its uses, `reverseInviteCharge` among them.

`ensureWallet`'s upsert and the `insert ... on conflict do nothing` are left
out: an organisation has its row from the start. `bigint` overflow is not
modelled, balances in cents do not come near 2^63.

### StripeWebhook

Stripe is `Emit` (something happens), `Deliver` (an attempt; repeated and
overlapping at will) and the set `outstanding` of events it has no 2xx for. A
handler is one execution of `POST`; the label order per branch is in `Entry`,
`AfterRetrieve`, `AfterFindOrg`, `AfterCredit`, `AfterUpdate`. The fence is
`Reserve` (insert, unique on the event id), `ReadStatus` and `TakeOver` (the
conditional update) of `reserveStripeEvent`. `GrowStale` is 15 minutes on
`created_at`, which a takeover does not renew.

A subscription is a version number: `live` at Stripe, `snapshot` in an event,
`copy` in a handler, `subscription` on the `orgs` row. The answer of
`subscriptions.retrieve` is the live version; the updated/deleted branch uses the
version in the event.

`mishaps` is history: which of the code's known gaps was hit for which event.

| mishap | gap |
|---|---|
| `abandoned` | the handler ended, or threw, after its credit committed (route.ts 354 to 424) |
| `overlap` | a takeover let a delivery in while another was inside (wallet.ts 49) |
| `skipped` | the organisation lookup failed and was taken for "unknown" (route.ts 98) |
| `updateLost` | the `orgs` update failed and nobody looked (route.ts 79) |
| `overtaken` | an older version was written over a newer one |
| `answeredEarly` | a duplicate was answered 200 while the first was still processing (route.ts 242) |

The properties say that *nothing else* goes wrong: each guarantee holds unless
one of the mishaps that really breaks it was recorded for that very event.
The comment in the code promises more (`NeverDoubleCredited`); the run
`webhook_fence` shows that it does not hold.

Left out: the signature check, the mock answer without a Stripe key, admin
notifications (`.catch(() => null)`), and `ensureTenantGatewayAssignment`,
whose failure is caught too. An invoice whose organisation or plan cannot be
found *without* an error is Stripe data the instances do not contain.

### InviteLifecycle

`Invites` are the rows for one address in one organisation; a create call is
known by the row it inserts and its label is `creation[i]`. A session runs
revoke, accept or preview: `ReadInvite` reads the row into `saw`, then
`ExpireInvite` if it is overdue, `Decision` says where the call goes with the
row it holds, and the writes go by id. `WriteRow` has no condition on the old
row, as the code has none; only the partial unique index (`InsertInvite`,
`RecordSent`) can refuse. `Caught` is where the catch block of the create call
goes, with a refund or without; it is also where `MarkSent` goes when the
inviter's address cannot be had, after the invite was recorded as sent. An
expiry whose update took effect and whose answer was lost goes on with the row
it had (`ExpireInvite`).

`recordInviteCharge` and `reverseInviteCharge` are one step each with a lost
answer, their inner steps are in `WalletTransactions`. A call that would end at
the row it reads changes nothing and is not started. The membership upserts are
one flag, team membership and e-mail preferences have no influence on the
invite. An invite does not become overdue during its own create call (14 days);
every other call may straddle the moment.

`overlaps[i]` is history: which pairs of operations ran at once on `i`
(`{"revoke"}` stands for two revokes, `{"create"}` for a create whose row was
closed and replaced before it finished). `faulty` are invites that met a fault.

`RefundsHaveCause` relates refunds to charges and to the row: never more
refunds than charges but for two revokes that overlapped, and a seat that was
given back belongs to an invite that is given up (`GivenUp`: closed, or about to
be closed by the call that refunded it) but for a revoke beside the acceptance.
The plain revoke of a sent invite refunds it and closes it, which is what the
code promises.

### UsageSync

`cost[k]` is the total the gateway reports for a session. A sync reads
checkpoints and trial flag (`ReadState`), gets the totals, and for each session
charges the growth (`Delta`, `Price`, `Amount`) with `recordUsageCharge`, which
moves the checkpoint in the same transaction, or only moves the checkpoint
(`UpsertCheckpoint`). Costs are in fractions of a cent (`Unit` to the cent, the
exchange rate included), since a growth is rounded to cents and marked up by 30
percent before it is compared with 0.

Left out: `usage_sync_states` and the observability events (their failure is
caught or comes after the billing), and which agent a session belongs to. The
order in which sessions come is the gateway's, so any session may be next.

### EmailDelivery

One member of one organisation in one week; all dedupe keys carry these three,
so members and weeks do not meet. A worker is one execution of a cron route, of
the sign-in callback or of agent provisioning. It takes a batch (`StartBatch`;
`Due` holds the guards on age and role), reads the preferences once if the
batch needs them (`ReadPreferences`, `Needs`), and takes each message through
`sendTemplatedEmail`: `SelectEvent` and `InsertEvent` reserve the row of
`email_events`, `PostAccepted` and `PostRefused` call Resend, `RecordEvent`
writes the status. A message that throws is caught and the next one follows.

The member works in tabs: `LoadPreferences`, then `Unsubscribe` (the link) or
`SavePreferences` (the settings form), both through `WritePreferences`, which
writes the whole row. `toldOff` is history: options the member turned off and
was told so; `clobbered` those that a tab wrote back because another tab wrote
while it was open (`crossed`). `doubtful` are messages that two workers had in
hand at once, or that were posted and not recorded. `off[w]` are options that
were off, and told to be, ever since `w` began; `blind` are workers whose
preference query failed.

Left out: rendering, the numbers of digests and alerts (whether there is
anything to send is free: `StartBatch` may or may not happen), the two kinds of
alert that may come together, and the limit of the audience query. That limit
matters in production: a member who is no longer among the newest 100 gets no
more of the welcome series.

### GatewayCalls and GatewaySession

`GatewayCalls` is what `withSession` promises the caller: a call is `unmade`,
`waiting`, `answered` or `failed`, it leaves `waiting` once (`Resolve`, `Fail`)
and eventually (`Live`), and one that is answered was carried out (`effects`).
A failed call may be carried out all the same, then or later; that is the fault
the next module builds on.

`GatewaySession` is `withSession` and `openSession` of `client.ts`. `Runs` are
the first execution of the body and the second one, with legacy scopes; `Calls`
are the RPCs of a run in the order the body makes them. The callbacks are one
action each:

| action | code |
|---|---|
| `OpenSession`, `OpenEvent`, `ConnectAnswer`, `ConnectTimeout` | the handshake |
| `ErrorEvent`, `CloseEvent`, `FailSession` | a broken socket; `failSession` rejects the map of pending calls |
| `Call`, `Answer`, `Timeout` | one RPC: its entry in the map, its timer, its answer |
| `BodyReturns`, `BodyThrows`, `Catch` | the end of a run and the retry in `withSession` |
| `Execute` | the gateway carries out a request that reached it, whenever it pleases |

The body is any program: it makes its next call while others are under way,
throws the rejection of any of its calls, or an error of its own. `pending` and
`result` are kept apart as they are in the code, where a map entry and a promise
can disagree; that they do not is part of `TypeOK`. The refinement maps
`result` to the three outcomes and the replies to `effects`.

Left out: what the calls say and the latency events.

### AgentProvisioning

`agents` are the rows, `file` is the configuration file of a shared gateway: to
each slug the organisation whose workspace the entry names, and the
organisation whose model policy is in force. `memory` is the gateway's copy of
it (`getRuntimeConfig`). `pc` is where a request is:

| step | code |
|---|---|
| `ResolveSlug`, `CountAgents` | `POST /api/agents`: the slug within the organisation, the plan's limit |
| `GetConfigSnapshot` | `config.get`, with the hash; read once for both patches in `POST /api/agents`, twice in the bootstrap |
| `ApplyModelGovernance`, `ProvisionAgent` | the two patches, each skipped or sent with the hash of `held` |
| `InsertAgentMetadata`, `InjectAgentContext` | the row, then the context |
| `Compensate` | the catch blocks: delete the gateway agent by its slug |
| `RemoveAgent`, `DeleteRow` | `DELETE /api/agents/[id]` |
| `Commit` | the gateway's own handler, which took the configuration in the step that started it, writes what it made of it (`writeConfigFile`), and reads the file back |
| `Publish` | what was read back becomes the gateway's copy (`finalizeRuntimeSnapshotWrite`), and the gateway answers |
| `Reload` | the gateway's watcher finds that the file has changed (`config-reload.ts`) |

A hash is modelled by what it is the hash of: `Patch` compares `held` with
`file`. Between that comparison and `Commit` another handler of the gateway may
commit, since nothing in the vendored gateway serialises them; `raced` marks the
writes this happened to. Between its `Commit` and its `Publish` a handler may
find the write of another when it reads back (`readBack`), and it publishes what
it read, whatever the file is by then. `config.patch` starts from the file, but
`agents.delete` starts from the copy (`Remove`): an agent that the copy does not
have yet is not deleted (the mishap `stale`), and what it writes is the copy
without the agent, so a copy that lags makes the write `raced` from the start. `CallLost` is a call of `GatewayCalls` that fails and
is carried out all the same.

`mishaps[s]` and `overruns[o]` are history, in the manner of the webhook's: what
parted rows from agents, and what made a count meaningless.

Left out: models, identities and the `PATCH` route, channel bindings, knowledge,
workspace files, the budget of control-plane writes, and the assignment
(`GatewayAssignments` has it).

### RuntimeManager

`state` are the state files, `rows` the table `openclaw_runtimes`, `processes`
the gateways that run. An order is what a route asks for: `ensure`, `start`,
`stop`, or two of them in a row. Every file access and every statement is a
step: `ReadState`, `ResolvePort`, `WriteInitialState`, `SelectRow` and `SaveRow`
(the upsert, which is a select and then an update or an insert), `RecheckState`,
`ClearStalePid`, `Spawn`, `RecordStart`, `StopProcess`, `RecordStop`. A launched
process listens when its port is free and gives up when it is not; a process
that is told to stop holds its port until it exits, and nobody waits for it.

`rows[t]` is a sequence because the table has no unique constraint and the code
can insert twice. `PortOf` is what `getRuntimeGatewayTarget` makes of it: the
newest row.

`mishaps` and `displaced` are history: the tenants whose calls overlapped or
died, and those whose port others could not see, or that have two. The latter
come from two calls of one tenant that look for a port at once (`Divided`).

### GatewayAssignments

`row` is the table of assignments, `pool` the environment variable of the
latest deployment, `sees` the pool of the deployment a request runs on, `home`
the gateways on which an organisation's agents are. `ReadAssignment`,
`PickLeastLoaded` and `UpsertAssignment` are `ensureTenantGatewayAssignment`;
`Target` is `resolveTenantGatewayTarget`: the assignment, and an error when the
pool does not know it; without an assignment the pinned shard or a hash;
without a pool the one gateway of the environment. `Deploy` changes the pool
between any two steps, `Drain` is the operator. `moves` is history.

### TenantGateways

Composes the two: `isOpenClawRuntimeManaged` decides which of them serves a
deployment. Its specification is `TenantSpec`, with `TenantInit` and
`TenantNext`. `TenantIsReached` asks the same of both: where
`resolveTenantGatewayTarget` leads a request is the gateway that has the
tenant's agents, or the request fails. In a managed deployment that function
serves the pages, the proxies and the terminal, which ask for a gateway without
starting it; `getTenantOpenClawClient` starts the runtime there and uses the
descriptor it is returned (`runtime-client.ts` 21 to 29), of which the property
says nothing. The mutant that `PROJECT.json` lists for it belongs to the hosted
half. The managed half is checked too: when `Allocated` is replaced by the empty
set, so that nobody sees whose port is taken, TLC finds the property violated.

## 3. Runs

| run | question | instance | states | time |
|---|---|---|---|---|
| `wallet` | do the transactions implement the wallet, do usage and money match, does every call end? | 2 callers, 1 organisation, amounts 1 and 2, 4 calls, 1 fault | 160 thousand | 40 s |
| `webhook` | what does the fence guarantee? | renewal and update of one subscription, 2 handlers, 2 faults | 2.2 million | 1 min |
| `webhook_live` | does all money arrive? | top-up and plan purchase, 2 handlers, 1 fault | 64 thousand | 20 s |
| `webhook_fence` | violated: "so we never double-credit" | one renewal, 1 handler, 1 fault | | 2 s |
| `invites` | when can refunds, billing status, membership and status be wrong? | a paid and a free invite for one address, 2 sessions, 3 calls, 1 fault | 680 thousand | 2 min 30 s |
| `invites_revoke` | violated: "Accepted invites cannot be revoked." | the paid invite alone, no faults | | 5 s |
| `usage_sync` | when is usage billed twice, and trials charged? | 2 sessions, 2 syncs, 2 units of use each, 3 units to a cent, 1 fault | 900 thousand | 30 s |
| `email` | when is a message sent twice or misrecorded, does the welcome series arrive? | 2 workers, welcome series and usage alert, 4 days, 2 faults, no tabs | 210 thousand | 35 s |
| `email_optout` | when is an opt-out lost, is a kept one respected? | 1 worker, the weekly batch of an owner, 2 tabs, 1 fault | 890 thousand | 1 min 35 s |
| `session` | does every call settle once, when is the body run twice, does `withSession` return? | 2 runs of a body of 2 calls | 84 thousand | 35 s |
| `provisioning` | when do rows and agents part, when is the limit passed, when does a write undo another? | 2 organisations, 3 slugs, 2 requests at a time, 3 in all, limit 1, 1 fault | 1.1 million | 1 min |
| `gateways` | when is a process unknown, and a tenant led to another's gateway? | 2 tenants that hash to one of 2 ports, 2 callers, 3 calls, 1 fault; or 2 organisations, 4 pools, 2 requests, 4 requests and deployments, 1 failure | 1.6 million | 1 min 30 s |

**Why the bounds are enough.** Every race in these components is between two
actors at one row, so two callers, handlers, sessions or syncs produce it. A
third delivery, call or sync after the race comes from the same two actors
running again: deliveries are not bounded at all, calls are bounded at 3 or 4.
Amounts 1 and 2 with four calls reach the boundary of the balance check from
both sides, and leave a balance that one of two debits can take. Two faults in
`webhook` let a handler fail and its own catch block fail too. In `usage_sync`
a growth of one unit rounds to nothing and one of two is charged, and a balance
of 0 or 2 refuses or carries one charge. One invite is paid and one free
because a branch depends on it, and they share an address because the index
does. Organisations do not interact. In `email` both workers run both
batches any number of times; the opt-outs have a run of their own because
preferences matter only before a batch, so one worker shows it, while two tabs
are needed to lose one. In `session` two calls are the fewest of which one can
be answered while the other is under way, and the first run's first call the
one that took effect before the second is refused. In `provisioning` a limit of
1 is reached with the first agent, the third slug is the random one, and the
bootstrap's slug of one organisation is a name another may use. In `gateways` one tenant must
make way for the other and a third call comes after both; the part of managed
runtimes also passes with a third tenant that hashes to the port the second one
moved to (2.6 million states). The pools add a shard, take one out and take all
out, and with two organisations the least loaded shard differs from the hashed.

`CHECK_DEADLOCK FALSE` is set where the bounded system stops: all calls made,
all usage used. The webhook and the e-mail sweeps never stop, and deadlock is
checked there. It is checked in `session`, `provisioning` and `gateways` too,
where `Over` and `Rest` say when everything is done: nobody is stuck short of
it. `usage_sync` uses symmetry over sessions and syncs, `email_optout`
over tabs, `provisioning` over requests, `gateways` over callers, requests and
tenants; they have no liveness property. `provisioning` also
has a view (`Live`): states that differ only in what nothing reads any more, such
as a snapshot whose patches are made, count as one; without it the instance has
5.0 million states and passes as well.

**Fairness.** Only what the runtime gives is assumed. A started handler keeps
running (weak fairness of its own steps). Postgres hands a released row lock to
a waiter (strong fairness of `LockWallet`). Stripe keeps retrying an event it
has no 2xx for (strong fairness of `Deliver` for that event), and time passes,
so that an open row becomes stale. Cron starts the lifecycle sweep every day,
whatever else runs (strong fairness of `StartBatch` for it), and days pass. In a
gateway session timers fire and callbacks that are due run (weak fairness of
`Timeout`, `ConnectTimeout`, `OpenSession`, `BodyEnds` and `Catch`); nothing is
asked of the network or of the gateway, so every call settles and `withSession`
returns even when neither ever answers. No fairness makes anyone start a call, and
none is assumed of faults. Stripe gives up after some days; a handler that is
down for that long is outside the model.

## 4. What was found

**Violated claims** (`findings` in `PROJECT.json`):

1. `webhook_fence`. A handler credits a renewal, then fails before the event is
   marked processed: the answer of the credit is lost, marking fails, or the
   process dies and the reservation grows stale. Stripe's retry is let in and
   the wallet is credited again. The ledger has no reference to the event that
   a unique index could catch.
2. `invites_revoke`. With one paid invite and no fault: the create call charges
   the seat and sends the invite; a revoke and an accept both read it as sent
   and charged; the revoke refunds the seat, the accept adds the member and
   marks the invite accepted, the revoke writes "revoked" and "reversed" over
   that. The user is a member on a seat that was charged once and refunded once.

**Exceptions the properties name** - each is a behaviour of the code that TLC
reaches, and removing it from the property gives a counterexample:

* Webhook: a duplicate is answered 200 while the first delivery is still at
  work, and when that fails nobody retries (`answeredEarly`); a failed
  organisation lookup closes the event (`skipped`); an update is lost, or an
  older subscription written over a newer one (`updateLost`, `overtaken`); once
  older than 15 minutes a row is stale at every later delivery (`overlap`).
* Invites: a revoke during the create call finds the charge not yet recorded
  and refunds nothing; the create call then writes "sent" over "revoked". Two
  revokes refund twice. An acceptance before `MarkSent` is overwritten with
  "sent". Two accepts around the expiry date turn "accepted" into "expired". A
  row closed and replaced before `MarkSent` keeps its charge with status
  "pending". A charge whose answer is lost is never refunded.
* Usage: two syncs at once bill the same growth twice and may set the checkpoint
  back; a failed checkpoint query bills the whole total again; a failed
  organisation query charges a trial; growth below half a cent per sync is never
  billed; a session the wallet cannot carry ends the sync for all after it.
* E-mail: a row that is "queued" or "failed" stops nobody, so two sweeps at once
  send twice, and a late "failed" over a "sent" sends again in the next sweep; a
  failed preference query counts as consent; an unsubscribe and a settings form
  that was open meanwhile undo each other; a weekly message whose only sweep
  fails is never sent (the next week has another key).
* Wallet: `recordInviteCharge` that loses the debit's answer deletes the usage
  event of a debit that stands; a delete that fails leaves an unpaid event.
* Session: when a call of the first run is refused for its scope, what the
  earlier calls of that run did is done again by the second
  (`SecondRunHasCause` says that nothing else has this effect). When the gateway
  closes a session that has nothing pending, no error is recorded, and the next
  call waits for its whole timer instead of failing at once.
* Provisioning: two requests for one slug, in one organisation or two, write
  over each other's entry; the row of the second is refused by the unique
  constraint and its compensation deletes the entry of the first. A slug is
  looked up within the organisation only, so two organisations on one gateway
  meet without any race, and a failed look-up makes an organisation take over
  and then delete its own agent. The bootstrap leaves its row when it takes
  back its agent, does not ask for the limit, and a member who does not see the
  existing agents adds one. A repair that races a deletion brings the gateway
  agent back. A count that fails counts as none. A deletion that meets a copy in
  memory older than the file finds no agent to delete; `DELETE` then deletes the
  row all the same, and the entry stays (`stale`).
* Configuration: the gateway compares a patch's hash when it reads the file and
  writes some awaits later, so two patches that both passed the comparison undo
  one another; `agents.delete` compares nothing, and starts from a copy that may
  be behind. `PatchesUpsert` holds where no write came between
  (`isolation-invariants.md` 16 promises it without that condition).
* Runtime manager: two calls for one tenant at once may both spawn, and one
  process is known to no state file; so may a caller that dies between the spawn
  and the record. The record of a start names the port that the tenant's id
  hashes to, not the port the process was given (`runtime-manager.ts` 203), so a
  tenant that had to make way is led to the process of the tenant it made way
  for. A stop before any start records that port without asking whether it is
  free. Two calls of one tenant that overlap may find two ports for it, when
  another tenant's row came or changed in between; if the row of one of them then
  fails, its process has a port that a third tenant is given as well. That takes
  three tenants: the proof of `TenantIsReached` met it, which `Divided` excepts.
  Once a failed query has made the upsert insert a second row, its query
  for a single row fails for ever and every later call inserts one more.
* Routing: an assignment is fail-closed, as the comment on
  `GatewayAssignmentDriftError` says, but it may be missing: an ensure that
  failed is not noticed, and `POST /api/agents` does not ask for one. Such an
  organisation is served by the hash, moves when the number of shards changes,
  and moves again when a later ensure picks the least loaded shard. An ensure
  turns a drained assignment active again.

Two more were seen while reading and need no model. `governanceMatchesSnapshot`
compares a list of models with what the gateway stores as a record, so the patch
it is to save is sent every time. And since `POST /api/agents` sends both patches
with the hash of one snapshot, a governance patch that does change the file makes
the provisioning patch stale: the request fails, and succeeds when it is repeated.

## 5. Proofs

TLC checks the instances above; these theorems hold for every number of
organisations, callers, handlers, events, calls, invites, syncs, slugs and
faults, and every set of amounts. The assumptions are the named ASSUMEs of the
modules: amounts are natural numbers, the bounds are natural numbers, a plan
allows at least one agent, there is a port, `NoOne` is no caller, `NoEvent` no
event, `NoShard` and `Env` no shards, `None` no write, tenant, port or state
file, pools are sequences of shards, and the functions that describe events,
tenants and organisations have their domains.

* **`WalletLedgerProofs`.** `PostKeepsWallet`: one posting keeps the types (a
  balance never below zero) and the chain of the ledger. From it
  `WalletLedgerCorrect`. The lemma is what every other module uses.
* **`WalletTransactionsProofs`.** The properties are not inductive by
  themselves. The strengthening is `IInv`:
  - `LockInv`: a caller that is about to commit holds the row and what it read
    is what the row still says. Hence a commit is a `Post` (`CommitIsPost`), and
    the refinement `TransactionsImplementWallet` and `LedgerIsComplete` follow.
  - `KindInv`, `IdInv`: the two extra steps belong to invite calls only, and no
    two calls share an id, so that `events` and `posted` speak of one call.
  - `ProgressInv`: what a call in progress has done so far to its event and to
    the wallet. With it `UsageIsPaid` and `DebitsAreRecorded`.
* **`StripeWebhookProofs`.** `IInv` adds
  - `FenceInv`: while an event is `Clean` (nothing abandoned, no overlap) at
    most one handler is inside the fence, and what was credited is what that
    handler paid, or what closed the event. This gives `DoubleCreditNeedsCause`
    and, since nobody is inside a closed clean event, `ClosedStaysClosed`.
  - `PaidInv`: a handler that has paid is on its way to marking the event.
  - `RouteInv`: no branch of `POST` reaches `markStripeEventProcessed` but past
    its credit. This gives `ProcessedIsCredited`.

  `SubscriptionInv`, proved on top of it, follows the versions:
  - `VersionInv`: what an event or a handler carries is a version of the past,
    and a handler's is no older than its event's.
  - `LatestInv`: the live version is that of some event.
  - `WrittenInv`: an event whose handler is past its update, and was not lost,
    has its version or a newer one on the row, as long as none was overtaken.

  Together they give `ClosedIsCurrent`: when all are closed the last one is too.

* **`InviteLifecycleProofs`.** Everything is said of one invite at a time, so a
  step about one invite leaves the parts of the others alone (`Untouched`).
  - `GroundInv` holds whatever faults there are. Its core is `OverlapInv` (two
    calls on one invite are on record as having overlapped) and `AcceptedInv`
    (who is at an accepted invite overlapped its acceptance). They give
    `AcceptedStays`, faults or not.
  - `MoneyInv` holds until a fault hits the invite: `SeatInv` ties charges and
    refunds to where the create call is, `RefundInv` and `BillInv` to the billing
    status and to a revoke in progress, `DeliveredInv` says that a link is out
    only for a seat that is paid for, `JoinInv` that who is joining holds such a
    link, `GivenUpInv` that a refunded invite is closed, or about to be by a call
    that saw it charged. They give `RefundsAreCaused`, `BillingStatusHolds` and `JoinsArePaid`.

* **`UsageSyncProofs`.** `PriceIsNat` is the arithmetic: a growth rounded to
  cents and marked up never becomes negative, so a sync is a debit. Then
  - `LoopInv`: a sync has one session in hand, and each session once.
  - `WindowInv`: totals only grow while the window stands, so a checkpoint is no
    later than what a sync was told, unless another sync wrote it since.
  - `BillInv`: for a session that no sync was overtaken at, what is about to be
    billed on top of what was billed was used, and what the checkpoint does not
    stand for has left the window. This gives `UsageBilledOnce` and
    `CheckpointAccounted`; `CheckpointsAdvance` follows from `WindowInv`.
  - `TrialInv`: a sync that runs in a trial knows of it. `TrialUsageIsFree`.

* **`EmailDeliveryProofs`.** The types need that a batch is a sequence of known
  messages (`DueType`) and that every way a worker moves keeps its record
  (`WorkerSet`). `DeliveryInv` strengthens the two delivery properties:
  - `ReservedFirst`: nothing is posted before its row exists, so a worker that
    inserts the row is alone with the message.
  - `SideBySide`: two workers with one message in hand make it doubtful.
  - `Settled`: a message delivered and not doubtful was delivered once, and all
    who still handle it are about to write "sent".
  `EnterPost`, `PostKeeps` and `RecordKeeps` are the steps that matter,
  `QuietStep` covers the rest; `EmailDeliveryHolds` and `EmailStatusIsTrue`
  follow. `PagesAreFresh` (an uncrossed tab shows what is on record) makes
  `OptOutsHold` inductive. `BatchInv` says what a batch knows of the options:
  once read, none that it needs is off. With `LinkIsNeeded` (the link in a
  message turns off an option its batch asks for) it gives `OptOutsAreRespected`.

* **`GatewayProofs`, first half.** The invariant of `GatewaySession` has the
  session's properties and
  - `HandshakeInv`: the body runs only in a session that was connected, and a
    session that failed for its scope never was.
  - `TrafficInv`: calls belong to connected sessions, only what was sent is
    carried out, and a call is told "done" or "scope" by the gateway alone.
  - `RerunInv`: the second run starts only after the first threw "scope", which
    the gateway said of the handshake, before any call, or of a call. This gives
    `SecondRunNeedsCause`.
  `SessionImplementsCalls` takes one step of the session after the other to a
  step of `GatewayCalls` or to a stutter: `FailIsFail` for the steps that reject
  the whole map, `CallIsMake`, `SettleIsPromised` and `ExecuteIsPromised`.

* **`AgentProvisioningProofs`.** `TypeInv` adds to the types where a request can
  be by its kind (`KindFits`) and that it has its one slug. On that,
  - `PatchInv(h)`: what a write that is not yet done is about to change is what
    it was asked for, unless another came in between, or it started from a copy
    that lagged. This gives `PatchesAreUpserts`; the merge
    (`MergedUpserts`) needs that the hash was compared.
  - `OwnerInv(h)` and `SlugInv(s)`: while nothing befell the slug `s` at most one
    request is at work on it, and where that request is (`Stage`) tells what the
    row and the entry are: no row before `insertAgentMetadata`, an entry from the
    provisioning patch to the compensation. `Absent` says at which stages there is
    no entry: a write changes the file at its `Commit`, while its request waits on
    until the `Publish`. What the copy in memory is nowhere matters: a deletion
    that finds nothing in it is `stale`, and one that writes back what others
    have changed leaves `overwritten` slugs. `StagePrepare` and
    `StageFinish` take a request through its stages, `SlugTaken` begins one,
    `SlugElsewhere` says that the others do not matter, however many commits of
    theirs come in between: those would be `overwritten`. This gives
    `RowsAndGatewayAgree`.
  - `LimitInv(o)`: while nothing met the limit of `o` at most one request is let
    in to add an agent, and there is a place for what it is about to add. This
    gives `PlanLimitHolds`, with the cardinality of a set that grows by one.

* **`GatewayProofs`, second half.** What an action does to a caller or a request
  is put in one form first (`Goes`, `Turns`), so that a lemma about that form
  serves all actions. `TenantInv` is the types (`TenantTypeCorrect`) and
  - `RouteInv(o)`: while nothing moved `o`, at most one request is about it, and
    once it has agents its row is active and names the shard they are on. A
    request that resolved a target still has the row's shard.
  - `KnownInv(t)`: while no calls for `t` overlapped and none died, it has at
    most one caller, and `Fits` tells from where that caller is what processes
    there are: none before a spawn and after a stop, the one it holds the pid of
    until the record, and else the one in the state file. This gives
    `RuntimesAreKnown`.
  - `PortInv(t)`: a tenant that is not displaced has one port, in its rows, its
    file, its callers and its processes, and others can see it in a row, or in a
    caller that is about to write it. `ApartInv(t, u)`: nobody else has it. No
    step but `ResolvePort` gives a tenant a port (`HasShrinks`) or takes its port
    out of sight (`VisibleStays`), and the port that step finds is its own already
    or nobody's (`ResolvedPort`). With `RouteInv` this gives `TenantsAreReached`.

Each proof has one step per action and the lemmas say what an action leaves
alone, so that most cases are the lemma and a line.

**Only model-checked**: `CallsEnd`, `EventuallyCredited`, `PendingEnds`,
`WelcomeSeriesArrives` and the liveness in `CallsSpec`: liveness, and the
ENABLED in fairness, are out of the prover's reach. Every invariant and every
action property that a run checks is a theorem. Induction over data and RECURSIVE operators are out of
reach too, and no module here needs them: the ledger's property speaks of
neighbouring rows instead of a sum.

## 6. Not modelled, and the plan

Pure presentation, text building, permission predicates, append-only event
rows and third-party code are not modelled (`PROJECT.json` gives the reason for
each). Not modelled either: the `PATCH` route of agents and the model catalogue
(other fields of the same rows and of the same configuration file, by the same
snapshot and patch as `AgentProvisioning`), context injection and knowledge,
whose documents are nearly all text, support tickets and terminal access. Of the
vendored gateway, which is third-party code, the models hold what the control
plane meets: `config.get`, `config.patch`, `agents.delete`, a process that
starts and exits, and calls that fail, come late or are carried out unanswered.
Terminal access and support tickets, which follow e-mail in, are the next
modules worth writing.

Theorems to come: that `StripeWebhook`, `InviteLifecycle` and `UsageSync`, too,
implement `WalletLedger` step by step (today they prove its invariants), and for
each history variable that excuses a property (`doubtful`, `mishaps`,
`displaced`, `moves`) that it stays empty where there are no faults and one
caller, so that the exceptions are no wider than they say. No invariant of a run
waits for its proof.

## 7. Running

    tlc -config MCWallet.cfg MCWallet.tla
    tlapm WalletTransactionsProofs.tla

`PROJECT.json` lists the runs, the mutants (for each property, a plausible
change of the code under which the property fails, defined next to the
definition it changes), the source lines of each definition, the hazards and
the theorems.
