# Verification of the AiFinPay wallet server

TLA+ models of the AiFinPay MCP server (`src/apps/mcp-server`), its payment
adapter packages (`src/packages`), the wallet widget and the Vault page
(`src/apps/wallet-widget`), checked with TLC on small instances and, where it
matters most, proved with TLAPS for every instance.

- [1. The system](#1-the-system)
- [2. Modules](#2-modules)
- [3. Runs](#3-runs)
- [4. Theorems](#4-theorems)
- [5. What the code does and its documents do not say](#5-what-the-code-does-and-its-documents-do-not-say)
- [6. Abstractions, and what is not modelled](#6-abstractions-and-what-is-not-modelled)
- [7. What could come next](#7-what-could-come-next)

`PROJECT.json` maps every definition to the lines it models, and lists the
hazards with the properties that cover them.

## 1. The system

A user talks to an assistant; the assistant calls the tools of an MCP server; a
widget in the chat shows the results and calls tools itself; a Vault page in the
user's browser holds the keys. The server never holds a key: on mainnet a tool
*prepares* a payment intent and hands out a signing link, the Vault asks the
server to build the transaction, signs it and sends the signed bytes back, and the
server broadcasts them. A demo deployment executes payments itself on a ledger in
memory. A policy engine decides for payments of agents. One Node process serves
everybody over one SQLite database: handlers run one at a time and interleave at
every `await`.

| component | state | operations | interacts with |
|---|---|---|---|
| state machine (`state-machine.ts`) | none | `canTransition`, `assertTransition` | used by the payment service |
| payment service and Vault routes (`payment-service.ts`, `index.ts`, `signing-request-service.ts`) | table `payment_intents`; tokens held by clients | prepare, cancel, confirm, sign-request, submit-signed, finalize | policies, adapters (awaited), audit |
| contract calls (`aifp1-contract-call-service.ts`) | the same table | `prepare_contract_call` | payment service |
| mainnet adapters (`mainnet-adapter.ts`, `universal-mainnet-adapter.ts`, `aifp1-aware-adapter.ts`) | balance cache | build, broadcast, balance over RPC with timeouts and failover | networks |
| demo payments (`payment-service.ts`, `packages/demo-ledger`) | ledger in memory; the same table | prepare, preview, confirm, cancel | payment service, analytics |
| policies (`policy-engine.ts`, `policy-service.ts`, `confirmation-service.ts`) | table `agent_policies`; confirmation tokens | preview, create, update, revoke, evaluate | payment service, spending sums in `store.ts` |
| audit (`audit-service.ts`) | table `audit_events`, a hash chain | record, list, verify | every writing operation |
| OAuth and sessions (`oauth-provider.ts`, `session.ts`) | table of consumed codes; signed claims held by clients; `wallet_connections` | authorize, approve, exchange, refresh, resolve | every tool |
| pairing (`store.ts`, `index.ts`) | `wallet_pairings`, `wallet_connections` | complete | sessions |
| swaps (`swap-service.ts`, swap screens) | asset cache; quote and order tokens held by clients | list, quote, order, status, deposit | exchange provider, payments |
| rate limiter, HTTP shell (`index.ts`) | window counters, campaign cookie, prune timer | count a request, redirect, pair, prune | every route |
| analytics, dashboard (`analytics-service.ts`) | `analytics_users`, `analytics_events` | record, prune, count | every tool |
| widget bridge (`mcp-bridge.ts`) | handshake, waiting requests, newest push, active tool | `initialize`, `callTool`, message listener | the chat host, the widget |
| widget application (`App.tsx`) | screen shown, wallet snapshot, calls under way | navigation, selection, pairing, emitted results | bridge |
| Vault application (`VaultApp.tsx`, `vault-crypto.ts`) | encrypted vault in the browser's storage, open vault and phrase of a tab | create, restore, save, unlock, remove, sign, submit, connect | Vault and OAuth routes |
| configuration, encodings, network tables | none | read once; pure functions | |

Behaviours that are hard to get right here:

- a handler checks a record, awaits a network, and writes by what it knew before;
- tokens are signed claims without a record on the server: valid until their
  expiry, in any number of copies, whatever happened to what they name;
- broadcasting is irrevocable and its answer may be late, lost or untrue;
- the process may die at any `await`; the tables survive, the handlers, caches,
  counters and the demo ledger do not;
- limits are checked at one time and used up at another;
- one chain, one table, one cache and one field are shared by actors who do not
  know of each other (audit chain, policy table, balances, `activeTool`);
- a network is several nodes, and another service for the history, asked one after the
  other with a timeout each;
- a screen goes on while the answer of a call it made is under way, the host may keep that
  answer for ever, and two tabs write one storage.

What makes each part correct:

- **payments**: only approved terms reach a network; the record tells what was
  paid and only after a node answered; a record that is cancelled, expired or paid soon
  pays nothing more; statuses move along the table; a demo intent is executed once;
- **policies**: what an agent may transfer is within terms the user confirmed, a
  revocation works at once, the spending limit holds, the audit log explains the
  table;
- **audit**: a listing that verifies is the truth, and the truth verifies;
- **sessions, pairing**: whoever is served holds a consent; a code is exchanged
  once; a user keeps one identity; a pairing brings one wallet;
- **swaps**: a quote is of assets that are offered, an order pays the user's own
  Vault, an order gets one deposit of its asset;
- **balances**: how old an answer can be, and when answers may go back in time;
- **shell and analytics**: how much a window can admit; a user counts for the
  community that brought them; events live as long as promised;
- **bridge, widget**: an answer belongs to its call, nothing is missed or repeated
  without cause, nobody waits for anything but the host, a late answer spoils no form;
- **Vault**: what is shown is what is stored, a review signs with the wallet it shows,
  what is broadcast was signed by the connected wallet.

## 2. Modules

```
IntentStatus <- IntentLifecycle           PolicyEngine
   ^   ^            ^      ^                   ^
   |   |     refines|      |refines            |
   |   +-- PaymentIntents  DemoPayments        |
   |                                           |
   +---------------- AgentSpending ------------+

PaymentIntents <- PaymentIntentsProofs
DemoPayments   <- DemoPaymentsProofs
AgentSpending, AuditLog <- AgentSpendingProofs
Sessions       <- SessionsProofs
SwapOrders     <- SwapOrdersProofs
WidgetBridge   <- WidgetBridgeProofs
Vault, BalanceCache     <- WalletProofs
WalletView, HttpShell   <- PeripheryProofs
```

`X <- Y` means that Y extends X (AgentSpending extends both modules it is joined to).
Specifications that share a proof module have nothing else in common; `AuditSpec`,
`CacheSpec` and `ShellSpec` carry their component in their names so that they can.
Each `MC*` module extends its specification with symmetry sets and the values a
`.cfg` cannot write. Operators commented as mutants of the definition after them are
bugs the code does not have: with one in place of what it varies, a run must fail.

**IntentStatus** is the transition table of `state-machine.ts` and the walk
`finalizeVaultBroadcast` takes through it (`Forward`, `CanFinalize`): a walk whose
transition throws saves nothing. **IntentLifecycle** is the abstract
specification: a status only moves along the table, and the payment an intent
stands for is fixed once, no later than when it counts as submitted. An intent can
be *replaced* as a whole; that step is there because the code makes it (section 5).

**PaymentIntents** is the core. `row` is the table, `call` the suspended handlers,
`links` and `submitTokens` the tokens in circulation, `handed` what was accepted
for broadcast, `onChain` what the networks took, `audit` the events.

| code | actions |
|---|---|
| `PaymentService.prepare` | `PrepareStart`, then `PrepareFinish` after `await getBalance` |
| `Aifp1ContractCallService.prepare` | `PrepareContractCall` (no await) |
| repeated prepare, `confirm_transfer` on mainnet | `IssueSignLink` |
| `PaymentService.cancel` | `Cancel` |
| `/api/vault/sign-request` | `BuildStart`, `BuildFinish` around the awaited build |
| `/api/vault/submit-signed` up to its first await | `SubmitStart`: the record is checked; on an EVM network the check of the signature is awaited, elsewhere the first node is asked |
| `rpc`: the first node after that check, the next when one fails or times out | `AskNext` |
| `finalizeVaultBroadcast` after the answer | `SubmitFinish` |
| errors, no node left | `CallFails` |
| kill and restart | `Restart`: `row` stays, `call` is lost |
| networks (external) | `NetworkTakes`, `NetworkKnows` |

`SubmitStart` is the last step that looks at the record before the bytes leave. From then
on a submission holds its transaction, the node it asks (`url`; 0 while the signature is
checked), whether the bytes reached it (`sent`) and until when it waits (`until`); the
clock does not pass that moment, as a timer aborts the request. `handed` grows whenever
bytes leave, at the first node or a later one. The history `lastOpen` is when an intent
could last be paid by its record.

A transaction is named by its content: what it pays and the number, blockhash or
timestamp that tells it apart, so two intents can build the very same one.
`ContractCalls`, `Sequenced` and `Unchecked` say of a request how it is prepared,
whether its network numbers transactions (EVM, NEAR, Aptos), and whether its node
acknowledges bytes unchecked (NEAR's `broadcast_tx_async`). The policy decision is
left open here; it is the subject of the next modules.

**DemoPayments** is the same table in a demo deployment. `PrepareStart` and
`PrepareFinish` are around the awaited balance, `ConfirmStart` and `ConfirmFinish`
around the awaited `executeTransfer`: `ConfirmStart` executes on the ledger,
`ConfirmFinish` saves the copy taken before. `Restart` renews `balance` and
`entries` and leaves `row`. `previews` carries the confirmation tokens, `events`
what the analytics recorded, `crossed` the keys two handlers worked on at once.

**PolicyEngine** is `evaluatePolicy` as a pure operator: `Governs` is the first
policy of the agent in table order, enabled or not, `Permits` what it is asked, and
`Decision` the outcome.
**AgentSpending** puts it to work: the policy table in insertion order,
confirmation tokens that are not used up, prepares suspended in the balance
request, and `SpentToday` as `sumSpentTodayRaw` sums it, over records whose
broadcast is one step here (`Broadcast`) because `PaymentIntents` has the detail.
`PrepareContractCall` is `prepare_contract_call` for the owner or an agent: it reads no
policy, and what it stores counts in the agent's sum once it is broadcast.

**AuditLog** is the chain all users share (`Record`), the listing of one user's
newest events (`ListAudit`: what the query, by its `WHERE`, `ORDER BY` and `LIMIT`, may
return) and its verification (`Verify`). A hash is named by
what it covers, so equal hashes mean equal histories. `Edit` is somebody changing
a row of the database.

**Sessions** is who a tool call is made for. Consent requests, codes and tokens
are sets of signed claims in circulation; only `consumed`, `pairing` and
`connections` are tables.

| code | actions |
|---|---|
| `authorize`, `/api/oauth/approve` | `Authorize`, `Approve` |
| `exchangeAuthorizationCode`, `consumeOAuthAuthorizationCode` | `Exchange`, with the row's expiry read after the claim's |
| `exchangeRefreshToken` | `Refresh` (the old token stays) |
| `resolveUser` with and without a session, `upsertWalletConnection` | `CallTool`, `CallToolDemo` |
| `completeWalletPairing` | `CompletePairing` |

**SwapOrders** is `SwapService` and what the swap screens do with it. `tokens` are
quotes and order references, `orders` the provider's, `assetCache` the shared list.

| code | actions |
|---|---|
| `get_swap_quote`: `activeAsset` of the first asset, of the second, then the estimate | `GetSwapQuote`, `SecondLookup`, `ListArrives`, `EstimateArrives` |
| `list_swap_assets` | `ListSwapAssets` |
| `create_swap_order` | `CreateSwapOrder`, `ProviderOrders` (external), `OrderArrives` |
| `get_swap_status` | `GetSwapStatus`, `StatusArrives` |
| timeouts, refusals, lost answers | `CallFails` |
| the widget's deposit, keyed by the order | `FundFromVault` |
| others | `Relist` (external), `Reconnect`, `Restart` |

Each lookup of an asset checks the life of the cached list for itself (`FindsFrom`,
`FindsTo`): a list that expires between the two is asked for again (stage `relist`).

**BalanceCache** is the mainnet adapter as it is read: `GetBalance` and
`GetWalletSummary` look the cache up and start reads of what is missing,
`ReadArrives` stores, `ReadFails` goes on to the next source or gives up. A balance is
asked of the network's nodes, each given `RpcTimeout`; the list of transactions has its
own sources, Etherscan with `EtherscanTimeout` if there is a key to it, then Blockscout
(`Sources`, `TimeoutOf`). A balance is named by what it is of and the moment a node read
it.

**HttpShell** is the counter every request passes (`Admit`, `Refuse`, `Swept`), the
campaign redirect and its cookie (`Landing`), what requests record (each of which may
lose the write of the user or of the event), and the timer (`Start`, `Prune`). The
dashboard's counters are sets here (`CommunitySlice`).

| code | actions |
|---|---|
| `/api/oauth/approve`: two events, the cookie's referral | `ApproveConnection` |
| `/api/vault/pair`: one event, the cookie's referral, no approval | `PairVault` |
| `open_wallet`, `track_ui_event`, without cookies | `OpenWalletCall`, `TrackUiEvent` |
| sign-request, submit-signed: counted when they come | `SigningRequest` |
| what these record after each await, or when one fails | `SigningStage` |
| dashboard, and requests answered with an error | `AnswerOnly` |

**WidgetBridge** is `McpAppsBridge`: `Mount` and `Start` up to the first await; the
handshake that all calls share (`HandshakeAnswered`, `HandshakeFails`); requests
with ids and timers (`ResponseArrives`, `RequestFails`); the compatibility API
(`CompatSettles`); results that come by another route (`Push`, `WriteSlot`,
`Poll`); and the end of waiting (`GiveUp`, `HandoffSettles`). What kind of host it
runs in is chosen once, in `Init`. The results the host may deliver are those of
tools it was asked to run, and those of calls the chat made itself (call 0).

**WalletView** is `WalletApp` on top of the bridge: a call is started by a screen
(`Back`, `OpenWallet`, `SelectNetwork`, `Submit`, `Ask`, `Check`, `Open`), answered
(`ServerAnswers`, `CallFails`) and settled (`SettleEmitted`, `SettleCheck`,
`SettleOpen`) in any order with everything else. `alive` says that what started a
call is still mounted; `Receive` is the emitted-result handler all calls share,
`Show` what a change of the screen takes down. `HostKeeps` is a promise of the host that
is never settled: the bridge awaits its `callTool` and `sendFollowUpMessage` without a
timer, so what the call's screen set stays as it is, `switching` or `checkingRef`;
`hostKeeps` says which, until the screen is left (`WaitsOn`). `Visibility` hides and shows
the document; the pairing screen checks only while it is visible.

**Vault** is the Vault page in several tabs over one `storage`. Between a press
and its end `tab[t].op` holds what is awaited: a key derivation (`encrypt`,
`check`, `unlock`), a request (`fetch`, `submit`, `connect`) or the body of its answer
(`read`). `SaveEncrypted`, `SaveChecked` and `SaveFails` are the write, the check of what
was written, and the undoing, a write to the storage that may fail as well:
`PutBackFails` leaves what is stored and a tab that is busy (`stuck`) until it is
reloaded. `Fetched` holds the phrase as soon as the server has answered, `FetchedRead`
shows the review once the answer is read; if it cannot be read, `RequestFails` leaves the
phrase where it is. The server's verdict on a signature is `Valid`, per chain family.

Variables marked *history* in the modules (`approved`, `rewritten`, `lastOpen`,
`confirmed`, `exchanged`, `consents`, `executed`, `crossed`, `earned`, `viaPairing` and
others) record the past for the properties; no guard reads them, except `failed` of
WidgetBridge, which is also `usedCompatApi` once a call waits, and `admitted` of
HttpShell, by which the bound `MaxBusy` counts.

## 3. Runs

| run | module | result | question |
|---|---|---|---|
| `OneIntent` | PaymentIntents | holds | everything about one intent with two handlers at once and two nodes; how late a payment may begin; every write is a step of IntentLifecycle |
| `SingleUse` | PaymentIntents | violated | is an intent paid once? |
| `DemoLedger` | DemoPayments | holds | what two handlers and a restart leave of a demo payment |
| `AgentLimits` | AgentSpending | holds | what agents may pay while policies are confirmed, saved over, revoked and enabled again, and contract calls made without any |
| `AuditChain` | AuditLog | holds | what a listing that verifies proves |
| `OneIdentity` | Sessions | holds | who is served, and with which permission |
| `TwoSwaps` | SwapOrders | holds | what a quote, an order and a deposit are worth when calls overlap, answers are lost, assets and wallets change |
| `TwoReaders` | BalanceCache | holds | how old a balance can be |
| `OneShell` | HttpShell | holds | what is admitted, attributed and kept around the ends of windows, cookies and retention |
| `ToolCalls` | WidgetBridge | holds | whose result a call takes, when a tool is run again, and that calls end |
| `OneWidget` | WalletView | holds | what a late answer may replace, and that loading and pairing end unless the host keeps a call |
| `TwoTabs` | Vault | holds | what is stored, and who signs, with two tabs and damaged or old storage |

Their properties:

- `OneIntent`: `RecordedPaymentWasAcknowledged`: a hash in a record is of a
  transaction handed over for this intent and answered for by a node, across
  restarts and late answers. `OnlyApprovedTermsArePaid`: whatever reaches a network
  for an intent pays terms once stored for it and not blocked, over all tokens that
  outlive those terms. `RecordTellsWhatWasPaid`: unless two prepares of one key
  overlapped, every transaction handed over for an intent pays what its record
  says. `NoPaymentBeginsLate`: bytes leave for an intent at most the timeouts of all
  nodes but one after its record last offered to pay. Whatever links and tokens are in
  circulation, only a submission that was under way can begin a payment after a
  cancellation, an expiry or a recorded broadcast, and only that long.
  `ImplementsLifecycle`: PaymentIntents implements IntentLifecycle under `life <- Life`,
  `payment <- Payment`.
- `DemoLedger`: `ExecutedOnceUnlessCrossed`: an intent is once in the ledger, across
  expiry, repeated confirmations and restarts, unless one handler worked on it while
  another was suspended with it. `ImplementsLifecycle`: with the same exception, it
  is the lifecycle of mainnet payments.
- `AgentLimits`: `PaymentsWithinConfirmedTerms`: what an agent may have paid by a
  transfer was within a draft the user confirmed for it, and automatic approval within its
  threshold. `RevocationStopsPrepares`: a suspended prepare lets no transfer through for
  an agent with no enabled policy when it resumes. `OneAtATimeKeepsDailyLimit`: a transfer
  of an agent that never has two unsettled intents does not take what the agent spent that
  day, contract calls included, above a confirmed daily limit. With two it may, and a
  contract call may by itself (section 5): the three are about transfers, in a
  specification that has the contract calls.
- `AuditChain`: `VerifiedListingIsTrue`: a listing that verifies is, word for word,
  the beginning of what was recorded. `SoleUsersLogVerifies`: with one user, and a
  listing that reaches back far enough, the truth verifies.
- `OneIdentity`: `ServedCallsWereConsented`, `ValidCodeIsNotExchangedTwice` (the row
  of a consumed code is deleted by another reading of the clock than the one that
  verified the code), `ConnectionsHaveASource`.
- `TwoSwaps`: `QuotedAssetsWereActive`: a quote names a first asset offered at most a
  cache lifetime and three requests ago (the one that filled the cache, one for a list
  that expired between the lookups, the estimate), and a second offered less than a
  lifetime and two requests ago. `OrdersPayTheVault`: both addresses of an
  order are of one wallet the user had connected. `OneDepositPerOrder`: however
  often the deposit is asked for.
- `TwoReaders`: `StalenessIsBounded` by `CacheTtl + RpcTimeout + Longest`: the lifetime,
  the node that answered, and the longest read a summary waits for, which is all nodes in
  turn or the list of transactions. An overtaken read may store last.
  With the code's values for Polygon (15 s, 4 s, two nodes, Etherscan 6 s) that is
  15 + 4 + max(8, 10) = 29 s.
  `OnlyCrossedReadsGoBack`: a later answer is older than an earlier one only for a
  balance that two requests were about at once.
- `OneShell`: `LessThanTwiceTheLimit` in any stretch as long as a window.
  `AttributionIsEarned`: whoever the dashboard shows a community approved, or paired a
  Vault, in a browser that opened its link within the cookie's life.
  `EventsLiveAsLongAsPromised`: however often the process restarts, also what is recorded
  after a network was waited for.
- `ToolCalls`: `OthersAnswerOnlyEmptyCalls`: another call's result is only taken by a
  call the host answered without one. `RepeatedOnlyAfterFailure`: a tool is asked for
  again only after its first request failed or timed out, and never a third time.
  `NoPushIsMissed`: a result pushed before the empty answer is found as well as one
  pushed after it. `BridgeLetsGo`: only the host's own promises can hold a call.
- `OneWidget`: `SnapshotIsWhatIsShown` (unless a pairing screen put it there),
  `FormKeepsItsTerms`: the network and asset of an open transfer form never change
  under the user's hands. `OpenedReplacesOnlyItsScreen`. `SwitchingEnds`: the notice
  that a balance is loading goes away, unless the host keeps a selection for ever.
  `ConnectionIsNoticed`: a pairing screen with a link that is visible again and again ends
  by itself when the Vault is connected, unless the host keeps one of its checks.
- `TwoTabs`: `ReadyIsStored`: the wallet of the ready screen is the stored one until
  another tab writes. `BroadcastsAreOfTheConnectedWallet`: connected when the server
  checks the signature, also when another wallet was connected between review and
  signature.

Type invariants and further invariants (`AuditExplainsStatus`, `WaitersCanBeReached`,
`TokensStayWithinConsent`, `ReceiptsAreOfExecutions`, `ReviewSignsWithTheShownVault`,
`OrdersKeepTheirQuotes` and others) that are proved for every instance are not
repeated in runs; section 4 lists them. Types of AuditLog, HttpShell, WalletView and
BalanceCache are proved too, and are properties of their runs because a bug of the
code breaks them.

### Bounds

Every bound is a constant named in the module. They are the smallest at which every
action happens and each property has a defect that breaks it (`PROJECT.json` lists
one for each).

- `OneIntent`: one key, because its properties relate the handlers of one record, and
  the theorems carry them to any number. Three requests, one per kind of network and
  the contract call. Two call slots let any two handlers overlap at every await; none
  of the handlers looks at a third. Two nodes, so that one can fail over to the other,
  each for one tick. `Ttl = 1`, `MaxTime = 2`: an intent, link or token is before, at or
  past its expiry, a second prepare writes a later one while the links of the first run
  out, and a payment could begin later than `NoPaymentBeginsLate` allows (a node asked
  twice does). `MaxNumber` bounds what tells transactions apart. 0.7 million states.
- `DemoLedger`: two intents that compete for a balance of 1 with amounts 1 and 2, two
  handlers, one expiry, two entries of an intent.
- `AgentLimits`: two drafts of one agent that differ in limit, threshold and recipients,
  so that table order decides; three transfers: covered by one draft, by both, and the
  owner's; a contract call of the agent that spends a limit alone; balances below and
  above what is asked; one midnight; one suspended prepare, which policies change under,
  and two keys.
- `AuditChain`: four events, two users, two contents, listings of up to three: a
  listing can be complete, cut off, and interrupted by somebody else.
- `OneIdentity`: two clients; one wallet in two spellings with two Casper addresses
  and another wallet; one request, two codes, four tokens: enough for a code exchanged
  and refreshed for both clients. Codes and access tokens last 1, the others 2, and
  time reaches 2.
- `TwoSwaps`: one user whose wallet changes, three assets of which one comes and goes, one
  quote (its token used for two orders), two calls under way. `AssetCacheTtl` and
  `RequestTimeout` are 1 and time goes to 5: the bound of 4 on the age of the first asset
  and of 3 on the second are reached, and could be exceeded. 2.3 million states. That
  orders and references stay with their user is proved for any users.
- `TwoReaders`: one user whose wallet changes, two nodes, two requests, a lifetime and a
  timeout of 1, Etherscan with 2, and time to 5: the bound of 5 is exclusive and could be
  exceeded. 3.5 million states.
- `OneShell`: one browser and user, two campaigns, the five routes that record, of which
  one is called at a time within a window (`MaxBusy`); a window of 2 that admits one
  request (two for pairing), time to 4: two windows, a cookie that runs out, a retention
  that ends, a signing request that waits across it, and a sweep. 2.1 million states.
- `ToolCalls`: two calls overlap in every order, and the second can be given what the
  first left behind; a tool with listed views and one without; one slot; one tick, so
  that a push is before, in or after the millisecond of a start.
- `OneWidget`: two networks of which one can send, two calls, one failure, damaged payload
  or call the host keeps (the safety properties are proved for any number of them).
  Only `ConnectionIsNoticed` needs a slot to come free for the timer. 0.4 million states.
- `TwoTabs`: two phrases, a password in two spellings with one normal form, a tab
  opened with a signing link and one with a connecting link, five chain families, and
  four things the storage may hold at first. 4.2 million states.

### Fairness

- `WidgetBridge!FairSpec`: weak fairness of the timers (`TimesOut` for each waiting
  request, `GiveUp` for each watching call): a browser's timer fires. Nothing is
  assumed of the host, so a call may stay for ever in the compatibility API or in a
  follow-up message, which the code awaits without a timer.
- `WalletView!Spec`: weak fairness of "the call is answered or fails"
  (`ServerAnswers(c) \/ CallFails(c)`) and of its settling, for each call the bridge holds:
  its own timers end those. A call the host keeps is out of reach of any timer and of this
  assumption: `HostKeeps` takes it away for good, at any moment before its answer, and both
  liveness properties say that the screen may then wait for ever. Strong fairness of
  `Check(c)` while a pairing link is shown: its interval keeps firing while the document is
  visible and nothing is being checked, and that a slot of the model is taken at that
  moment is the model's bound, not the program's. That the document is looked at again and
  again is no assumption of the specification but the premise `[]<>visible` of
  `ConnectionIsNoticed`.

The payment path has no liveness property: that a suspended handler ends is what the
timers of `rpc` do, each by itself, and nothing else in the code makes it so.
No fairness is assumed of users, networks, providers or the clock, and none anywhere
else.

## 4. Theorems

Proved by TLAPS for all constants that satisfy the `ASSUME`s of the modules (bounds
are natural numbers, kinds of requests are subsets, sentinels are not values). TLC
evaluates these assumptions in every run. For every specification there is a theorem
that its types hold (`TypeCorrect`; `AuditTypesCorrect`, `CacheTypesCorrect`,
`ShellTypesCorrect` and `ViewTypesCorrect` where two share a module). Every safety
property and every refinement that a run checks is proved; liveness is not.

Assumptions beyond the types of constants: the keys of `AgentSpending` are finitely
many (a sum over the table is taken), a rate limit's window, the prune period, a
timeout and a lifetime of tokens last at least one tick, and there is a node to read
from.

`PaymentIntentsProofs`:

- `AcknowledgedCorrect` through `AcknowledgedInv`: the property is not inductive
  alone, because `SubmitFinish` records what a suspended call holds; the conjunct
  added says that a suspended broadcast was handed over for the intent it names.
- `ApprovedCorrect` through `ApprovedInv`: terms travel from the record to a
  suspended build, from there to a token and to the network, and `approved` holds
  them at each station.
- `RecordCorrect` through `RecordInv`: the same stations, with `Holds`: what they
  carry is what the record says, unless the intent was rewritten.
- `LateCorrect` for `NoPaymentBeginsLate`: an action property. `LateInv` is inductive
  with the types: an open intent was open just now, and whoever waits for the n-th node
  waits until at most n timeouts after its intent was last open. A submission begins while
  its intent is open (`AskedInTime`, `CallsInTime`), which needs `StoredStatuses` (only
  five statuses are ever stored, and `PENDING` exactly with a hash), and the clock waits
  for timers (`ClockSteps`).
- `StatusExplainedCorrect`: each record's status is the decision of an audit event
  (`AuditExplainsStatus`).
- `LifecycleCorrect`: `Spec => ImplementsLifecycle`. Each action maps to `Advance`,
  `Pay`, `Replace` or a stutter; the lemmas `IntoPending` and
  `FinalizesFrom` say which statuses the walk can start from.

`DemoPaymentsProofs`:

- `ExecutedCorrect`, `ReceiptsCorrect` through `Inv`: `OnceInv` ties the ledger's
  entries to the stored status and to suspended confirmations, `ConfirmInv` the copy a
  confirmation took to the row, `PreviewInv` and `ReceiptInv` carry the amount from
  preview to execution to receipt. Two suspended confirmations of one key cannot both
  count without `crossed`, which is what makes it inductive.
- `EventsCorrect`: the analytics tell what became of an intent (`EventsExplainStatus`).
- `LifecycleCorrect`: the refinement. A first crossing is `Replace`
  (`CrossingReplaces`), everything after it a stutter (`CrossedStutters`), and a save
  without crossing is a walk of the table (`SaveAdvances`, `DemoWalks`).

`AgentSpendingProofs`:

- `DecisionMonotone`: for every policy table and request, asking for more never
  gets a laxer decision. A fact about `evaluatePolicy` alone.
- `TermsCorrect` for `PaymentsWithinConfirmedTerms`: of transfers, in a specification whose
  `Next` has the contract calls that no policy decides on. The strengthening is
  `PoliciesConfirmed` (terms in the table were confirmed), which `SavePolicy`
  preserves whether it appends or replaces. `DecisionSound` carries the decision of
  the engine over to the terms.
- `RevocationCorrect`: an action property, from `DecisionSound`.
- `PoliciesExplainedCorrect`: the audit log knows why a policy is enabled or not.
- `DailyLimitCorrect` for `OneAtATimeKeepsDailyLimit`. What is inductive is
  `LimitInv`: an agent that never had two payments to make at once has at most one, and
  if that is a transfer, a confirmed limit has room for it besides what is spent already,
  contract calls included (`OneFits`). `prepare` makes the room (`PrepareKeeps`), a broadcast uses it up
  (`BroadcastKeeps`), and nothing else spends (`QuietKeeps`). `SpentToday` is a fold that
  chooses its order: `PaidIsSum` shows that it agrees with every function that adds
  amounts up (`Adds`), `SumExists` that there is one; from these come what one record
  more adds, and that fewer records add up to less. `DayMonotone` says that the day
  does not go back.
- `VerifiedCorrect`, `SoleUsersCorrect` for AuditLog through `ChainInv`: whatever rows
  are edited, the hashes of row j name the first j entries of what was recorded. A
  listing read backwards is rows in ascending order (`OldestFirst`); if they continue
  one another from the beginning they are the first rows of the table
  (`LinkedFromGenesis`), and if the table fits the listing none is left out
  (`NothingLeftOut`). Both are arguments from the least row that differs (`Least`).

`WidgetBridgeProofs`, for any number of calls and every kind of host:

- `ReachCorrect` for `WaitersCanBeReached`, from `TypeOK /\ WaitingInv`. Neither is
  inductive alone: `WaitingInv` says that ids name requests, that there is at most one
  entry for the handshake and one for each call, and that an entry for a call is in
  `pending` exactly while that call waits for it. `NextIds` shows that calls that
  send in one step, when the handshake they share is answered, get different ids.
- `RepeatCorrect` through `CountInv`: how often a tool was asked for is known at
  each await. `OwnCorrect` through `OwnInv`: a call only watches other routes after
  an empty answer.
- `PushCorrect` and `FilterCorrect` (`FilterIsReleased`: the filter for pushed results
  never outlives its calls), inductive with the types.
- `CallSteps` carries them all: every action is, for each call, one of the few ways
  from one await of `callTool` to the next that `CallStep` lists.

`SessionsProofs`:

- `TokensCorrect`, `ServedCorrect` through `ConsentInv`: user, wallet and scopes of
  every claim in circulation, along any chain of exchanges and refreshes, go back to
  one consent.
- `CodesCorrect` through `CodeInv`: the row of every exchanged code that is still
  valid is kept.
- `UsersCorrect` (`OneUserPerWallet`), from `ConsentInv`; `ConnectionsCorrect` through
  `SourceInv`.

`WalletProofs`, of Vault, through one `Inv` of three parts (`WaitInv` what a tab that awaits
holds, `OpenInv` what an open vault is, `StoredInv` what storage and writer tell):
`BroadcastsCorrect`, `ReadyCorrect`, and, without a run, `SignerCorrect` (a review signs
with the phrase of the vault the tab shows, unless that was removed, although a phrase may
have been left behind by an answer that could not be read), `ShownCorrect`
(addresses shown are derived from the phrase, also if the storage was altered),
`SignedCorrect` ("broadcast" is shown only for what was) and `SavedCorrect` (a saved
vault opens with every spelling of its password).

`WalletProofs`, of BalanceCache: `StalenessCorrect` and `CrossedCorrect` through
`CacheInv`. `ReadOK`: an attempt of a request began no later than the timeouts of the
sources tried before it, counted from the request, and a value in its hands was cached or
read since the request came; `EntryOK`: a cached value is as old as its lifetime and one
node's answer allow. Neither is behind the newest reading that was answered, unless two
requests crossed on that balance, and two requests about one balance have crossed.
Neither property is inductive alone: an answer comes from reads and from the cache, and
the cache from reads.

`PeripheryProofs`, of WalletView, for any networks and number of overlapping calls:
`SnapshotCorrect`, `FormCorrect`, and `OpenedCorrect`, which needs that a call made for
a new connection belongs to its screen as long as it is alive (`OpenedOnItsScreen`).
`ViewTypes` strengthens the types by what a transfer that is under way can name.

`PeripheryProofs`, of HttpShell: `RateLimitCorrect` through `RateInv`: while the window
of a bucket lasts, the requests admitted in the last window split (`Splits`) into those
of the window before, with the one that opened this, and those the bucket counted since;
afterwards at most one less than the limit remain. The sweep removes only buckets whose
window is over. `AttributionCorrect` through `ReferralInv`: a cookie is as old as the
last visit by its campaign's link, and whoever has a referral earned it, by an approval or
a pairing. `EventsCorrect`
through `EventsInv`: the timer fires within its period, and no event outlives the firing
that finds it too old.

`SwapOrdersProofs`: `PayCorrect`, `DepositsCorrect` and `FreshCorrect` (a call is within
its deadline, and how far that is from the moments its two assets were last offered is
told by its stage: a list under way, the second lookup, a list asked for again, the
estimate), and, without a run, `OrdersCorrect`
(an order keeps the terms of its quote), `StatusesCorrect` (a user is told of own orders
only) and `DepositAssetsCorrect` (what is funded is the asset of the order).
`QuoteInv` gives the tokens' fields their shape, `OwnInv` ties orders, references and
screens to the user, and `FundingFacts`, `FieldsAgree` and `TickersAgree` are facts
about the two network tables, proved case by case.

Only model-checked: liveness (`BridgeLetsGo`, `SwitchingEnds`, `ConnectionIsNoticed`), for
which the prover has no rules. Where a proof needs induction, over the steps of a fold or
the rows of a table, it argues from the least or smallest counterexample (`Least`,
`Smallest`), because the library's induction theorems take an operator as a parameter,
which the installed provers cannot instantiate.

## 5. What the code does and its documents do not say

`SingleUse` checks a statement of `docs/THREAT_MODEL.md` and finds a behaviour that
contradicts it: the record is marked after the awaited broadcast, so two submissions
of one intent, or one after a failed answer or a restart, both reach the network. One
numbered network (EVM) suffices: both transactions are built in turn.

The following were met while modelling; the models have the behaviours, and a property
says what holds in their place.

*Payments.*

- `prepare` does not look the key up again after the balance arrived; a second prepare
  that overlapped erases the record of a payment made meanwhile. This is why
  IntentLifecycle has `Replace`; without overlap `RecordTellsWhatWasPaid` holds.
- An intent can be cancelled while its payment is being submitted: the payment happens,
  and the record says `CANCELLED` without a hash. It may even *begin* after the
  cancellation: `submit-signed` looks at the record once (`index.ts:215`), then awaits the
  check of an EVM signature (235) and one node after the other (245,
  `mainnet-adapter.ts:76-95`), and the bytes may first leave at any of these. `MCP_TOOLS.md:31`
  says `cancel_transfer` "irreversibly cancels an eligible intent".
  `NoPaymentBeginsLate` says how long after the cancellation that can be.
- `prepare_contract_call` takes `initiatedByAgentId` and stores the intent `AUTO_APPROVED`
  without reading a policy (`aifp1-contract-call-service.ts:162-176`, 201), while
  `LIMITATIONS.md:15` says "Agent policies are enforced by deterministic server code". An
  agent without any enabled policy can so have a payment approved (for the user to sign),
  and since `sumSpentTodayRaw` counts it (`store.ts:83-99`), an agent with one intent at a
  time can spend more in a day than any limit the user confirmed. The properties of
  AgentSpending are therefore about transfers: within confirmed terms, and never above
  the limit counting the contract calls paid before.
- The hash a node returns is recorded as it comes (`mainnet-adapter.ts:424-427`): that it is
  the hash of what was sent is taken on trust by the code and by the model.
- Two NEAR transactions with one nonce are both acknowledged and recorded as settling;
  one can never be taken, and nothing reads its status again: `getTransactionStatus`
  has no caller, so `PENDING` is final on every network.
- Two payments of an agent prepared before either is broadcast both pass the daily
  limit (`OneAtATimeKeepsDailyLimit`).
- An untouched audit log is reported broken when the user has more events than the
  listing shows, or another user acted in between (`SoleUsersLogVerifies`).
- Two demo confirmations at once execute twice, a cancellation between them is
  overwritten, and the balance may be used up between prepare and confirm.

*Sessions and shell.* Nothing in the server calls `createWalletPairing` any more, so a
pairing can only be one that is already in the table. A code can be exchanged twice if
it expires during the second exchange. `/api/vault/pair` credits the cookie's campaign as an
approval does, without one (`index.ts:158-168`). The dashboard's conversion ratio can exceed one,
because a user may complete a payment without having opened the wallet.

*Swaps.*

- Quote and order tokens verify alike. One without the date that is asked for parses to
  NaN, which no comparison calls expired; it does no harm because a reference names no
  assets (the order fails) and a quote no order.
- The two assets of a quote are looked up one after the other (`swap-service.ts:131-132`),
  each with its own check of the cached list (105): a list that expires in between is
  asked for again, and the first asset is then one request older than the second.
- A quote serves several orders until it expires; an order whose answer is lost exists
  without anybody's reference.
- A deposit made after another wallet was connected comes from that one, and the refund
  address is the former one's.
- The provider says `apt` and `unichain`, the widget `aptos` and has no Unichain: no
  funding route is found for Aptos orders, unlike the comment at `App.tsx:353-356`.

*Balances.* The list of transactions of a summary has sources and timeouts of its own
(`mainnet-adapter.ts:249-255`), so the number of nodes does not bound how long a summary
holds a cached balance. A failed read fails its summary while its siblings go on and fill the
cache. An unusable result fails a balance at once, without the next node. The history
never fails a summary. On Casper "not found" is a balance of zero.

*Widget.*

- A tool call that times out on the message channel is made again through the
  compatibility API (`RepeatedOnlyAfterFailure`).
- Back's refresh fetches the default network while the wallet screen keeps the selected
  one, unlike the comment at `App.tsx:519-520`; after a pairing the snapshot is still
  the demonstration data, unlike `App.tsx:774-775`.
- The late answer of a check replaces a newer view; a refresh that returns late throws
  an open form away; a selection that fails replaces the wallet by the error; of
  overlapping selections the first that ends takes the notice of the others down, and
  answers in another order leave a balance unavailable.
- A call the host keeps (`mcp-bridge.ts:236`, 193) leaves what its screen set for it: the
  notice that a balance is loading, or `checkingRef`, with which no later check starts
  (`App.tsx:689-704`), until the user leaves the screen.
- The idempotency key of a transfer is made per click.

*Vault.* Restore, Back and Create lead from an existing vault to a new one without the
two taps that removing it takes. A payment of the EVM, Solana, NEAR and Aptos families
leaves from the wallet that is connected when its signature is checked (`index.ts:217`
reads the connection; another may be connected while 235 and 245 wait); only Casper
compares it with the reviewed account.

- A save that fails puts back what it found when it began (`VaultApp.tsx:122-125`), although
  another tab stored or removed a vault meanwhile: a removed vault is in the storage
  again. `PRIVACY.md:11` says that removing the Vault "removes that local copy". If the
  put-back fails, too, the new vault stays and the tab is busy until it is reloaded.
- `unlock` holds the phrase before it reads the server's answer (`VaultApp.tsx:147-148`), and
  `signAndSubmit` drops it only after an answer it accepts (170): when either answer is
  lost the phrase stays in memory, in the second case although the payment was signed and
  broadcast. `HACKATHON_BUILD_LOG.md:79` says it is "wiped immediately after signing".
- A vault removed while it is being unlocked leaves its phrase held for the review; a
  second tap during an operation is not kept from removing it.

## 6. Abstractions, and what is not modelled

- Addresses, amounts, encodings, signatures and hashes are values or names. That a
  submission token only lets the bytes of its own transaction through is taken from
  `signed-transaction-validator.ts` as a guard of `SubmitStart`, and its comparison with
  the connected wallet is `Valid` in Vault.
- A save and its audit event are one step: no await lies between them. A kill
  between the two statements is not modelled.
- A network takes a transaction at most once, and a numbered network takes numbers
  in order. Reorganisations and replaced transactions are not modelled. That two
  intents with one nonce or blockhash are one transaction is in the model, and no
  property is about it.
- PaymentIntents, DemoPayments and AgentSpending are one user's view: every query is by
  user, and Sessions says who that is.
- BalanceCache: nodes do not lag behind each other, timers fire on time, addresses that
  agree in lower case are one. A page of transactions is not told apart from another.
- Sessions: claims cannot be forged; registration of clients and PKCE are input
  validation. The pairing exists from the start.
- SwapOrders: lists are answered as of the moment of the request; assets change only
  while quotes are still to come.
- HttpShell: histograms by platform, version and network are plain queries; headers,
  parsing and the MCP transport are input and output.
- WidgetBridge: the order in which several slots are read is in the model (`Poll`) and
  not exercised by one slot; that `confirm_transfer` lists no transfer preview among its
  views is left out with the other tools.
- WalletView: screens with nothing but a way back are one value, `other`. The server no
  longer emits `wallet-connect`; the widget's state saved by an older version brings it
  (`Init`), and its screen is kept because the code is.
- PaymentIntents: the check of an EVM signature is local and takes no tick of the clock;
  that it is awaited, so that other handlers run meanwhile, is in the model.
- HttpShell: signing requests under way are a set, so two of one user at one stage are one;
  that they are refused when the record or link is not good is `AnswerOnly`.
- Vault: two taps on Remove are one action; phrase and its verification one screen
  each way; pairing and authorizing are both `Connect`. The display of a contract call
  changes no state. No liveness is stated of it.
- Contract calls: which routes and calldata are trusted is validation of input.
- The configuration is read once, and amount, address and transaction encodings are
  straight-line functions with unit tests: nothing to check.
- The cryptography of vault, tokens and signatures is not modelled.

## 7. What could come next

1. A composition of Vault with PaymentIntents: reviews on two devices of an intent that
   is prepared again meanwhile.
2. A kill between `saveIntent` and `audit.record`, with `AuditExplainsStatus` weakened
   to what then holds.
3. Larger instances: three calls in WidgetBridge with two slots, two suspended prepares
   in AgentLimits.
