--------------------------------- MODULE DemoPayments ---------------------------------
(* Payments of a demo deployment: the server itself executes them, on a ledger that    *)
(* lives in memory, while the intents live in the database.  confirm() checks its copy *)
(* of the intent, executes, awaits, and saves the copy.  The messages of one request   *)
(* to /mcp are handled together, so two handlers can be between those steps at once.   *)
EXTENDS IntentStatus, Integers, FiniteSets

CONSTANTS
  Keys,        \* idempotency keys of the demo user; an intent is named by its key
  Amounts,     \* what may be asked for, in base units
  Opening,     \* the ledger's balance when the process starts
  Calls,       \* handlers that can be suspended at once
  NoRow, Idle,
  Ttl, MaxTime, MaxEntries

ASSUME ConstantsAssumption ==
  /\ Amounts \subseteq Nat \ {0} /\ Opening \in Nat
  /\ Ttl \in Nat /\ MaxTime \in Nat /\ MaxEntries \in Nat

Intent == [status: Statuses, amount: Amounts, exp: Nat, hash: BOOLEAN]
Preview == [key: Keys, amount: Amounts, exp: Nat]
Suspended ==
  [op: {"prepare"}, key: Keys, amount: Amounts, balance: Int]
    \cup [op: {"confirm"}, key: Keys, intent: Intent]

ASSUME NoRowAssumption == NoRow \notin Intent
ASSUME IdleAssumption == Idle \notin Suspended

VARIABLES
  now,
  row,       \* table payment_intents, by key
  previews,  \* previews shown: each comes with the confirmation token of its expiry
  call,      \* suspended handlers
  balance,   \* DemoLedgerAdapter: what is left
  entries,   \* DemoLedgerAdapter: how often an intent is in the list of transactions
  events,    \* analytics_events of intents
  executed,  \* history: intents executed, with the amount, by any process
  crossed    \* history: keys one handler worked on while another was suspended with them

vars == <<now, row, previews, call, balance, entries, events, executed, crossed>>

EventNames ==
  {"transfer_prepare_started", "transfer_prepared", "transaction_broadcast",
   "transaction_confirmed", "transfer_cancelled"}

Init ==
  /\ now = 0
  /\ row = [k \in Keys |-> NoRow]
  /\ previews = {} /\ call = [c \in Calls |-> Idle]
  /\ balance = Opening /\ entries = [k \in Keys |-> 0]
  /\ events = {} /\ executed = {} /\ crossed = {}

---------------------------------------------------------------------------------------

Confirming(k) == \E c \in Calls : call[c] # Idle /\ call[c].op = "confirm" /\ call[c].key = k

Cross(k, condition) == crossed' = IF condition THEN crossed \cup {k} ELSE crossed

\* saveIntent: inserts, or replaces what is there.
Save(k, intent) == row' = [row EXCEPT ![k] = intent]

Track(names, k) == events' = events \cup (names \X {k})

\* prepare, up to its await.  The ledger answers at once, the handler resumes later.
PrepareStart(c, k, amount) ==
  /\ call[c] = Idle /\ row[k] = NoRow
  /\ call' = [call EXCEPT ![c] =
       [op |-> "prepare", key |-> k, amount |-> amount, balance |-> balance]]
  /\ Track({"transfer_prepare_started"}, k)
  /\ UNCHANGED <<now, row, previews, balance, entries, executed, crossed>>

\* The policy engine blocks what the balance does not cover.
Covered(amount, available) == amount <= available

PrepareFinish(c) ==
  /\ call[c] # Idle /\ call[c].op = "prepare"
  /\ \E status \in Decisions :
       LET k == call[c].key
           intent == [status |-> status, amount |-> call[c].amount, exp |-> now + Ttl,
                      hash |-> FALSE]
       IN /\ status # "BLOCKED" => Covered(call[c].amount, call[c].balance)
          /\ Save(k, intent)
          /\ previews' = IF status = "BLOCKED" THEN previews
                         ELSE previews \cup {[key |-> k, amount |-> intent.amount,
                                              exp |-> intent.exp]}
          /\ Track({"transfer_prepared"}, k)
          /\ Cross(k, row[k] # NoRow)
  /\ call' = [call EXCEPT ![c] = Idle]
  /\ UNCHANGED <<now, balance, entries, executed>>

\* prepare with a key already used, and render_transfer_preview: the preview again.
ShowPreview(k) ==
  /\ row[k] # NoRow
  /\ previews' = previews \cup {[key |-> k, amount |-> row[k].amount, exp |-> row[k].exp]}
  /\ UNCHANGED <<now, row, call, balance, entries, events, executed, crossed>>

\* ConfirmationService.verify: the token names the intent and its expiry, not its terms.
Accepts(token, k, intent) == token.key = k /\ token.exp = intent.exp

\* Mutant of Confirmable: no look at the status once the intent has not expired.
ConfirmableInAnyState(intent) == now < intent.exp

\* The checks of confirm() before it starts.
Confirmable(intent) ==
  intent.status \in {"REQUIRES_CONFIRMATION", "AUTO_APPROVED"} /\ now < intent.exp

\* DemoLedgerAdapter.execute: looks for a receipt by a hash no intent has yet.
Execute(k, intent) ==
  /\ entries[k] < MaxEntries
  /\ balance' = balance - intent.amount
  /\ entries' = [entries EXCEPT ![k] = @ + 1]
  /\ executed' = executed \cup {[key |-> k, amount |-> intent.amount]}

\* confirm, up to its await: the copy walks CONFIRMED and SIGNING, the table does not.
ConfirmStart(c, token) ==
  LET k == token.key IN
  /\ call[c] = Idle /\ row[k] # NoRow
  /\ Accepts(token, k, row[k])
  /\ Confirmable(row[k])
  /\ Execute(k, row[k])
  /\ call' = [call EXCEPT ![c] = [op |-> "confirm", key |-> k, intent |-> row[k]]]
  /\ Cross(k, Confirming(k))
  /\ UNCHANGED <<now, row, previews, events>>

\* The copy as it is saved: SUBMITTED and COMPLETED, with the transaction hash.
Receipt(k, intent) == [intent EXCEPT !.status = "COMPLETED", !.hash = TRUE]

SettledEvents == {"transaction_broadcast", "transaction_confirmed"}

ConfirmFinish(c) ==
  /\ call[c] # Idle /\ call[c].op = "confirm"
  /\ Save(call[c].key, Receipt(call[c].key, call[c].intent))
  /\ Track(SettledEvents, call[c].key)
  /\ call' = [call EXCEPT ![c] = Idle]
  /\ UNCHANGED <<now, previews, balance, entries, executed, crossed>>

Cancel(k) ==
  /\ row[k] # NoRow
  /\ row[k].status \in {"REQUIRES_CONFIRMATION", "AUTO_APPROVED", "CONFIRMED"}
  /\ row' = [row EXCEPT ![k].status = "CANCELLED"]
  /\ Track({"transfer_cancelled"}, k)
  /\ Cross(k, Confirming(k))
  /\ UNCHANGED <<now, previews, call, balance, entries, executed>>

\* The process dies and starts again with a new ledger and the old table.
Restart ==
  /\ call' = [c \in Calls |-> Idle]
  /\ balance' = Opening /\ entries' = [k \in Keys |-> 0]
  /\ UNCHANGED <<now, row, previews, events, executed, crossed>>

Tick ==
  /\ now < MaxTime /\ now' = now + 1
  /\ UNCHANGED <<row, previews, call, balance, entries, events, executed, crossed>>

Next ==
  \/ \E c \in Calls, k \in Keys, a \in Amounts : PrepareStart(c, k, a)
  \/ \E c \in Calls : PrepareFinish(c) \/ ConfirmFinish(c)
  \/ \E c \in Calls, t \in previews : ConfirmStart(c, t)
  \/ \E k \in Keys : ShowPreview(k) \/ Cancel(k)
  \/ Restart
  \/ Tick

Spec == Init /\ [][Next]_vars

---------------------------------------------------------------------------------------
(* Properties                                                                          *)

TypeOK ==
  /\ now \in Nat
  /\ row \in [Keys -> Intent \cup {NoRow}]
  /\ previews \subseteq Preview
  /\ call \in [Calls -> Suspended \cup {Idle}]
  /\ balance \in Int /\ entries \in [Keys -> Nat] /\ events \subseteq EventNames \X Keys
  /\ executed \subseteq [key: Keys, amount: Amounts] /\ crossed \subseteq Keys

\* A receipt is of an execution with the amount it states, in this process or in one
\* before it, and what is executed was once shown with a token to confirm it.
ReceiptsAreOfExecutions ==
  /\ \A k \in Keys : row[k] # NoRow /\ row[k].hash =>
       /\ row[k].status = "COMPLETED"
       /\ [key |-> k, amount |-> row[k].amount] \in executed
  /\ \A e \in executed : e.key \in crossed
       \/ \E p \in previews : p.key = e.key /\ p.amount = e.amount

\* An intent is once in the ledger, across expiry, repeated confirmations and restarts,
\* unless a handler worked on it while another was suspended with it.
ExecutedOnceUnlessCrossed == \A k \in Keys : entries[k] <= 1 \/ k \in crossed

\* The authoritative events tell what became of an intent (docs/ANALYTICS.md:9-12).
EventsExplainStatus ==
  \A k \in Keys : row[k] # NoRow =>
    /\ <<"transfer_prepared", k>> \in events
    /\ row[k].status = "COMPLETED" => <<"transaction_confirmed", k>> \in events
    /\ row[k].status = "CANCELLED" => <<"transfer_cancelled", k>> \in events

---------------------------------------------------------------------------------------
(* Refinement                                                                          *)

Life == [k \in Keys |-> IF k \in crossed THEN "REPLACED"
                        ELSE IF row[k] = NoRow THEN "DRAFT" ELSE row[k].status]

NoPayment == 0

Payment == [k \in Keys |-> IF k \in crossed \/ row[k] = NoRow \/ ~row[k].hash THEN NoPayment
                           ELSE row[k].amount]

Lifecycle == INSTANCE IntentLifecycle WITH
  Intents <- Keys, Payments <- Amounts, life <- Life, payment <- Payment

\* Demo payments keep the lifecycle mainnet payments keep: an intent no two handlers
\* worked on at once walks the table, and gets its payment once, when it completes.
ImplementsLifecycle == Lifecycle!Spec
=======================================================================================
