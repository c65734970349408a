------------------------------ MODULE PaymentIntents ------------------------------
(***************************************************************************)
(* The mainnet payment path of the MCP server: prepare_transfer,           *)
(* prepare_contract_call, confirm_transfer, cancel_transfer, and the two   *)
(* Vault routes /api/vault/sign-request and /api/vault/submit-signed.      *)
(*                                                                         *)
(* Node runs one handler at a time but suspends it at every await, so each *)
(* handler is split at its await: the step before it checks the record and *)
(* leaves a suspended call, the step after it completes the call with what *)
(* the record is then.  `row` is the payment_intents table (it survives a  *)
(* restart); `call` holds the suspended handlers (it does not).  Tokens    *)
(* are HMAC-signed claims held by clients: issued once, they stay usable   *)
(* until the expiry written in them, on any device and any number of       *)
(* times.                                                                  *)
(***************************************************************************)
EXTENDS IntentStatus, FiniteSets

CONSTANTS
  Keys,            \* (user, idempotency key) pairs; the intent id is a hash of one
  Requests,        \* what can be asked: recipient, amount, asset and network
  ContractCalls,   \* the requests made through prepare_contract_call
  Evm,             \* requests on EVM networks: their signature check is awaited
  Sequenced,       \* requests on networks that number an account's transactions
  Unchecked,       \* requests whose node acknowledges bytes before checking them
  Calls,           \* slots for suspended handlers
  Endpoints,       \* the nodes of a network that are asked, one after the other
  RpcTimeout,      \* how long one of them is waited for, in ticks
  Ttl,             \* lifetime of a prepared intent, in ticks
  MaxTime,         \* bound on the clock
  MaxNumber,       \* bound on what tells transactions apart
  NoRow, NoTx      \* absent record, absent transaction hash

ASSUME ConstantsAssumption ==
  /\ Sequenced \subseteq Requests
  /\ Evm \subseteq Sequenced /\ ContractCalls \subseteq Evm
  /\ Unchecked \subseteq Sequenced
  /\ Endpoints \in Nat \ {0} /\ RpcTimeout \in Nat
  /\ Ttl \in Nat \ {0}
  /\ MaxTime \in Nat /\ MaxNumber \in Nat

Time == 0 .. MaxTime
Numbers == 0 .. MaxNumber

\* A transaction is named by its content, as a hash names it: what it pays and
\* the nonce, sequence number, blockhash or timestamp that tells it apart.
Tx == [req : Requests, seq : Numbers]

ASSUME NoTxAssumption == NoTx \notin Tx

Row == [request : Requests, req : Requests, status : Statuses,
        expiresAt : Nat, tx : Tx \cup {NoTx}]

ASSUME NoRowAssumption == NoRow \notin Row

Idle == [op |-> "idle"]

SuspendedCall ==
  [op : {"prepare"}, key : Keys, req : Requests]
    \cup [op : {"build"}, key : Keys, req : Requests, expiresAt : Nat]
    \* with which node is asked (0: the signature is being checked), whether the bytes
    \* reached it, and until when it is waited for
    \cup [op : {"broadcast"}, key : Keys, tx : Tx, url : 0 .. Endpoints,
          sent : BOOLEAN, until : Nat]

SubmitToken == [key : Keys, expiresAt : Nat, tx : Tx]

AuditEvent == [action : {"PREPARE_TRANSFER", "PREPARE_CONTRACT_CALL",
                         "VAULT_BROADCAST", "CANCEL_TRANSFER"},
               key : Keys, decision : Statuses]

VARIABLES
  now,           \* the server's clock
  row,           \* payment_intents: at most one row per (user, key)
  call,          \* what each suspended handler holds while it awaits
  links,         \* per intent, the expiries of the signing links issued for it
  submitTokens,  \* submission tokens issued by sign-request
  handed,        \* per intent, the signed transactions sent to a node
  onChain,       \* per intent, those the network took (external)
  audit,         \* audit_events, as a set of what each event says
  approved,      \* history: per intent, the terms ever stored as payable
  rewritten,     \* history: the intents a second prepare wrote over
  lastOpen       \* history: per intent, when it was last open

vars == <<now, row, call, links, submitTokens, handed, onChain, audit,
          approved, rewritten, lastOpen>>

Ledger == UNION { onChain[k] : k \in Keys }

Init ==
  /\ now = 0
  /\ row = [k \in Keys |-> NoRow]
  /\ call = [c \in Calls |-> Idle]
  /\ links = [k \in Keys |-> {}]
  /\ submitTokens = {}
  /\ handed = [k \in Keys |-> {}]
  /\ onChain = [k \in Keys |-> {}]
  /\ audit = {}
  /\ approved = [k \in Keys |-> {}]
  /\ rewritten = {}
  /\ lastOpen = [k \in Keys |-> 0]

\* The timers of the RPC helpers: nobody waits for a node beyond its timeout.  The
\* check of a signature takes no time on this clock.
Tick ==
  /\ now < MaxTime
  /\ \A c \in Calls : call[c].op = "broadcast" => now < call[c].until
  /\ now' = now + 1
  /\ UNCHANGED <<row, call, links, submitTokens, handed, onChain, audit,
                 approved, rewritten>>

-----------------------------------------------------------------------------------
(* Shared by the handlers.                                                 *)

Suspend(c, what) == /\ call[c] = Idle
                    /\ call' = [call EXCEPT ![c] = what]

Resume(c) == call' = [call EXCEPT ![c] = Idle]
\* AuditService.record, called after the save in the same synchronous stretch.
Record(action, k, decision) ==
  audit' = audit \cup {[action |-> action, key |-> k, decision |-> decision]}

\* Mutant of Unused: a key may be used again once its intent was cancelled.
UnusedOrCancelled(k) == row[k] # NoRow => row[k].status = "CANCELLED"

\* getIntentByIdempotency finds nothing.
Unused(k) == row[k] = NoRow

\* Mutant of Signable: the policy block forgotten.
SignableThoughBlocked(k) ==
  /\ row[k] # NoRow
  /\ row[k].tx = NoTx
  /\ row[k].status \notin {"PENDING", "CANCELLED"}
  /\ now < row[k].expiresAt

\* intentForSigning: the checks both Vault routes make on the stored record.
Signable(k) ==
  /\ row[k] # NoRow
  /\ row[k].status # "BLOCKED"
  /\ row[k].tx = NoTx
  /\ row[k].status \notin {"SUBMITTED", "PENDING", "COMPLETED", "FAILED",
                           "CANCELLED", "EXPIRED"}
  /\ now < row[k].expiresAt

\* saveIntent: INSERT, or on the same id UPDATE of status and json only, which
\* keeps the request hash of the first insert.
Upsert(k, r, status, expiresAt) ==
  row' = [row EXCEPT ![k] =
            [request |-> IF row[k] = NoRow THEN r ELSE row[k].request,
             req |-> r, status |-> status, expiresAt |-> expiresAt, tx |-> NoTx]]

\* The signing link of the tool's answer, and what the record now offers to pay.
Offer(k, r, status, expiresAt) ==
  IF status = "BLOCKED"
    THEN UNCHANGED <<links, approved>>
    ELSE /\ links' = [links EXCEPT ![k] = @ \cup {expiresAt}]
         /\ approved' = [approved EXCEPT ![k] = @ \cup {r}]

-----------------------------------------------------------------------------------
(* MCP tools.                                                              *)

\* prepare_transfer, up to `await this.adapter.getBalance`. A key that has a row
\* is answered from the row or refused (IssueSignLink).
PrepareStart(c, k, r) ==
  /\ r \in Requests \ ContractCalls
  /\ Unused(k)
  /\ Suspend(c, [op |-> "prepare", key |-> k, req |-> r])
  /\ UNCHANGED <<now, row, links, submitTokens, handed, onChain, audit,
                 approved, rewritten>>

\* prepare_transfer after the balance arrived: policy decision, save, audit,
\* link. The key is not looked up again. A row under the same key but with the
\* other id (a contract call) violates UNIQUE(user_id, idempotency_key): the
\* save throws.
PrepareFinish(c, decision) ==
  /\ call[c].op = "prepare"
  /\ LET k == call[c].key
         r == call[c].req
     IN IF row[k] # NoRow /\ row[k].request \in ContractCalls
          THEN UNCHANGED <<row, links, audit, approved, rewritten>>
          ELSE /\ Upsert(k, r, decision, now + Ttl)
               /\ Offer(k, r, decision, now + Ttl)
               /\ Record("PREPARE_TRANSFER", k, decision)
               /\ rewritten' = IF row[k] = NoRow THEN rewritten
                               ELSE rewritten \cup {k}
  /\ Resume(c)
  /\ UNCHANGED <<now, submitTokens, handed, onChain>>

\* prepare_contract_call has no await: lookup, checks, save and audit are one
\* step. It expires with the quote, not after the fixed lifetime.
PrepareContractCall(k, r, lifetime) ==
  /\ r \in ContractCalls
  /\ Unused(k)
  /\ Upsert(k, r, "AUTO_APPROVED", now + lifetime)
  /\ Offer(k, r, "AUTO_APPROVED", now + lifetime)
  /\ Record("PREPARE_CONTRACT_CALL", k, "AUTO_APPROVED")
  /\ UNCHANGED <<now, call, submitTokens, handed, onChain, rewritten>>

\* A repeated prepare with the same request answers with a fresh signing link
\* unless the record is blocked, confirm_transfer does unless it is broadcast;
\* between them any record gets one. Neither writes the record.
IssueSignLink(k) ==
  /\ row[k] # NoRow
  /\ links' = [links EXCEPT ![k] = @ \cup {row[k].expiresAt}]
  /\ UNCHANGED <<now, row, call, submitTokens, handed, onChain, audit,
                 approved, rewritten>>

\* cancel_transfer. The expiry is not looked at.
Cancel(k) ==
  /\ row[k] # NoRow
  /\ row[k].status \in {"REQUIRES_CONFIRMATION", "AUTO_APPROVED", "CONFIRMED"}
  /\ row' = [row EXCEPT ![k].status = "CANCELLED"]
  /\ Record("CANCEL_TRANSFER", k, "CANCELLED")
  /\ UNCHANGED <<now, call, links, submitTokens, handed, onChain, approved,
                 rewritten>>

-----------------------------------------------------------------------------------
(* Vault routes.                                                           *)

\* sign-request: verify the link, check the record, read it, and suspend in
\* `await context.adapter.buildTransferTransaction`.
BuildStart(c, k, linkExpiry) ==
  /\ linkExpiry \in links[k]
  /\ now < linkExpiry
  /\ Signable(k)
  /\ Suspend(c, [op |-> "build", key |-> k, req |-> row[k].req,
                 expiresAt |-> row[k].expiresAt])
  /\ UNCHANGED <<now, row, links, submitTokens, handed, onChain, audit,
                 approved, rewritten>>

\* The account's next transaction number, as the network reports it: it counts the
\* transactions the network has taken.
NextNumber == Cardinality({t \in Ledger : t.req \in Sequenced})

\* What tells a new transaction apart, by network: the account's next number, or
\* the current blockhash or timestamp.
Distinguisher(r) == IF r \in Sequenced THEN NextNumber ELSE now

\* sign-request after the RPC answered: a submission token for the transaction
\* built from the record as it was read before.
BuildFinish(c) ==
  /\ call[c].op = "build"
  /\ \E seq \in Numbers :
       /\ seq = Distinguisher(call[c].req)
       /\ submitTokens' = submitTokens \cup
            {[key |-> call[c].key, expiresAt |-> call[c].expiresAt,
              tx |-> [req |-> call[c].req, seq |-> seq]]}
  /\ Resume(c)
  /\ UNCHANGED <<now, row, links, handed, onChain, audit, approved, rewritten>>

\* fetch in `rpc`: the n-th node is asked. The bytes may reach it, or the connection
\* may fail before.
Asks(c, k, tx, n) == \E sent \in BOOLEAN :
  /\ call' = [call EXCEPT ![c] = [op |-> "broadcast", key |-> k, tx |-> tx, url |-> n,
                                  sent |-> sent, until |-> now + RpcTimeout]]
  /\ handed' = IF sent THEN [handed EXCEPT ![k] = @ \cup {tx}] ELSE handed

\* submit-signed: verify the token, check the record, check that the bytes are
\* the signed form of the token's transaction, and ask the first node; for an EVM
\* network the check of the signature is awaited before. The record is not marked,
\* and nothing looks at it again before the bytes reach a node.
SubmitStart(c, token) ==
  /\ token \in submitTokens
  /\ now < token.expiresAt
  /\ Signable(token.key)
  /\ call[c] = Idle
  /\ IF token.tx.req \in Evm
       THEN /\ Suspend(c, [op |-> "broadcast", key |-> token.key, tx |-> token.tx,
                           url |-> 0, sent |-> FALSE, until |-> now])
            /\ UNCHANGED handed
       ELSE Asks(c, token.key, token.tx, 1)
  /\ UNCHANGED <<now, row, links, submitTokens, onChain, audit, approved,
                 rewritten>>

\* Mutant of AskNext: a node that failed is asked again.
AskAgain(c) ==
  /\ call[c].op = "broadcast"
  /\ \E n \in {1, call[c].url} \ {0} : Asks(c, call[c].key, call[c].tx, n)
  /\ UNCHANGED <<now, row, links, submitTokens, onChain, audit, approved, rewritten>>

\* The signature was good, or a node refused, failed or timed out, whether or not it
\* has the bytes: the next one is asked.
AskNext(c) ==
  /\ call[c].op = "broadcast" /\ call[c].url < Endpoints
  /\ Asks(c, call[c].key, call[c].tx, call[c].url + 1)
  /\ UNCHANGED <<now, row, links, submitTokens, onChain, audit, approved, rewritten>>

\* Mutant of Acknowledged: the hash computed locally is recorded without waiting.
AcknowledgedOnceHanded(k, tx) == tx \in handed[k]

\* The answer a node can give for a transaction: its hash once it took it, or
\* at once from a node that acknowledges bytes without checking them.
Acknowledged(k, tx) == tx \in onChain[k] \/ tx.req \in Unchecked

\* submit-signed after the broadcast answered: finalizeVaultBroadcast re-reads
\* the record. If a transition of its walk throws, nothing is saved.
SubmitFinish(c) ==
  /\ call[c].op = "broadcast" /\ call[c].sent
  /\ Acknowledged(call[c].key, call[c].tx)
  /\ LET k == call[c].key
     IN IF row[k] # NoRow /\ CanFinalize(row[k].status, "PENDING")
          THEN /\ row' = [row EXCEPT ![k].status = "PENDING", ![k].tx = call[c].tx]
               /\ Record("VAULT_BROADCAST", k, "PENDING")
          ELSE UNCHANGED <<row, audit>>
  /\ Resume(c)
  /\ UNCHANGED <<now, links, submitTokens, handed, onChain, approved, rewritten>>

\* No node answered, a signature or an answer was wrong: a suspended handler may fail,
\* whether or not the network took what was sent. Its catch block writes nothing.
CallFails(c) ==
  /\ call[c] # Idle
  /\ Resume(c)
  /\ UNCHANGED <<now, row, links, submitTokens, handed, onChain, audit,
                 approved, rewritten>>

-----------------------------------------------------------------------------------
(* Environment.                                                            *)

\* A network takes a transaction at most once; a sequenced one only takes the
\* account's next number. It may take it after the server stopped waiting.
NetworkTakes(k, tx) ==
  /\ tx \in handed[k] \ Ledger
  /\ tx.req \in Sequenced => tx.seq = NextNumber
  /\ onChain' = [onChain EXCEPT ![k] = @ \cup {tx}]
  /\ UNCHANGED <<now, row, call, links, submitTokens, handed, audit, approved,
                 rewritten>>

\* Two intents may have built the very same transaction; the network answers
\* for both and takes it once.
NetworkKnows(k, tx) ==
  /\ tx \in (handed[k] \cap Ledger) \ onChain[k]
  /\ onChain' = [onChain EXCEPT ![k] = @ \cup {tx}]
  /\ UNCHANGED <<now, row, call, links, submitTokens, handed, audit, approved,
                 rewritten>>

\* The process dies and starts again: the table stays, suspended calls are lost.
Restart ==
  /\ call' = [c \in Calls |-> Idle]
  /\ UNCHANGED <<now, row, links, submitTokens, handed, onChain, audit,
                 approved, rewritten>>

Step ==
  \/ Tick
  \/ Restart
  \/ \E c \in Calls :
       \/ \E d \in Decisions : PrepareFinish(c, d)
       \/ BuildFinish(c) \/ AskNext(c) \/ SubmitFinish(c) \/ CallFails(c)
  \/ \E c \in Calls, k \in Keys, r \in Requests : PrepareStart(c, k, r)
  \/ \E k \in Keys, r \in Requests, n \in 1 .. Ttl : PrepareContractCall(k, r, n)
  \/ \E k \in Keys : IssueSignLink(k) \/ Cancel(k)
  \/ \E c \in Calls, k \in Keys : \E e \in links[k] : BuildStart(c, k, e)
  \/ \E c \in Calls : \E t \in submitTokens : SubmitStart(c, t)
  \/ \E k \in Keys : \E tx \in handed[k] : NetworkTakes(k, tx) \/ NetworkKnows(k, tx)

\* An intent is open while its record offers to pay: stored, not blocked, cancelled or
\* paid, and not expired.
Open(k) == /\ row[k] # NoRow
           /\ row[k].status \in {"REQUIRES_CONFIRMATION", "AUTO_APPROVED"}
           /\ now < row[k].expiresAt

\* Each step, and the history of when the intents were open.
Next ==
  /\ Step
  /\ lastOpen' = [k \in Keys |-> IF Open(k)' THEN now' ELSE lastOpen[k]]

Spec == Init /\ [][Next]_vars

-----------------------------------------------------------------------------------
(* Properties.                                                             *)

TypeOK ==
  /\ now \in Time
  /\ row \in [Keys -> Row \cup {NoRow}]
  /\ call \in [Calls -> SuspendedCall \cup {Idle}]
  /\ links \in [Keys -> SUBSET Nat]
  /\ submitTokens \subseteq SubmitToken
  /\ handed \in [Keys -> SUBSET Tx]
  /\ onChain \in [Keys -> SUBSET Tx]
  /\ audit \subseteq AuditEvent
  /\ approved \in [Keys -> SUBSET Requests]
  /\ rewritten \subseteq Keys
  /\ lastOpen \in [Keys -> Time]

Paid(k) == row[k] # NoRow /\ row[k].tx # NoTx

\* A record shows a transaction hash only for a transaction some node answered
\* for: on a checking network it is on the chain, and everywhere it was handed
\* over for this very intent (submit-signed records after the broadcast).
RecordedPaymentWasAcknowledged ==
  \A k \in Keys : Paid(k) => /\ row[k].tx \in handed[k]
                             /\ row[k].tx \in onChain[k] \/ row[k].tx.req \in Unchecked

\* Whatever reaches a network for an intent pays terms that were once stored for
\* that intent and not blocked by policy, across every token that outlives them.
OnlyApprovedTermsArePaid ==
  \A k \in Keys : \A tx \in handed[k] : tx.req \in approved[k]

\* The recorded transaction pays what the record says, unless a second prepare
\* under the same key wrote other terms over it.
RecordTellsWhatWasPaid ==
  \A k \in Keys \ rewritten :
    /\ row[k] # NoRow => row[k].req = row[k].request
    /\ \A tx \in handed[k] : row[k] # NoRow /\ tx.req = row[k].req

\* The current status of every record is the decision of an audit event about it.
AuditExplainsStatus ==
  \A k \in Keys : row[k] # NoRow =>
    \E e \in audit : e.key = k /\ e.decision = row[k].status

\* A cancellation, expiry, a recorded broadcast or a block stops what is not under way: a
\* payment of an intent may still begin afterwards, because submit-signed does not look at
\* the record again before or between the nodes it asks, but no later than the timeouts of
\* all nodes but one, whatever links and tokens are in circulation.
NoPaymentBeginsLate ==
  [][\A k \in Keys : handed'[k] # handed[k] =>
        now <= lastOpen[k] + (Endpoints - 1) * RpcTimeout]_vars

\* The lifecycle an intent is meant to have, with one step more: a second prepare
\* may write over an intent, and then its life as that payment has ended.
Life == [k \in Keys |-> IF k \in rewritten THEN "REPLACED"
                        ELSE IF row[k] = NoRow THEN "DRAFT" ELSE row[k].status]

Payment == [k \in Keys |-> IF k \in rewritten \/ row[k] = NoRow THEN NoTx
                           ELSE row[k].tx]

Lifecycle == INSTANCE IntentLifecycle WITH
  Intents <- Keys, Payments <- Tx, NoPayment <- NoTx, life <- Life, payment <- Payment

\* Every write the handlers make, in any interleaving, is a step of that
\* lifecycle: statuses only walk the table, and a recorded payment is set once,
\* when the intent is broadcast, and never changed.
ImplementsLifecycle == Lifecycle!Spec

-----------------------------------------------------------------------------------
(* What makes the properties above inductive.                              *)

\* Only these statuses are ever stored, and exactly PENDING comes with a hash.
StoredStatuses ==
  \A k \in Keys : row[k] # NoRow =>
    /\ row[k].status \in Decisions \cup {"CANCELLED", "PENDING"}
    /\ row[k].tx # NoTx <=> row[k].status = "PENDING"

AcknowledgedInv ==
  /\ RecordedPaymentWasAcknowledged
  /\ \A c \in Calls : call[c].op = "broadcast" /\ call[c].sent =>
        call[c].tx \in handed[call[c].key]

\* Suspended builds and submissions carry approved terms.
CallsApproved ==
  \A c \in Calls :
    /\ call[c].op = "build" => call[c].req \in approved[call[c].key]
    /\ call[c].op = "broadcast" => call[c].tx.req \in approved[call[c].key]

ApprovedInv ==
  /\ OnlyApprovedTermsArePaid
  /\ \A k \in Keys : row[k] # NoRow /\ row[k].status # "BLOCKED" =>
        row[k].req \in approved[k]
  /\ CallsApproved
  /\ \A t \in submitTokens : t.tx.req \in approved[t.key]

\* The record of k holds the terms r, unless a second prepare wrote over it.
Holds(k, r) == k \in rewritten \/ (row[k] # NoRow /\ row[k].req = r)

\* Suspended builds and submissions carry what the record says.
CallsHold ==
  \A c \in Calls :
    /\ call[c].op = "build" => Holds(call[c].key, call[c].req)
    /\ call[c].op = "broadcast" => Holds(call[c].key, call[c].tx.req)

RecordInv ==
  /\ RecordTellsWhatWasPaid
  /\ CallsHold
  /\ \A t \in submitTokens : Holds(t.key, t.tx.req)

\* Since when a submission is under way: the intent was open then, and each node
\* was waited for no longer than its timeout.
LateInv ==
  /\ \A k \in Keys : /\ lastOpen[k] <= now
                     /\ Open(k) => lastOpen[k] = now
  /\ \A c \in Calls : call[c].op = "broadcast" =>
       /\ now <= call[c].until
       /\ call[c].until <= lastOpen[call[c].key] + call[c].url * RpcTimeout

-----------------------------------------------------------------------------------
(* What the documentation says and the code does not do.                   *)

\* docs/THREAT_MODEL.md: duplicate intents are answered by "single-use intent
\* state": one intent, one payment.
IntentIsSingleUse ==
  \A k \in Keys : \A s, t \in onChain[k] : s = t
===============================================================================
