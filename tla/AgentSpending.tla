-------------------------------- MODULE AgentSpending --------------------------------
(***************************************************************************)
(* One user's agents and their spending limits: PolicyService, the policy  *)
(* half of prepare_transfer, and prepare_contract_call, which stores what  *)
(* an agent asks for without a policy.  A payment's way to the network is  *)
(* the subject of PaymentIntents; here it is the one step that writes its  *)
(* outcome, which may come any time after the payment was prepared.        *)
(*                                                                         *)
(* prepare_transfer awaits the balance and evaluates the policy after it,  *)
(* with the policies and the spending of that moment; the policy tools and *)
(* prepare_contract_call do not suspend.                                   *)
(***************************************************************************)
EXTENDS IntentStatus, PolicyEngine, FiniteSets, FiniteSetsExt, Functions

CONSTANTS
  Keys,          \* idempotency keys
  Requests,      \* payment requests
  ContractCalls, \* those made through prepare_contract_call
  Drafts,        \* policy drafts the user may confirm
  Seed,          \* the policies the table starts with (the demo policy, or none)
  Balances,      \* what the RPC may answer (external)
  Calls,         \* slots for suspended prepares
  Ttl,           \* lifetime of a policy confirmation, in ticks
  TicksPerDay,   \* length of a UTC day, in ticks
  MaxTime,       \* bound on the clock
  NoRow          \* absent record

PolicyId(draft) == <<draft.agentId, draft.name>>

Time == 0 .. MaxTime
Day(t) == t \div TicksPerDay

Policy == [id : {PolicyId(d) : d \in Drafts}, terms : Drafts, enabled : BOOLEAN,
           validFrom : Time]

Row == [req : Requests, status : {"BLOCKED", "REQUIRES_CONFIRMATION",
                                  "AUTO_APPROVED", "CANCELLED", "PENDING"},
        at : Time]

Idle == [op |-> "idle"]

ASSUME ConstantsAssumption ==
  /\ ContractCalls \subseteq Requests
  /\ Ttl \in Nat \ {0} /\ TicksPerDay \in Nat \ {0} /\ MaxTime \in Nat
  /\ Balances \subseteq Nat
  /\ \A r \in Requests : r.amount \in Nat
  /\ \A d \in Drafts : /\ {d.dailyLimit, d.perTransactionLimit, d.approvalThreshold,
                           d.validUntil} \subseteq Nat
                       /\ d.agentId # NoAgent
  /\ Seed \in Seq(Policy)

ASSUME NoRowAssumption == NoRow \notin Row

\* The spending of a day is a sum over the table.
ASSUME KeysAssumption == IsFiniteSet(Keys)

VARIABLES
  now,           \* the server's clock
  policies,      \* agent_policies, in the order they were first inserted
  policyTokens,  \* confirmations issued for drafts
  row,           \* payment_intents: what spending and policy see of a record
  call,          \* suspended prepares
  audit,         \* audit_events of the policy tools, as a set
  confirmed,     \* history: the drafts the user confirmed
  overlapped     \* history: agents that had two unsettled intents at once

vars == <<now, policies, policyTokens, row, call, audit, confirmed, overlapped>>

Init ==
  /\ now = 0
  /\ policies = Seed
  /\ policyTokens = {}
  /\ row = [k \in Keys |-> NoRow]
  /\ call = [c \in Calls |-> Idle]
  /\ audit = {}
  /\ confirmed = {Seed[i].terms : i \in DOMAIN Seed}
  /\ overlapped = {}

Tick ==
  /\ now < MaxTime
  /\ now' = now + 1
  /\ UNCHANGED <<policies, policyTokens, row, call, audit, confirmed, overlapped>>

-----------------------------------------------------------------------------------
(* Policy tools.                                                           *)

\* AuditService.record for a policy.
RecordPolicy(id, decision) ==
  audit' = audit \cup {[id |-> id, decision |-> decision]}

\* create_agent_policy without a confirmation: a token for exactly this draft.
PreviewPolicy(draft) ==
  /\ policyTokens' = policyTokens \cup {[draft |-> draft, expiresAt |-> now + Ttl]}
  /\ UNCHANGED <<now, policies, row, call, audit, confirmed, overlapped>>

\* savePolicy: a new policy goes last; one with the same id is replaced in place.
SavePolicy(p) ==
  policies' = IF \E i \in DOMAIN policies : policies[i].id = p.id
                THEN [i \in DOMAIN policies |->
                        IF policies[i].id = p.id THEN p ELSE policies[i]]
                ELSE Append(policies, p)

\* create_agent_policy with a confirmation. The token is not used up: until it
\* expires it saves the same draft again, which enables a revoked policy.
CreatePolicy(token) ==
  /\ token \in policyTokens
  /\ now < token.expiresAt
  /\ SavePolicy([id |-> PolicyId(token.draft), terms |-> token.draft,
                 enabled |-> TRUE, validFrom |-> now])
  /\ RecordPolicy(PolicyId(token.draft), "CONFIRMED")
  /\ confirmed' = confirmed \cup {token.draft}
  /\ UNCHANGED <<now, policyTokens, row, call, overlapped>>

\* update_agent_policy; revoke_agent_policy is UpdatePolicy(i, FALSE).
UpdatePolicy(i, enabled) ==
  /\ SavePolicy([policies[i] EXCEPT !.enabled = enabled])
  /\ RecordPolicy(policies[i].id, IF enabled THEN "ENABLED" ELSE "DISABLED")
  /\ UNCHANGED <<now, policyTokens, row, call, confirmed, overlapped>>

-----------------------------------------------------------------------------------
(* Payments.                                                               *)

\* The statuses that count as spent.
Counts(status) == status \in {"SUBMITTED", "PENDING", "COMPLETED"}

\* sumSpentTodayRaw: what the agent's records of today say it spent of a token on
\* a network.
SpentToday(agent, token, network) ==
  MapThenSumSet(LAMBDA k : row[k].req.amount,
    {k \in Keys : /\ row[k] # NoRow
                  /\ row[k].req.agentId = agent
                  /\ row[k].req.token = token
                  /\ row[k].req.network = network
                  /\ Counts(row[k].status)
                  /\ Day(row[k].at) >= Day(now)})

\* prepare_transfer, up to `await this.adapter.getBalance`.
PrepareStart(c, k, r) ==
  /\ r \in Requests \ ContractCalls
  /\ row[k] = NoRow
  /\ call[c] = Idle
  /\ call' = [call EXCEPT ![c] = [op |-> "prepare", key |-> k, req |-> r]]
  /\ UNCHANGED <<now, policies, policyTokens, row, audit, confirmed, overlapped>>

\* What prepare hands to evaluatePolicy.
Context(r, available) ==
  [agentId |-> r.agentId, amount |-> r.amount, token |-> r.token,
   network |-> r.network, recipient |-> r.recipient, merchantId |-> r.merchantId,
   merchantCategory |-> r.merchantCategory, risk |-> r.risk, available |-> available,
   spentToday |-> SpentToday(r.agentId, r.token, r.network), now |-> now]

\* The status a decision is stored as.
StatusOf(decision) ==
  IF decision = "HUMAN_APPROVAL_REQUIRED" THEN "REQUIRES_CONFIRMATION" ELSE decision

\* An intent that is not paid yet and may still be.
Unsettled(k) == row[k] # NoRow /\ row[k].status \in {"REQUIRES_CONFIRMATION",
                                                     "AUTO_APPROVED"}

\* History: the agent of r is about to have a second payment unsettled, or its record
\* under k is written over.
Overlaps(k, r) ==
  overlapped' =
    IF row[k] # NoRow \/ \E q \in Keys \ {k} : Unsettled(q) /\ row[q].req.agentId = r.agentId
      THEN overlapped \cup {r.agentId} ELSE overlapped

\* prepare_transfer after the balance arrived: evaluate and save, over whatever transfer
\* is stored under the key by then. Over a contract call the save throws.
PrepareFinish(c, available) ==
  /\ call[c].op = "prepare"
  /\ LET k == call[c].key
         r == call[c].req
         status == StatusOf(Decision(Context(r, available), policies))
     IN IF row[k] # NoRow /\ row[k].req \in ContractCalls
          THEN UNCHANGED <<row, overlapped>>
          ELSE /\ row' = [row EXCEPT ![k] = [req |-> r, status |-> status, at |-> now]]
               /\ Overlaps(k, r)
  /\ call' = [call EXCEPT ![c] = Idle]
  /\ UNCHANGED <<now, policies, policyTokens, audit, confirmed>>

\* prepare_contract_call, also for an agent: no policy is read, the only limit is a fixed
\* budget for the price in USD that the caller names.
PrepareContractCall(k, r) ==
  /\ r \in ContractCalls
  /\ row[k] = NoRow
  /\ row' = [row EXCEPT ![k] = [req |-> r, status |-> "AUTO_APPROVED", at |-> now]]
  /\ Overlaps(k, r)
  /\ UNCHANGED <<now, policies, policyTokens, call, audit, confirmed>>

\* The balance does not arrive, or the process restarts: nothing is written.
PrepareFails(c) ==
  /\ call[c] # Idle
  /\ call' = [call EXCEPT ![c] = Idle]
  /\ UNCHANGED <<now, policies, policyTokens, row, audit, confirmed, overlapped>>

\* finalizeVaultBroadcast: the payment is recorded, on the day it was broadcast.
\* That a broadcast was asked for before the intent expired is PaymentIntents' part.
Broadcast(k) ==
  /\ row[k] # NoRow
  /\ CanFinalize(row[k].status, "PENDING")
  /\ row' = [row EXCEPT ![k].status = "PENDING", ![k].at = now]
  /\ UNCHANGED <<now, policies, policyTokens, call, audit, confirmed, overlapped>>

\* cancel_transfer.
Cancel(k) ==
  /\ Unsettled(k)
  /\ row' = [row EXCEPT ![k].status = "CANCELLED"]
  /\ UNCHANGED <<now, policies, policyTokens, call, audit, confirmed, overlapped>>

Next ==
  \/ Tick
  \/ \E d \in Drafts : PreviewPolicy(d)
  \/ \E t \in policyTokens : CreatePolicy(t)
  \/ \E i \in DOMAIN policies : \E b \in BOOLEAN : UpdatePolicy(i, b)
  \/ \E c \in Calls, k \in Keys, r \in Requests : PrepareStart(c, k, r)
  \/ \E k \in Keys, r \in Requests : PrepareContractCall(k, r)
  \/ \E c \in Calls : PrepareFails(c) \/ \E b \in Balances : PrepareFinish(c, b)
  \/ \E k \in Keys : Broadcast(k) \/ Cancel(k)

Spec == Init /\ [][Next]_vars

-----------------------------------------------------------------------------------
(* Properties.                                                             *)

TypeOK ==
  /\ now \in Time
  /\ policies \in Seq(Policy)
  /\ policyTokens \subseteq [draft : Drafts, expiresAt : Nat]
  /\ row \in [Keys -> Row \cup {NoRow}]
  /\ call \in [Calls -> [op : {"prepare"}, key : Keys, req : Requests] \cup {Idle}]
  /\ audit \subseteq [id : {PolicyId(d) : d \in Drafts},
                      decision : {"CONFIRMED", "ENABLED", "DISABLED"}]
  /\ confirmed \subseteq Drafts
  /\ overlapped \subseteq {r.agentId : r \in Requests}

\* What a draft lets its agent ask for in one payment.
Covers(draft, r) ==
  /\ draft.agentId = r.agentId
  /\ r.token \in draft.tokenAllowlist /\ r.network \in draft.networkAllowlist
  /\ ListedOrAny(draft.allowedRecipients, r.recipient)
  /\ r.amount <= draft.perTransactionLimit

\* What the terms the user confirmed say of a record that was not blocked.
Allowed(record) ==
  /\ record.req.risk # "HIGH"
  /\ record.req.agentId # NoAgent =>
       \E d \in confirmed :
         /\ Covers(d, record.req)
         /\ record.status = "AUTO_APPROVED" => record.req.amount <= d.approvalThreshold
  /\ record.req.agentId = NoAgent => record.status # "AUTO_APPROVED"

\* What an agent may have transferred was within terms the user confirmed for that
\* agent, whatever was saved over, revoked or enabled since, and automatic approval within
\* their threshold; the owner's own transfers are never approved automatically.
PaymentsWithinConfirmedTerms ==
  \A k \in Keys : row[k] # NoRow /\ row[k].status # "BLOCKED"
                   /\ row[k].req \notin ContractCalls => Allowed(row[k])

\* Revoking takes effect at once: no transfer of an agent gets past the policy engine
\* unless a policy of that agent is enabled then, however long the prepare was
\* suspended.
RevocationStopsPrepares ==
  [][\A k \in Keys : row'[k] # row[k] /\ row'[k].status \in {"REQUIRES_CONFIRMATION",
                                                            "AUTO_APPROVED"}
        /\ row'[k].req.agentId # NoAgent /\ row'[k].req \notin ContractCalls =>
          \E i \in DOMAIN policies : /\ policies[i].terms.agentId = row'[k].req.agentId
                                     /\ policies[i].enabled]_row

\* Whether a policy is enabled is what the audit log last could say of it; only
\* the seeded policy needs no event.
AuditExplainsPolicies ==
  \A i \in DOMAIN policies :
    \/ i \in DOMAIN Seed /\ policies[i] = Seed[i]
    \/ \E e \in audit : /\ e.id = policies[i].id
                        /\ (e.decision = "DISABLED") = ~policies[i].enabled

\* A limit the user confirmed for the agent of r holds what the agent spent today.
WithinDailyLimit(r) ==
  \E d \in confirmed : /\ d.agentId = r.agentId
                       /\ SpentToday(r.agentId, r.token, r.network) <= d.dailyLimit

Pays(k, r) == row[k] # NoRow /\ row[k].req = r /\ row[k].status = "PENDING"

\* No transfer of an agent that never had two unsettled payments at once takes what the
\* agent spent that day above every daily limit the user confirmed, across midnight,
\* cancellations, changes of policy and the contract calls that were paid before.
OneAtATimeKeepsDailyLimit ==
  [][\A k \in Keys, r \in Requests \ ContractCalls :
        Pays(k, r)' /\ ~Pays(k, r) /\ r.agentId \notin overlapped \cup {NoAgent} =>
          WithinDailyLimit(r)']_vars

\* Every policy in the table has terms the user confirmed.
PoliciesConfirmed == \A i \in DOMAIN policies : policies[i].terms \in confirmed
===================================================================================
