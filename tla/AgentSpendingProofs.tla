------------------------------ MODULE AgentSpendingProofs ------------------------------
(***************************************************************************)
(* What the policy engine decides, for every request and every table of    *)
(* policies, and what follows for the payments and the daily spending of   *)
(* AgentSpending; and what the verification of AuditLog is worth.          *)
(***************************************************************************)
EXTENDS AgentSpending, AuditLog, FiniteSetTheorems, SequenceTheorems,
        WellFoundedInduction, TLAPS

-----------------------------------------------------------------------------------
(* The policy engine.                                                      *)

\* evaluatePolicy lets an agent's payment through only under the policy that governs
\* the agent, enabled and permitting it, and automatically only within the threshold.
LEMMA DecisionSound ==
  ASSUME NEW ctx, NEW table, ctx.agentId # NoAgent,
         Decision(ctx, table) # "BLOCKED"
  PROVE  /\ ctx.risk # "HIGH"
         /\ \E i \in DOMAIN table :
              /\ Governs(table, i, ctx.agentId)
              /\ Permits(table[i], ctx)
              /\ Decision(ctx, table) = "AUTO_APPROVED" =>
                   ~(ctx.amount > table[i].terms.approvalThreshold)
<1>1. ctx.risk # "HIGH" /\ Permitted(ctx, table)
  BY DEF Decision
<1>2. PICK i \in DOMAIN table : Governs(table, i, ctx.agentId) /\ Permits(table[i], ctx)
  BY <1>1 DEF Permitted
<1>3. Decision(ctx, table) = "AUTO_APPROVED" => ~NeedsApproval(ctx, table)
  BY DEF Decision
<1>4. ~NeedsApproval(ctx, table) => ~(ctx.amount > table[i].terms.approvalThreshold)
  BY <1>2 DEF NeedsApproval
<1> QED BY <1>1, <1>2, <1>3, <1>4

\* The owner's own transfers are never approved automatically.
LEMMA OwnerIsAsked ==
  ASSUME NEW ctx, NEW table, ctx.agentId = NoAgent
  PROVE  Decision(ctx, table) # "AUTO_APPROVED"
BY DEF Decision

\* Nothing of a high risk is let through, whoever asks.
LEMMA OwnerRiskBlocked ==
  ASSUME NEW ctx, NEW table, Decision(ctx, table) # "BLOCKED"
  PROVE  ctx.risk # "HIGH"
BY DEF Decision

\* The same request for at least as much.
AsksForMore(less, more) ==
  /\ {less.amount, more.amount, less.spentToday, less.available} \subseteq Int
  /\ less.amount <= more.amount
  /\ more.agentId = less.agentId /\ more.token = less.token
  /\ more.network = less.network /\ more.recipient = less.recipient
  /\ more.merchantId = less.merchantId
  /\ more.merchantCategory = less.merchantCategory
  /\ more.risk = less.risk /\ more.available = less.available
  /\ more.spentToday = less.spentToday /\ more.now = less.now

Limits(table) ==
  \A i \in DOMAIN table :
    {table[i].terms.perTransactionLimit, table[i].terms.dailyLimit,
     table[i].terms.approvalThreshold} \subseteq Int

\* Asking for more never gets a laxer decision: what is blocked stays blocked, and
\* what needs the user's approval is not approved automatically.
THEOREM DecisionMonotone ==
  ASSUME NEW less, NEW more, NEW table, AsksForMore(less, more), Limits(table)
  PROVE  /\ Decision(less, table) = "BLOCKED" => Decision(more, table) = "BLOCKED"
         /\ Decision(more, table) = "AUTO_APPROVED" =>
              Decision(less, table) = "AUTO_APPROVED"
<1>1. more.amount <= more.available => less.amount <= less.available
  BY DEF AsksForMore
<1>2. Permitted(more, table) => Permitted(less, table)
  <2> SUFFICES ASSUME Permitted(more, table) PROVE Permitted(less, table)
    OBVIOUS
  <2>1. PICK i \in DOMAIN table :
          Governs(table, i, more.agentId) /\ Permits(table[i], more)
    BY DEF Permitted
  <2>2. Governs(table, i, less.agentId)
    BY <2>1 DEF AsksForMore
  <2>3. /\ less.amount <= table[i].terms.perTransactionLimit
        /\ less.spentToday + less.amount <= table[i].terms.dailyLimit
    BY <2>1 DEF Permits, AsksForMore, Limits
  <2>4. Permits(table[i], less)
    BY <2>1, <2>3 DEF Permits, AsksForMore
  <2> QED BY <2>2, <2>4 DEF Permitted
<1>3. NeedsApproval(less, table) => NeedsApproval(more, table)
  BY DEF NeedsApproval, AsksForMore, Limits
<1>4. more.risk = less.risk /\ more.agentId = less.agentId
  BY DEF AsksForMore
<1>5. ~(more.amount > more.available) <=> more.amount <= more.available
  BY DEF AsksForMore
<1>6. ~(less.amount > less.available) <=> less.amount <= less.available
  BY DEF AsksForMore
<1> QED BY <1>1, <1>2, <1>3, <1>4, <1>5, <1>6 DEF Decision

-----------------------------------------------------------------------------------
(* Type correctness.                                                       *)

\* Whatever evaluatePolicy answers is stored as one of the statuses of prepare.
LEMMA StatusOfDecision ==
  ASSUME NEW ctx, NEW table
  PROVE  StatusOf(Decision(ctx, table))
           \in {"BLOCKED", "REQUIRES_CONFIRMATION", "AUTO_APPROVED"}
BY DEF StatusOf, Decision

\* savePolicy keeps the table a table of policies and adds no row but its own.
LEMMA SavePolicyRows ==
  ASSUME policies \in Seq(Policy), NEW p \in Policy, SavePolicy(p)
  PROVE  /\ policies' \in Seq(Policy)
         /\ \A i \in DOMAIN policies' :
              policies'[i] = p \/ (i \in DOMAIN policies /\ policies'[i] = policies[i])
<1>1. CASE \E i \in DOMAIN policies : policies[i].id = p.id
  BY <1>1 DEF SavePolicy
<1>2. CASE ~\E i \in DOMAIN policies : policies[i].id = p.id
  BY <1>2 DEF SavePolicy
<1> QED BY <1>1, <1>2

\* What prepare writes when the balance has arrived: a decision on the request, or nothing.
LEMMA PrepareWrites ==
  ASSUME TypeOK, NEW c \in Calls, NEW b, PrepareFinish(c, b)
  PROVE  /\ call[c].key \in Keys /\ call[c].req \in Requests
         /\ \/ UNCHANGED <<row, overlapped>>
            \/ /\ row' = [row EXCEPT ![call[c].key] =
                   [req |-> call[c].req, at |-> now,
                    status |-> StatusOf(Decision(Context(call[c].req, b), policies))]]
               /\ Overlaps(call[c].key, call[c].req)
         /\ UNCHANGED <<now, policies, policyTokens, audit, confirmed>>
         /\ call' = [call EXCEPT ![c] = Idle]
<1>1. call[c].key \in Keys /\ call[c].req \in Requests
  BY DEF PrepareFinish, TypeOK, Idle
<1> QED
  BY <1>1 DEF PrepareFinish

\* Every reachable state is well typed.
THEOREM TypeCorrect == Spec => []TypeOK
<1>1. Init => TypeOK
  <2> SUFFICES ASSUME Init PROVE TypeOK
    OBVIOUS
  <2>1. confirmed \subseteq Drafts
    <3> SUFFICES ASSUME NEW i \in DOMAIN Seed PROVE Seed[i].terms \in Drafts
      BY DEF Init
    <3>1. Seed[i] \in Policy
      BY ConstantsAssumption
    <3> QED BY <3>1 DEF Policy
  <2> QED BY <2>1, ConstantsAssumption DEF Init, TypeOK, Time, Idle
<1>2. TypeOK /\ [Next]_vars => TypeOK'
  <2> SUFFICES ASSUME TypeOK, [Next]_vars PROVE TypeOK'
    OBVIOUS
  <2> USE DEF TypeOK
  <2>1. CASE Tick
    BY <2>1, ConstantsAssumption DEF Tick, Time
  <2>2. ASSUME NEW d \in Drafts, PreviewPolicy(d) PROVE TypeOK'
    BY <2>2, ConstantsAssumption DEF PreviewPolicy, Time
  <2>3. ASSUME NEW t \in policyTokens, CreatePolicy(t) PROVE TypeOK'
    <3> DEFINE p == [id |-> PolicyId(t.draft), terms |-> t.draft, enabled |-> TRUE,
                     validFrom |-> now]
    <3>1. t.draft \in Drafts /\ p \in Policy
      BY DEF Policy
    <3>2. policies' \in Seq(Policy)
      BY <2>3, <3>1, SavePolicyRows DEF CreatePolicy
    <3> QED BY <2>3, <3>1, <3>2 DEF CreatePolicy, RecordPolicy
  <2>4. ASSUME NEW i \in DOMAIN policies, NEW b \in BOOLEAN, UpdatePolicy(i, b)
        PROVE  TypeOK'
    <3>1. policies[i] \in Policy
      OBVIOUS
    <3>2. [policies[i] EXCEPT !.enabled = b] \in Policy
      BY <3>1 DEF Policy
    <3>3. policies' \in Seq(Policy)
      BY <2>4, <3>2, SavePolicyRows DEF UpdatePolicy
    <3>4. policies[i].id \in {PolicyId(d) : d \in Drafts}
      BY <3>1 DEF Policy
    <3> QED BY <2>4, <3>3, <3>4 DEF UpdatePolicy, RecordPolicy
  <2>5. ASSUME NEW c \in Calls, NEW k \in Keys, NEW r \in Requests, PrepareStart(c, k, r)
        PROVE  TypeOK'
    BY <2>5 DEF PrepareStart
  <2>6. ASSUME NEW c \in Calls, PrepareFails(c) PROVE TypeOK'
    BY <2>6 DEF PrepareFails
  <2>7. ASSUME NEW c \in Calls, NEW b \in Balances, PrepareFinish(c, b) PROVE TypeOK'
    <3> DEFINE k == call[c].key
               r == call[c].req
               status == StatusOf(Decision(Context(r, b), policies))
    <3>1. k \in Keys /\ r \in Requests
      BY <2>7, PrepareWrites
    <3>2. status \in {"BLOCKED", "REQUIRES_CONFIRMATION", "AUTO_APPROVED"}
      BY StatusOfDecision
    <3>3. \/ UNCHANGED <<row, overlapped>>
          \/ /\ row' = [row EXCEPT ![k] = [req |-> r, status |-> status, at |-> now]]
             /\ Overlaps(k, r)
      BY <2>7, PrepareWrites
    <3>4. [req |-> r, status |-> status, at |-> now] \in Row
      BY <3>1, <3>2 DEF Row
    <3> HIDE DEF status
    <3>5. row' \in [Keys -> Row \cup {NoRow}]
      BY <3>1, <3>3, <3>4
    <3>6. overlapped' \subseteq {q.agentId : q \in Requests}
      BY <3>1, <3>3 DEF Overlaps
    <3> QED BY <2>7, <3>5, <3>6, PrepareWrites
  <2>11. ASSUME NEW k \in Keys, NEW r \in Requests, PrepareContractCall(k, r) PROVE TypeOK'
    <3>1. [req |-> r, status |-> "AUTO_APPROVED", at |-> now] \in Row
      BY DEF Row
    <3>2. overlapped' \subseteq {q.agentId : q \in Requests}
      BY <2>11 DEF PrepareContractCall, Overlaps
    <3> QED BY <2>11, <3>1, <3>2 DEF PrepareContractCall
  <2>8. ASSUME NEW k \in Keys, Broadcast(k) PROVE TypeOK'
    <3>1. row[k] \in Row
      BY <2>8 DEF Broadcast
    <3>2. row'[k] = [row[k] EXCEPT !.status = "PENDING", !.at = now]
      BY <2>8 DEF Broadcast
    <3>3. row'[k] \in Row
      BY <3>1, <3>2 DEF Row
    <3>4. row' \in [Keys -> Row \cup {NoRow}]
      BY <2>8, <3>3 DEF Broadcast
    <3> QED BY <2>8, <3>4 DEF Broadcast
  <2>9. ASSUME NEW k \in Keys, Cancel(k) PROVE TypeOK'
    <3>1. row[k] \in Row
      BY <2>9 DEF Cancel, Unsettled
    <3>2. [row[k] EXCEPT !.status = "CANCELLED"] \in Row
      BY <3>1 DEF Row
    <3> QED BY <2>9, <3>2 DEF Cancel
  <2>10. CASE UNCHANGED vars
    BY <2>10 DEF vars
  <2> QED BY <2>1, <2>2, <2>3, <2>4, <2>5, <2>6, <2>7, <2>8, <2>9, <2>10, <2>11 DEF Next
<1> QED BY <1>1, <1>2, PTL DEF Spec

-----------------------------------------------------------------------------------
(* Payments stay within what the user confirmed.                           *)

\* A payment that was blocked, cancelled or paid is on no way to a broadcast.
LEMMA DeadEnds ==
  ASSUME NEW s, CanFinalize(s, "PENDING") PROVE s \notin {"BLOCKED", "CANCELLED", "PENDING"}
<1> SUFFICES ASSUME s \in {"BLOCKED", "CANCELLED", "PENDING"} PROVE FALSE
  OBVIOUS
<1>0. Append(<<>>, "PENDING") = <<"PENDING">>
  OBVIOUS
<1>1. Append(Forward(s), "PENDING") = <<"PENDING">>
  <2>1. Forward(s) = << >>
    <3>1. s # "REQUIRES_CONFIRMATION" /\ s # "AUTO_APPROVED" /\ s # "CONFIRMED" /\ s # "SIGNING"
      OBVIOUS
    <3> QED
      BY <3>1, Zenon DEF Forward
  <2> QED
    BY <2>1, <1>0, Zenon
<1>2. ~CanTransition(s, "PENDING")
  <2>1. \A t \in Transitions : t[2] = "PENDING" => t[1] = "SUBMITTED"
    BY DEF Transitions, Decisions
  <2> QED
    BY <2>1 DEF CanTransition
<1> QED
  BY <1>1, <1>2 DEF CanFinalize, LegalWalk

TermsInv == PoliciesConfirmed /\ PaymentsWithinConfirmedTerms

\* What prepare stores unblocked is allowed by the terms of the governing policy.
LEMMA PreparedIsAllowed ==
  ASSUME TypeOK, PoliciesConfirmed, NEW r \in Requests, NEW b,
         NEW record, record.req = r,
         record.status = StatusOf(Decision(Context(r, b), policies)),
         record.status # "BLOCKED"
  PROVE  Allowed(record)
<1> DEFINE ctx == Context(r, b)
           decision == Decision(ctx, policies)
<1>1. /\ ctx.agentId = r.agentId /\ ctx.risk = r.risk /\ ctx.amount = r.amount
      /\ ctx.token = r.token /\ ctx.network = r.network /\ ctx.recipient = r.recipient
  BY DEF Context
<1>2. decision # "BLOCKED"
  BY DEF StatusOf
<1>3. record.status = "AUTO_APPROVED" => decision = "AUTO_APPROVED"
  BY DEF StatusOf, Decision
<1> HIDE DEF ctx, decision
<1>4. ctx.risk # "HIGH"
  BY <1>2, OwnerRiskBlocked DEF decision
<1>5. ASSUME r.agentId # NoAgent
      PROVE  \E d \in confirmed :
               /\ Covers(d, r)
               /\ record.status = "AUTO_APPROVED" => r.amount <= d.approvalThreshold
  <2>1. PICK i \in DOMAIN policies :
          /\ Governs(policies, i, ctx.agentId)
          /\ Permits(policies[i], ctx)
          /\ decision = "AUTO_APPROVED" =>
               ~(ctx.amount > policies[i].terms.approvalThreshold)
    BY <1>1, <1>2, <1>5, DecisionSound DEF decision
  <2>2. policies[i] \in Policy
    BY DEF TypeOK
  <2>3. policies[i].terms \in confirmed /\ policies[i].terms \in Drafts
    BY <2>2 DEF PoliciesConfirmed, Policy
  <2>4. Covers(policies[i].terms, r)
    BY <1>1, <2>1 DEF Covers, Governs, Permits
  <2>5. record.status = "AUTO_APPROVED" =>
          r.amount <= policies[i].terms.approvalThreshold
    BY <1>1, <1>3, <2>1, <2>3, ConstantsAssumption
  <2> QED BY <2>3, <2>4, <2>5
<1>6. r.agentId = NoAgent => record.status # "AUTO_APPROVED"
  BY <1>1, <1>3, OwnerIsAsked DEF decision
<1> QED BY <1>1, <1>4, <1>5, <1>6 DEF Allowed

\* Confirming more drafts takes nothing away, and neither a broadcast nor a
\* cancellation makes a payment automatic.
LEMMA AllowedStays ==
  ASSUME NEW old, NEW new, Allowed(old), new.req = old.req,
         new.status = old.status \/ new.status # "AUTO_APPROVED",
         confirmed \subseteq confirmed'
  PROVE  Allowed(new)'
BY DEF Allowed

\* Every policy has confirmed terms, and so has every payment that was not blocked.
LEMMA TermsInvCorrect == Spec => []TermsInv
<1>1. Init => TermsInv
  BY ConstantsAssumption DEF Init, TermsInv, PoliciesConfirmed,
     PaymentsWithinConfirmedTerms
<1>2. TypeOK /\ TermsInv /\ [Next]_vars => TermsInv'
  <2> SUFFICES ASSUME TypeOK, TermsInv, [Next]_vars PROVE TermsInv'
    OBVIOUS
  <2> USE DEF TermsInv
  <2>1. ASSUME confirmed \subseteq confirmed', UNCHANGED row
        PROVE  PaymentsWithinConfirmedTerms'
    <3> SUFFICES ASSUME NEW k \in Keys, row'[k] # NoRow, row'[k].status # "BLOCKED",
                        row'[k].req \notin ContractCalls
                 PROVE  Allowed(row[k])'
      BY DEF PaymentsWithinConfirmedTerms
    <3>1. Allowed(row[k])
      BY <2>1 DEF PaymentsWithinConfirmedTerms
    <3> QED BY <2>1, <3>1 DEF Allowed
  <2>2. ASSUME NEW p \in Policy, SavePolicy(p), p.terms \in confirmed',
               confirmed \subseteq confirmed'
        PROVE  PoliciesConfirmed'
    BY <2>2, SavePolicyRows DEF PoliciesConfirmed, TypeOK
  <2>3. ASSUME NEW t \in policyTokens, CreatePolicy(t) PROVE TermsInv'
    <3> DEFINE p == [id |-> PolicyId(t.draft), terms |-> t.draft, enabled |-> TRUE,
                     validFrom |-> now]
    <3>1. p \in Policy
      BY DEF Policy, TypeOK
    <3> QED BY <2>1, <2>2, <2>3, <3>1 DEF CreatePolicy
  <2>4. ASSUME NEW i \in DOMAIN policies, NEW b \in BOOLEAN, UpdatePolicy(i, b)
        PROVE  TermsInv'
    <3> DEFINE p == [policies[i] EXCEPT !.enabled = b]
    <3>1. policies[i] \in Policy
      BY DEF TypeOK
    <3>2. p \in Policy /\ p.terms = policies[i].terms
      BY <3>1 DEF Policy
    <3>3. p.terms \in confirmed'
      BY <2>4, <3>2 DEF UpdatePolicy, PoliciesConfirmed
    <3> HIDE DEF p
    <3> QED BY <2>1, <2>2, <2>4, <3>2, <3>3 DEF UpdatePolicy, p
  <2>5. ASSUME NEW c \in Calls, NEW b \in Balances, PrepareFinish(c, b) PROVE TermsInv'
    <3> DEFINE k == call[c].key
               r == call[c].req
               status == StatusOf(Decision(Context(r, b), policies))
               record == [req |-> r, status |-> status, at |-> now]
    <3>0. CASE UNCHANGED row
      BY <2>1, <2>5, <3>0, PrepareWrites DEF PoliciesConfirmed
    <3> SUFFICES ASSUME ~UNCHANGED row PROVE TermsInv'
      BY <3>0
    <3>1. k \in Keys /\ r \in Requests
      BY <2>5, PrepareWrites
    <3>2. row' = [row EXCEPT ![k] = record] /\ UNCHANGED <<policies, confirmed>>
      BY <2>5, PrepareWrites
    <3>3. record.status # "BLOCKED" => Allowed(record)
      BY <3>1, PreparedIsAllowed
    <3> HIDE DEF record
    <3>4. PaymentsWithinConfirmedTerms'
      <4> SUFFICES ASSUME NEW q \in Keys, row'[q] # NoRow, row'[q].status # "BLOCKED",
                          row'[q].req \notin ContractCalls
                   PROVE  Allowed(row[q])'
        BY DEF PaymentsWithinConfirmedTerms
      <4>1. CASE q = k
        BY <3>1, <3>2, <3>3, <4>1 DEF Allowed, TypeOK
      <4>2. CASE q # k
        BY <3>2, <4>2 DEF PaymentsWithinConfirmedTerms, Allowed, TypeOK
      <4> QED BY <4>1, <4>2
    <3> QED BY <3>2, <3>4 DEF PoliciesConfirmed
  <2>6. ASSUME NEW k \in Keys, NEW record, row' = [row EXCEPT ![k] = record],
               row[k] # NoRow, row[k].status # "BLOCKED",
               record.req = row[k].req, record.status # "AUTO_APPROVED",
               UNCHANGED <<policies, confirmed>>
        PROVE  TermsInv'
    <3>1. row[k].req \notin ContractCalls => Allowed(row[k])
      BY <2>6 DEF PaymentsWithinConfirmedTerms
    <3>2. ASSUME NEW q \in Keys, row'[q] # NoRow, row'[q].status # "BLOCKED",
                 row'[q].req \notin ContractCalls
          PROVE  Allowed(row[q])'
      <4>1. CASE q = k
        <5>1. row'[q] = record
          BY <2>6, <4>1 DEF TypeOK
        <5>2. Allowed(row[k])
          BY <2>6, <3>1, <3>2, <5>1
        <5> QED BY <2>6, <5>1, <5>2 DEF Allowed
      <4>2. CASE q # k
        BY <2>6, <3>2, <4>2 DEF PaymentsWithinConfirmedTerms, Allowed, TypeOK
      <4> QED BY <4>1, <4>2
    <3> QED BY <2>6, <3>2 DEF PoliciesConfirmed, PaymentsWithinConfirmedTerms
  <2>7. ASSUME NEW k \in Keys, Broadcast(k) PROVE TermsInv'
    <3> DEFINE record == [row[k] EXCEPT !.status = "PENDING", !.at = now]
    <3>1. row[k] \in Row /\ row[k] # NoRow /\ row[k].status # "BLOCKED"
      BY <2>7, DeadEnds DEF Broadcast, TypeOK
    <3>2. record.req = row[k].req /\ record.status # "AUTO_APPROVED"
      BY <3>1 DEF Row
    <3>3. row' = [row EXCEPT ![k] = record] /\ UNCHANGED <<policies, confirmed>>
      BY <2>7 DEF Broadcast
    <3> HIDE DEF record
    <3> QED BY <2>6, <3>1, <3>2, <3>3
  <2>8. ASSUME NEW k \in Keys, Cancel(k) PROVE TermsInv'
    <3> DEFINE record == [row[k] EXCEPT !.status = "CANCELLED"]
    <3>1. row[k] \in Row /\ row[k] # NoRow /\ row[k].status # "BLOCKED"
      BY <2>8 DEF Cancel, Unsettled, TypeOK
    <3>2. record.req = row[k].req /\ record.status # "AUTO_APPROVED"
      BY <3>1 DEF Row
    <3>3. row' = [row EXCEPT ![k] = record] /\ UNCHANGED <<policies, confirmed>>
      BY <2>8 DEF Cancel
    <3> HIDE DEF record
    <3> QED BY <2>6, <3>1, <3>2, <3>3
  <2>9. ASSUME UNCHANGED <<policies, row, confirmed>> PROVE TermsInv'
    BY <2>1, <2>9 DEF PoliciesConfirmed
  <2>10. ASSUME NEW k \in Keys, NEW r \in Requests, PrepareContractCall(k, r) PROVE TermsInv'
    <3> DEFINE record == [req |-> r, status |-> "AUTO_APPROVED", at |-> now]
    <3>1. row' = [row EXCEPT ![k] = record] /\ record.req \in ContractCalls
          /\ UNCHANGED <<policies, confirmed>>
      BY <2>10 DEF PrepareContractCall
    <3> HIDE DEF record
    <3>2. ASSUME NEW q \in Keys, row'[q] # NoRow, row'[q].status # "BLOCKED",
                 row'[q].req \notin ContractCalls
          PROVE  Allowed(row[q])'
      <4>1. row'[q] = row[q]
        BY <3>1, <3>2 DEF TypeOK
      <4> QED BY <3>1, <3>2, <4>1 DEF PaymentsWithinConfirmedTerms, Allowed
    <3> QED BY <3>1, <3>2 DEF PoliciesConfirmed, PaymentsWithinConfirmedTerms
  <2> QED BY <2>3, <2>4, <2>5, <2>7, <2>8, <2>9, <2>10
          DEF Next, vars, Tick, PreviewPolicy, PrepareStart, PrepareFails
<1> QED BY <1>1, <1>2, TypeCorrect, PTL DEF Spec

\* For any drafts, requests and balances: what an agent may have transferred was within
\* terms the user confirmed for it, whatever contract calls it prepared.
THEOREM TermsCorrect == Spec => []PaymentsWithinConfirmedTerms
<1>1. TermsInv => PaymentsWithinConfirmedTerms
  BY DEF TermsInv
<1> QED BY <1>1, TermsInvCorrect, PTL

-----------------------------------------------------------------------------------
(* Adding amounts up.                                                      *)

\* Some set of a collection of subsets of a finite set has no other below it.
LEMMA Smallest ==
  ASSUME NEW U, IsFiniteSet(U), NEW C \in SUBSET (SUBSET U), C # {}
  PROVE  \E s \in C : \A t \in C : ~(t \subseteq s /\ t # s)
<1>1. IsWellFoundedOn(StrictSubsetOrdering(U), SUBSET U)
  BY FS_StrictSubsetOrderingWellFounded, FS_FiniteSubsetsOfFinite
<1>2. PICK s \in C : \A t \in C : ~(<<t, s>> \in StrictSubsetOrdering(U))
  BY <1>1, WFMin
<1> QED
  BY <1>2 DEF StrictSubsetOrdering

\* g adds the values of f up, over any set of its arguments and in any order.
Adds(g, f, U) ==
  /\ g \in [SUBSET U -> Nat] /\ g[{}] = 0
  /\ \A s \in SUBSET U : \A x \in s : g[s] = f[x] + g[s \ {x}]

\* Over a finite set there is such a sum.
LEMMA SumExists ==
  ASSUME NEW U, IsFiniteSet(U), NEW f \in [U -> Nat]
  PROVE  \E g : Adds(g, f, U)
<1> DEFINE Bad == {V \in SUBSET U : ~\E g : Adds(g, f, V)}
<1> SUFFICES ASSUME Bad # {} PROVE FALSE
  <2>1. U \in SUBSET U
    OBVIOUS
  <2> QED
    BY <2>1, Zenon
<1>1. Bad \in SUBSET (SUBSET U)
  BY Zenon
<1> HIDE DEF Bad
<1>2. PICK V \in Bad : \A W \in Bad : ~(W \subseteq V /\ W # V)
  BY <1>1, Smallest
<1>3. V \in SUBSET U /\ ~\E g : Adds(g, f, V)
  BY Zenon DEF Bad
<1>4. CASE V = {}
  <2> PICK g : g = [s \in SUBSET V |-> 0]
    OBVIOUS
  <2>1. Adds(g, f, V)
    BY <1>4 DEF Adds
  <2> QED
    BY <1>3, <2>1
<1>5. CASE V # {}
  <2> PICK y : y \in V
    BY <1>5
  <2> PICK W : W = V \ {y}
    OBVIOUS
  <2>1. W \in SUBSET U /\ W \subseteq V /\ W # V
    BY <1>3
  <2>2. W \notin Bad
    BY <1>2, <2>1, Zenon
  <2>3. PICK g : Adds(g, f, W)
    BY <2>1, <2>2, Zenon DEF Bad
  <2> PICK h : h = [s \in SUBSET V |-> IF y \in s THEN f[y] + g[s \ {y}] ELSE g[s]]
    OBVIOUS
  <2>4. /\ g \in [SUBSET W -> Nat] /\ g[{}] = 0
        /\ \A s \in SUBSET W : \A x \in s : g[s] = f[x] + g[s \ {x}]
    BY <2>3 DEF Adds
  <2>5. \A s \in SUBSET V : /\ s \ {y} \in SUBSET W
                            /\ y \notin s => s \in SUBSET W
    OBVIOUS
  <2>6. f[y] \in Nat /\ \A x \in V : f[x] \in Nat
    BY <1>3
  <2>7. h \in [SUBSET V -> Nat] /\ h[{}] = 0
    BY <2>4, <2>5, <2>6
  <2>8. ASSUME NEW s \in SUBSET V, NEW x \in s PROVE h[s] = f[x] + h[s \ {x}]
    <3>1. s \ {x} \in SUBSET V /\ x \in V /\ s \ {y} \in SUBSET W
      OBVIOUS
    <3>2. CASE x = y
      <4>1. h[s] = f[y] + g[s \ {y}] /\ h[s \ {x}] = g[s \ {x}]
        BY <3>1, <3>2
      <4> QED
        BY <3>2, <4>1
    <3>3. CASE x # y /\ y \in s
      <4>1. h[s] = f[y] + g[s \ {y}] /\ h[s \ {x}] = f[y] + g[(s \ {x}) \ {y}]
        BY <3>1, <3>3
      <4>2. x \in s \ {y} /\ (s \ {y}) \ {x} = (s \ {x}) \ {y}
        BY <3>3
      <4>3. g[s \ {y}] = f[x] + g[(s \ {x}) \ {y}]
        <5>1. g[s \ {y}] = f[x] + g[(s \ {y}) \ {x}]
          BY <2>4, <3>1, <4>2, Zenon
        <5> QED
          BY <4>2, <5>1, Zenon
      <4>4. (s \ {x}) \ {y} \in SUBSET W
        BY <3>1
      <4> QED
        BY <2>4, <2>6, <3>1, <4>1, <4>3, <4>4
    <3>4. CASE y \notin s
      <4>1. h[s] = g[s] /\ h[s \ {x}] = g[s \ {x}] /\ s \in SUBSET W
        BY <3>1, <3>4
      <4> QED
        BY <2>4, <4>1
    <3> QED
      BY <3>2, <3>3, <3>4
  <2>9. Adds(h, f, V)
    BY <2>7, <2>8 DEF Adds
  <2> QED
    BY <1>3, <2>9
<1> QED
  BY <1>4, <1>5

\* What the records of some keys sum up to.
Paid(rw, C) == MapThenSumSet(LAMBDA k : rw[k].req.amount, C)

\* A fold over a set adds its members up, whichever it chooses first.
LEMMA PaidIsSum ==
  ASSUME NEW rw, NEW U, IsFiniteSet(U), NEW f, NEW g, Adds(g, f, U),
         \A k \in U : f[k] = rw[k].req.amount, NEW C \in SUBSET U
  PROVE  Paid(rw, C) = g[C]
<1> DEFINE Rest(it) == [s \in SUBSET C |->
             IF s = {} THEN 0
             ELSE rw[CHOOSE x \in s : TRUE].req.amount + it[s \ {CHOOSE x \in s : TRUE}]]
<1>1. Paid(rw, C) = (CHOOSE it : it = Rest(it))[C]
  BY Zenon DEF Paid, MapThenSumSet, MapThenFoldSet
<1> PICK r : r = [s \in SUBSET C |-> g[s]]
  OBVIOUS
<1>2. r = Rest(r)
  <2>1. ASSUME NEW s \in SUBSET C
        PROVE  g[s] = IF s = {} THEN 0
                      ELSE rw[CHOOSE x \in s : TRUE].req.amount
                             + r[s \ {CHOOSE x \in s : TRUE}]
    <3>1. CASE s = {}
      BY <3>1 DEF Adds
    <3>2. CASE s # {}
      <4> PICK x : x = CHOOSE y \in s : TRUE
        OBVIOUS
      <4>1. x \in s
        BY <3>2
      <4>2. g[s] = f[x] + g[s \ {x}] /\ r[s \ {x}] = g[s \ {x}] /\ f[x] = rw[x].req.amount
        BY <4>1 DEF Adds
      <4> QED
        BY <3>2, <4>2
    <3> QED
      BY <3>1, <3>2
  <2> QED
    BY <2>1
<1> PICK it : it = CHOOSE j : j = Rest(j)
  OBVIOUS
<1> HIDE DEF Rest
<1>3. it = Rest(it)
  BY <1>2, Zenon
<1> USE DEF Rest
<1> DEFINE Bad == {s \in SUBSET C : it[s] # g[s]}
<1>4. Bad = {}
  <2> SUFFICES ASSUME Bad # {} PROVE FALSE
    OBVIOUS
  <2>1. Bad \in SUBSET (SUBSET U)
    OBVIOUS
  <2> HIDE DEF Bad, Rest
  <2>2. PICK s \in Bad : \A t \in Bad : ~(t \subseteq s /\ t # s)
    BY <2>1, Smallest
  <2>3. s \in SUBSET C /\ it[s] # g[s]
    BY DEF Bad
  <2>4. it[s] = IF s = {} THEN 0
                ELSE rw[CHOOSE x \in s : TRUE].req.amount
                       + it[s \ {CHOOSE x \in s : TRUE}]
    BY <1>3, <2>3 DEF Rest
  <2>5. s # {}
    BY <2>3, <2>4 DEF Adds
  <2> PICK x : x = CHOOSE y \in s : TRUE
    OBVIOUS
  <2>6. x \in s
    BY <2>5
  <2>7. it[s \ {x}] = g[s \ {x}]
    BY <2>2, <2>3, <2>6 DEF Bad
  <2>8. g[s] = f[x] + g[s \ {x}] /\ f[x] = rw[x].req.amount
    BY <2>3, <2>6 DEF Adds
  <2> QED
    BY <2>3, <2>4, <2>5, <2>7, <2>8
<1>5. it[C] = g[C]
  BY <1>4
<1> QED
  BY <1>1, <1>5

\* Amounts of requests, by which records of keys can be added up.
Amounts(rw, C) == IsFiniteSet(C) /\ \A k \in C : rw[k].req.amount \in Nat

\* What records sum up to, over some keys and over any of them.
LEMMA PaidSum ==
  ASSUME NEW rw, NEW U, Amounts(rw, U)
  PROVE  \E g : /\ Adds(g, [k \in U |-> rw[k].req.amount], U)
                /\ \A C \in SUBSET U : Paid(rw, C) = g[C]
<1> PICK f : f = [k \in U |-> rw[k].req.amount]
  OBVIOUS
<1>1. f \in [U -> Nat] /\ IsFiniteSet(U) /\ \A k \in U : f[k] = rw[k].req.amount
  BY DEF Amounts
<1>2. PICK g : Adds(g, f, U)
  BY <1>1, SumExists
<1>3. \A C \in SUBSET U : Paid(rw, C) = g[C]
  BY <1>1, <1>2, PaidIsSum
<1> QED
  BY <1>2, <1>3, Zenon

\* The sum is of the amounts alone.
LEMMA PaidSame ==
  ASSUME NEW rw, NEW rw2, NEW C, Amounts(rw, C),
         \A k \in C : rw2[k].req.amount = rw[k].req.amount
  PROVE  Paid(rw2, C) = Paid(rw, C) /\ Paid(rw, C) \in Nat
<1> PICK f : f = [k \in C |-> rw[k].req.amount]
  OBVIOUS
<1>1. /\ f \in [C -> Nat] /\ IsFiniteSet(C) /\ C \in SUBSET C
      /\ \A k \in C : f[k] = rw[k].req.amount /\ f[k] = rw2[k].req.amount
  BY DEF Amounts
<1>2. PICK g : Adds(g, f, C)
  BY <1>1, SumExists
<1>3. Paid(rw, C) = g[C]
  BY <1>1, <1>2, PaidIsSum
<1>4. Paid(rw2, C) = g[C]
  BY <1>1, <1>2, PaidIsSum
<1> QED
  BY <1>1, <1>2, <1>3, <1>4 DEF Adds

\* One record more adds its amount.
LEMMA PaidOneMore ==
  ASSUME NEW rw, NEW C, NEW x \in C, Amounts(rw, C)
  PROVE  Paid(rw, C) = Paid(rw, C \ {x}) + rw[x].req.amount
<1>1. PICK g : /\ Adds(g, [k \in C |-> rw[k].req.amount], C)
               /\ \A D \in SUBSET C : Paid(rw, D) = g[D]
  BY PaidSum
<1>2. C \ {x} \in SUBSET C /\ C \in SUBSET C
  OBVIOUS
<1>3. g[C] = rw[x].req.amount + g[C \ {x}] /\ g[C \ {x}] \in Nat
  BY <1>1, <1>2 DEF Adds
<1>4. rw[x].req.amount \in Nat
  BY DEF Amounts
<1> QED
  BY <1>1, <1>2, <1>3, <1>4

\* Fewer records sum up to no more.
LEMMA PaidFewer ==
  ASSUME NEW rw, NEW C, Amounts(rw, C), NEW D \in SUBSET C
  PROVE  Paid(rw, D) <= Paid(rw, C)
<1>1. PICK g : /\ Adds(g, [k \in C |-> rw[k].req.amount], C)
               /\ \A E \in SUBSET C : Paid(rw, E) = g[E]
  BY PaidSum
<1> DEFINE Bad == {s \in SUBSET C : D \subseteq s /\ ~(g[D] <= g[s])}
<1>2. Bad = {}
  <2> SUFFICES ASSUME Bad # {} PROVE FALSE
    OBVIOUS
  <2>1. Bad \in SUBSET (SUBSET C) /\ IsFiniteSet(C)
    BY DEF Amounts
  <2> HIDE DEF Bad
  <2>2. PICK s \in Bad : \A t \in Bad : ~(t \subseteq s /\ t # s)
    BY <2>1, Smallest
  <2>3. s \in SUBSET C /\ D \subseteq s /\ ~(g[D] <= g[s]) /\ g[D] \in Nat /\ g[s] \in Nat
    BY <1>1 DEF Adds, Bad
  <2>4. s # D
    BY <2>3
  <2>5. PICK x \in s : x \notin D
    BY <2>3, <2>4
  <2>6. s \ {x} \in SUBSET C /\ D \subseteq s \ {x} /\ s \ {x} \subseteq s /\ s \ {x} # s
    BY <2>3, <2>5
  <2>7. g[D] <= g[s \ {x}]
    BY <2>2, <2>6 DEF Bad
  <2>8. g[s] = rw[x].req.amount + g[s \ {x}] /\ g[s \ {x}] \in Nat /\ rw[x].req.amount \in Nat
    BY <1>1, <2>3, <2>5, <2>6 DEF Adds, Amounts
  <2> QED
    BY <2>3, <2>7, <2>8
<1>3. g[D] <= g[C]
  BY <1>2
<1> QED
  BY <1>1, <1>3

-----------------------------------------------------------------------------------
(* An agent with one payment at a time stays within its daily limit.       *)

\* What counts as spent on the day of t.
CountedAt(rw, t, a, token, network) ==
  {k \in Keys : /\ rw[k] # NoRow
                /\ rw[k].req.agentId = a
                /\ rw[k].req.token = token
                /\ rw[k].req.network = network
                /\ Counts(rw[k].status)
                /\ Day(rw[k].at) >= Day(t)}

\* SpentToday is such a sum, before a step.
LEMMA SpentNow ==
  ASSUME NEW a, NEW token, NEW network
  PROVE  SpentToday(a, token, network) = Paid(row, CountedAt(row, now, a, token, network))
BY Zenon DEF SpentToday, Paid, CountedAt

\* After it.
LEMMA SpentNext ==
  ASSUME NEW a, NEW token, NEW network
  PROVE  SpentToday(a, token, network)' = Paid(row', CountedAt(row', now', a, token, network))
BY Zenon DEF SpentToday, Paid, CountedAt, MapThenSumSet, MapThenFoldSet

\* The records that count can be added up.
LEMMA CountedAmounts ==
  ASSUME NEW rw \in [Keys -> Row \cup {NoRow}], NEW t, NEW a, NEW token, NEW network
  PROVE  Amounts(rw, CountedAt(rw, t, a, token, network))
<1>1. CountedAt(rw, t, a, token, network) \in SUBSET Keys
  BY DEF CountedAt
<1>2. IsFiniteSet(CountedAt(rw, t, a, token, network))
  BY <1>1, KeysAssumption, FS_Subset
<1>3. ASSUME NEW k \in CountedAt(rw, t, a, token, network) PROVE rw[k].req.amount \in Nat
  <2>1. rw[k] \in Row
    BY DEF CountedAt
  <2>2. rw[k].req \in Requests
    BY <2>1 DEF Row
  <2> QED
    BY <2>2, ConstantsAssumption
<1> QED
  BY <1>2, <1>3 DEF Amounts

\* The day does not go back.
LEMMA DayMonotone ==
  \A x, y \in Nat : Day(x) \in Nat /\ (x <= y => Day(x) <= Day(y))
<1> PICK n \in Nat \ {0} : n = TicksPerDay
  BY ConstantsAssumption
<1>1. \A z \in Nat : z \div n \in Nat /\ n * (z \div n) <= z /\ z < n * (z \div n) + n
  OBVIOUS
<1>2. \A q, p \in Nat : q < p => n * q + n <= n * p
  OBVIOUS
<1> SUFFICES ASSUME NEW x \in Nat, NEW y \in Nat
             PROVE  Day(x) \in Nat /\ (x <= y => Day(x) <= Day(y))
  OBVIOUS
<1>0. PICK q, p : q = x \div n /\ p = y \div n
  OBVIOUS
<1>3. q \in Nat /\ p \in Nat /\ n * q <= x /\ y < n * p + n
  BY <1>0, <1>1
<1>4. p < q => n * p + n <= n * q
  BY <1>2, <1>3
<1>5. n * p \in Nat /\ n * q \in Nat
  BY <1>3
<1>6. x <= y => q <= p
  <2> SUFFICES ASSUME x <= y, p < q PROVE FALSE
    BY <1>3
  <2> QED
    BY <1>3, <1>4, <1>5
<1>7. Day(x) = q /\ Day(y) = p
  BY <1>0 DEF Day
<1> QED
  BY <1>3, <1>6, <1>7

\* Nothing is spent by a step that writes no record which counts.
LEMMA SpendingShrinks ==
  ASSUME TypeOK, TypeOK', now <= now', NEW a, NEW token, NEW network,
         \A k \in CountedAt(row', now', a, token, network) : row'[k] = row[k]
  PROVE  /\ SpentToday(a, token, network) \in Nat /\ SpentToday(a, token, network)' \in Nat
         /\ SpentToday(a, token, network)' <= SpentToday(a, token, network)
<1>0. PICK C, D : /\ C = CountedAt(row, now, a, token, network)
                /\ D = CountedAt(row', now', a, token, network)
  OBVIOUS
<1>1. row \in [Keys -> Row \cup {NoRow}] /\ row' \in [Keys -> Row \cup {NoRow}]
      /\ now \in Nat /\ now' \in Nat
  BY ConstantsAssumption DEF TypeOK, Time
<1>2. Amounts(row, C) /\ Amounts(row', D)
  BY <1>0, <1>1, CountedAmounts
<1>3. D \in SUBSET C
  <2>1. ASSUME NEW k \in D PROVE k \in C
    <3>1. row'[k] = row[k]
      BY <1>0, Zenon
    <3>2. /\ k \in Keys /\ row'[k] # NoRow /\ row'[k].req.agentId = a
          /\ row'[k].req.token = token /\ row'[k].req.network = network
          /\ Counts(row'[k].status) /\ Day(row'[k].at) >= Day(now')
      BY <1>0 DEF CountedAt
    <3>3. row'[k] \in Row
      BY <1>1, <3>2
    <3>4. row'[k].at \in Nat
      BY <3>3, ConstantsAssumption DEF Row, Time
    <3>5. Day(row'[k].at) >= Day(now)
      <4>1. Day(now) <= Day(now') /\ Day(now) \in Nat /\ Day(now') \in Nat
        BY <1>1, DayMonotone, Zenon
      <4>2. Day(row'[k].at) \in Nat
        BY <3>4, DayMonotone, Zenon
      <4> QED
        BY <3>2, <4>1, <4>2
    <3> QED
      BY <1>0, <3>1, <3>2, <3>5 DEF CountedAt
  <2> QED
    BY <2>1
<1>4. Paid(row', D) = Paid(row, D) /\ Paid(row', D) \in Nat
  <2>1. \A k \in D : row[k].req.amount = row'[k].req.amount
    BY <1>0, Zenon
  <2> QED
    BY <1>2, <2>1, PaidSame
<1>5. Paid(row, D) <= Paid(row, C) /\ Paid(row, C) \in Nat
  BY <1>2, <1>3, PaidFewer, PaidSame
<1>6. SpentToday(a, token, network) = Paid(row, C)
  BY <1>0, SpentNow, Zenon
<1>7. SpentToday(a, token, network)' = Paid(row', D)
  BY <1>0, SpentNext, Zenon
<1> QED
  BY <1>4, <1>5, <1>6, <1>7

\* A broadcast spends what was asked for.
LEMMA BroadcastSpends ==
  ASSUME TypeOK, TypeOK', NEW k \in Keys, Broadcast(k), NEW a, NEW token, NEW network,
         a = row[k].req.agentId, token = row[k].req.token, network = row[k].req.network
  PROVE  /\ SpentToday(a, token, network) \in Nat
         /\ SpentToday(a, token, network)' =
              SpentToday(a, token, network) + row[k].req.amount
<1>0. PICK C, D : /\ C = CountedAt(row, now, a, token, network)
                /\ D = CountedAt(row', now', a, token, network)
  OBVIOUS
<1>1. row \in [Keys -> Row \cup {NoRow}] /\ row' \in [Keys -> Row \cup {NoRow}]
      /\ now \in Nat /\ row[k] \in Row
  <2>1. now \in Nat
    BY ConstantsAssumption DEF TypeOK, Time
  <2> QED
    BY <2>1 DEF TypeOK, Broadcast
<1>2. Amounts(row, C) /\ Amounts(row', D)
  BY <1>0, <1>1, CountedAmounts
<1>3. /\ row' = [row EXCEPT ![k] = [row[k] EXCEPT !.status = "PENDING", !.at = now]]
      /\ now' = now /\ row[k].status \notin {"BLOCKED", "CANCELLED", "PENDING"}
  BY DeadEnds DEF Broadcast
<1> PICK e : e = [row[k] EXCEPT !.status = "PENDING", !.at = now]
  OBVIOUS
<1>4. e \in Row /\ e.req = row[k].req /\ e.status = "PENDING" /\ e.at = now
      /\ row' = [row EXCEPT ![k] = e] /\ row'[k] = e
      /\ \A q \in Keys : q # k => row'[q] = row[q]
  BY <1>1, <1>3, ConstantsAssumption DEF Row, TypeOK
<1>5. row[k].status \in {"REQUIRES_CONFIRMATION", "AUTO_APPROVED"}
  BY <1>1, <1>3 DEF Row
<1>6. k \notin C
  BY <1>0, <1>5 DEF CountedAt, Counts
<1>7. k \in D
  <2>1. e # NoRow /\ Counts("PENDING")
    BY <1>4, NoRowAssumption DEF Counts
  <2>2. Day(now) >= Day(now')
    BY <1>1, <1>3, DayMonotone
  <2> QED
    BY <1>0, <1>4, <2>1, <2>2 DEF CountedAt
<1>8. D \ {k} = C
  <2>1. \A q \in Keys : q # k => (q \in C <=> q \in D)
    BY <1>0, <1>3, <1>4 DEF CountedAt
  <2>2. C \subseteq Keys /\ D \subseteq Keys
    BY <1>0 DEF CountedAt
  <2> QED
    BY <1>6, <2>1, <2>2
<1>9. Paid(row', D) = Paid(row', C) + row[k].req.amount
  <2>1. Paid(row', D) = Paid(row', D \ {k}) + row'[k].req.amount
    BY <1>2, <1>7, PaidOneMore
  <2> QED
    BY <1>4, <1>8, <2>1
<1>10. Paid(row', C) = Paid(row, C) /\ Paid(row, C) \in Nat
  <2>1. \A q \in C : row'[q].req.amount = row[q].req.amount
    BY <1>0, <1>4, <1>6 DEF CountedAt
  <2> QED
    BY <1>2, <2>1, PaidSame
<1>11. SpentToday(a, token, network) = Paid(row, C)
  BY <1>0, SpentNow, Zenon
<1>12. SpentToday(a, token, network)' = Paid(row', D)
  BY <1>0, SpentNext, Zenon
<1> QED
  BY <1>9, <1>10, <1>11, <1>12

\* An agent's payment that may still be made.
Waiting(rw, k, a) ==
  /\ rw[k] # NoRow /\ rw[k].req.agentId = a
  /\ rw[k].status \in {"REQUIRES_CONFIRMATION", "AUTO_APPROVED"}

\* A confirmed limit leaves room for the payment of a record.
Fits(k) ==
  \E d \in confirmed :
    /\ d.agentId = row[k].req.agentId
    /\ SpentToday(row[k].req.agentId, row[k].req.token, row[k].req.network)
         + row[k].req.amount <= d.dailyLimit

\* An agent has one payment to make, which fits if it is a transfer.
OneFits(a) ==
  /\ \A k, q \in Keys : Waiting(row, k, a) /\ Waiting(row, q, a) => k = q
  /\ \A k \in Keys : Waiting(row, k, a) /\ row[k].req \notin ContractCalls => Fits(k)

\* The agents that never had two payments to make at once.
Alone == {r.agentId : r \in Requests} \ (overlapped \cup {NoAgent})

\* Their one payment fits.
LimitInv == \A a \in Alone : OneFits(a)

\* A step that writes nothing for an agent that counts or waits.
LEMMA QuietKeeps ==
  ASSUME TypeOK, TypeOK', now <= now', confirmed \subseteq confirmed',
         NEW a, OneFits(a),
         \A k \in Keys : \/ row'[k] = row[k]
                         \/ row'[k] # NoRow /\ row'[k].req.agentId = a =>
                              row'[k].status \in {"BLOCKED", "CANCELLED"}
  PROVE  OneFits(a)'
<1>1. ASSUME NEW token, NEW network
      PROVE  /\ SpentToday(a, token, network) \in Nat /\ SpentToday(a, token, network)' \in Nat
             /\ SpentToday(a, token, network)' <= SpentToday(a, token, network)
  <2>1. \A k \in CountedAt(row', now', a, token, network) : row'[k] = row[k]
    BY DEF CountedAt, Counts
  <2> QED
    BY <2>1, SpendingShrinks
<1>2. confirmed \subseteq Drafts /\ confirmed' \subseteq Drafts
  BY DEF TypeOK
<1>4. \A k \in Keys : Waiting(row', k, a) => row'[k] = row[k] /\ Waiting(row, k, a)
  BY DEF Waiting
<1>5. \A k, q \in Keys : Waiting(row', k, a) /\ Waiting(row', q, a) => k = q
  BY <1>4 DEF OneFits
<1>6. ASSUME NEW k \in Keys, Waiting(row', k, a), row'[k].req \notin ContractCalls
      PROVE  Fits(k)'
  <2>1. /\ row'[k] = row[k] /\ Waiting(row, k, a) /\ row[k].req.agentId = a
        /\ row[k].req \notin ContractCalls
    BY <1>4, <1>6 DEF Waiting
  <2> PICK token, network, n : /\ token = row[k].req.token /\ network = row[k].req.network
                               /\ n = row[k].req.amount
    OBVIOUS
  <2>2. PICK d \in confirmed : d.agentId = a /\ SpentToday(a, token, network) + n <= d.dailyLimit
    BY <2>1 DEF OneFits, Fits
  <2>3. d.dailyLimit \in Nat /\ n \in Nat
    <3>1. row[k] \in Row
      BY <2>1 DEF TypeOK, Waiting
    <3>2. row[k].req \in Requests
      BY <3>1 DEF Row
    <3> QED
      BY <1>2, <3>2, ConstantsAssumption
  <2> PICK s, t : s = SpentToday(a, token, network) /\ t = SpentToday(a, token, network)'
    OBVIOUS
  <2>4. s \in Nat /\ t \in Nat /\ t <= s
    BY <1>1, Zenon
  <2>5. t + n <= d.dailyLimit
    <3>1. s + n <= d.dailyLimit
      BY <2>2, Zenon
    <3> QED
      BY <2>3, <2>4, <3>1
  <2>6. SpentToday(a, token, network)' + n <= d.dailyLimit
    BY <2>5, Zenon
  <2> QED
    BY <2>1, <2>2, <2>6 DEF Fits
<1> QED
  BY <1>5, <1>6 DEF OneFits

\* prepare: the only unsettled payment of the agent was let through with room for it.
LEMMA PrepareKeeps ==
  ASSUME TypeOK, TypeOK', PoliciesConfirmed, LimitInv,
         NEW c \in Calls, NEW b \in Balances, PrepareFinish(c, b), NEW a \in Alone'
  PROVE  OneFits(a)'
<1> PICK k, r : k = call[c].key /\ r = call[c].req
  OBVIOUS
<1> PICK ctx : ctx = Context(r, b)
  OBVIOUS
<1> PICK e : e = [req |-> r, at |-> now, status |-> StatusOf(Decision(ctx, policies))]
  OBVIOUS
<1>0. CASE UNCHANGED <<row, overlapped>>
  <2>1. OneFits(a)
    BY <1>0 DEF Alone, LimitInv
  <2>2. now \in Nat /\ now' = now /\ confirmed' = confirmed
    BY PrepareWrites, ConstantsAssumption DEF TypeOK, Time
  <2> QED
    BY <1>0, <2>1, <2>2, QuietKeeps
<1> SUFFICES ASSUME ~UNCHANGED <<row, overlapped>> PROVE OneFits(a)'
  BY <1>0
<1>1. /\ k \in Keys /\ r \in Requests
      /\ row' = [row EXCEPT ![k] = e] /\ now' = now /\ confirmed' = confirmed
      /\ overlapped \subseteq overlapped'
      /\ r.agentId \notin overlapped' =>
           /\ row[k] = NoRow
           /\ \A q \in Keys \ {k} : ~(Unsettled(q) /\ row[q].req.agentId = r.agentId)
  BY PrepareWrites DEF Overlaps
<1>2. a \in Alone
  BY <1>1 DEF Alone
<1>3. OneFits(a)
  BY <1>2 DEF LimitInv
<1>4. /\ row \in [Keys -> Row \cup {NoRow}] /\ row' \in [Keys -> Row \cup {NoRow}]
      /\ now \in Nat /\ row'[k] = e /\ \A q \in Keys : q # k => row'[q] = row[q]
  BY <1>1, ConstantsAssumption DEF TypeOK, Time
<1>5. CASE r.agentId # a \/ e.status = "BLOCKED"
  <2>1. \A q \in Keys : \/ row'[q] = row[q]
                        \/ row'[q] # NoRow /\ row'[q].req.agentId = a =>
                             row'[q].status \in {"BLOCKED", "CANCELLED"}
    BY <1>4, <1>5
  <2> QED
    BY <1>1, <1>3, <1>4, <2>1, QuietKeeps
<1>6. CASE r.agentId = a /\ e.status # "BLOCKED"
  <2>1. a # NoAgent /\ a \notin overlapped'
    BY DEF Alone
  <2>2. /\ row[k] = NoRow
        /\ \A q \in Keys \ {k} : ~(Unsettled(q) /\ row[q].req.agentId = a)
    BY <1>1, <1>6, <2>1
  <2>3. Decision(ctx, policies) # "BLOCKED"
    BY <1>6 DEF StatusOf
  <2>4. ctx.agentId = a /\ ctx.amount = r.amount
        /\ ctx.spentToday = SpentToday(a, r.token, r.network)
    BY <1>6 DEF Context
  <2>5. PICK i \in DOMAIN policies :
          Governs(policies, i, ctx.agentId) /\ Permits(policies[i], ctx)
    BY <2>1, <2>3, <2>4, DecisionSound
  <2> PICK d : d = policies[i].terms
    OBVIOUS
  <2>6. /\ d \in confirmed /\ d.agentId = a
        /\ SpentToday(a, r.token, r.network) + r.amount <= d.dailyLimit
    BY <2>4, <2>5 DEF PoliciesConfirmed, Governs, Permits
  <2>7. ASSUME NEW token, NEW network
        PROVE  /\ SpentToday(a, token, network) \in Nat /\ SpentToday(a, token, network)' \in Nat
               /\ SpentToday(a, token, network)' <= SpentToday(a, token, network)
    <3>1. e.status \in {"REQUIRES_CONFIRMATION", "AUTO_APPROVED", "BLOCKED"}
      BY DEF StatusOf, Decision
    <3>2. \A q \in CountedAt(row', now', a, token, network) : row'[q] = row[q]
      BY <1>4, <3>1 DEF CountedAt, Counts
    <3>3. now <= now'
      BY <1>1, <1>4
    <3> QED
      BY <3>2, <3>3, SpendingShrinks
  <2>9. \A q \in Keys : Waiting(row', q, a) => q = k
    BY <1>4, <2>2 DEF Waiting, Unsettled
  <2>10. Fits(k)'
    <3> PICK s, t, n : /\ s = SpentToday(a, r.token, r.network) /\ n = r.amount
                       /\ t = SpentToday(a, r.token, r.network)'
      OBVIOUS
    <3>1. s \in Nat /\ t \in Nat /\ t <= s
      BY <2>7, Zenon
    <3>2. d.dailyLimit \in Nat /\ n \in Nat
      <4>1. d \in Drafts
        BY <2>6 DEF TypeOK
      <4> QED
        BY <1>1, <4>1, ConstantsAssumption
    <3>3. s + n <= d.dailyLimit
      BY <2>6, Zenon
    <3>4. t + n <= d.dailyLimit
      BY <3>1, <3>2, <3>3
    <3>5. SpentToday(a, r.token, r.network)' + r.amount <= d.dailyLimit
      BY <3>4, Zenon
    <3>6. row'[k].req = r
      BY <1>4
    <3> QED
      BY <1>1, <1>6, <2>6, <3>5, <3>6 DEF Fits
  <2> QED
    BY <2>9, <2>10 DEF OneFits
<1> QED
  BY <1>5, <1>6

\* prepare_contract_call: no limit is looked at, but the agent has nothing else to pay.
LEMMA ContractCallKeeps ==
  ASSUME TypeOK, TypeOK', LimitInv, NEW k \in Keys, NEW r \in Requests,
         PrepareContractCall(k, r), NEW a \in Alone'
  PROVE  OneFits(a)'
<1> PICK e : e = [req |-> r, status |-> "AUTO_APPROVED", at |-> now]
  OBVIOUS
<1>1. /\ r \in ContractCalls /\ row' = [row EXCEPT ![k] = e] /\ confirmed' = confirmed
      /\ overlapped \subseteq overlapped'
      /\ r.agentId \notin overlapped' =>
           \A q \in Keys \ {k} : ~(Unsettled(q) /\ row[q].req.agentId = r.agentId)
  BY DEF PrepareContractCall, Overlaps
<1>2. /\ now \in Nat /\ now' = now /\ row'[k] = e /\ e.req = r
      /\ \A q \in Keys : q # k => row'[q] = row[q]
  BY <1>1, ConstantsAssumption DEF PrepareContractCall, TypeOK, Time
<1>3. OneFits(a)
  BY <1>1 DEF Alone, LimitInv
<1>4. CASE r.agentId # a
  <2>1. \A q \in Keys : \/ row'[q] = row[q]
                        \/ row'[q] # NoRow /\ row'[q].req.agentId = a =>
                             row'[q].status \in {"BLOCKED", "CANCELLED"}
    BY <1>2, <1>4
  <2> QED
    BY <1>1, <1>2, <1>3, <2>1, QuietKeeps
<1>5. CASE r.agentId = a
  <2>1. a \notin overlapped'
    BY DEF Alone
  <2>2. \A q \in Keys : Waiting(row', q, a) => q = k
    BY <1>1, <1>2, <1>5, <2>1 DEF Waiting, Unsettled
  <2> QED
    BY <1>1, <1>2, <2>2 DEF OneFits
<1> QED
  BY <1>4, <1>5

\* finalizeVaultBroadcast: the agent's one payment is made.
LEMMA BroadcastKeeps ==
  ASSUME TypeOK, TypeOK', LimitInv, NEW k \in Keys, Broadcast(k), NEW a \in Alone'
  PROVE  OneFits(a)'
<1> PICK e : e = [row[k] EXCEPT !.status = "PENDING", !.at = now]
  OBVIOUS
<1>1. /\ row' = [row EXCEPT ![k] = e] /\ now' = now /\ confirmed' = confirmed
      /\ overlapped' = overlapped /\ row[k] # NoRow
      /\ row[k].status \notin {"BLOCKED", "CANCELLED", "PENDING"}
  BY DeadEnds DEF Broadcast
<1>2. OneFits(a)
  BY <1>1 DEF Alone, LimitInv
<1>3. row[k] \in Row /\ row'[k] = e /\ now \in Nat /\ \A q \in Keys : q # k => row'[q] = row[q]
  <2>1. now \in Nat
    BY ConstantsAssumption DEF TypeOK, Time
  <2> QED
    BY <1>1, <2>1 DEF TypeOK
<1>4. /\ e.req = row[k].req /\ e.status = "PENDING"
      /\ row[k].status \in {"REQUIRES_CONFIRMATION", "AUTO_APPROVED"}
  BY <1>1, <1>3 DEF Row
<1>5. now <= now' /\ confirmed \subseteq confirmed'
  BY <1>1, <1>3
<1>6. CASE row[k].req.agentId # a
  <2>1. \A q \in Keys : \/ row'[q] = row[q]
                        \/ row'[q] # NoRow /\ row'[q].req.agentId = a =>
                             row'[q].status \in {"BLOCKED", "CANCELLED"}
    BY <1>3, <1>4, <1>6
  <2> QED
    BY <1>2, <1>5, <2>1, QuietKeeps
<1>7. CASE row[k].req.agentId = a
  <2>1. Waiting(row, k, a)
    BY <1>1, <1>4, <1>7 DEF Waiting
  <2>2. \A q \in Keys : ~Waiting(row', q, a)
    BY <1>2, <1>3, <1>4, <2>1 DEF OneFits, Waiting
  <2> QED
    BY <2>2 DEF OneFits
<1> QED
  BY <1>6, <1>7

\* A transfer of an agent with one payment at a time is paid within a confirmed limit.
LEMMA BroadcastWithin ==
  ASSUME TypeOK, TypeOK', LimitInv, NEW k \in Keys, Broadcast(k),
         NEW r \in Requests \ ContractCalls, row[k].req = r,
         r.agentId \notin overlapped \cup {NoAgent}
  PROVE  WithinDailyLimit(r)'
<1> PICK a : a = r.agentId
  OBVIOUS
<1>1. row[k] \in Row /\ row[k] # NoRow /\ row[k].status \notin {"BLOCKED", "CANCELLED", "PENDING"}
  BY DeadEnds DEF Broadcast, TypeOK
<1>2. Waiting(row, k, a)
  BY <1>1 DEF Waiting, Row
<1>3. OneFits(a)
  BY DEF LimitInv, Alone
<1>4. PICK d \in confirmed : /\ d.agentId = a
                             /\ SpentToday(a, r.token, r.network) + r.amount <= d.dailyLimit
  BY <1>2, <1>3 DEF OneFits, Fits
<1>5. SpentToday(a, r.token, r.network)' = SpentToday(a, r.token, r.network) + r.amount
  BY BroadcastSpends
<1>6. SpentToday(a, r.token, r.network)' <= d.dailyLimit
  BY <1>4, <1>5, Zenon
<1>7. confirmed' = confirmed
  BY DEF Broadcast
<1>8. WithinDailyLimit(r)' <=>
        \E x \in confirmed' : /\ x.agentId = r.agentId
                              /\ SpentToday(r.agentId, r.token, r.network)' <= x.dailyLimit
  BY Zenon DEF WithinDailyLimit
<1> QED
  BY <1>4, <1>6, <1>7, <1>8, Zenon

\* For any requests, drafts, keys and length of the day: no transfer of an agent with one
\* payment at a time takes the day above every daily limit the user confirmed, although
\* contract calls count in it and no limit holds them.
THEOREM DailyLimitCorrect == Spec => OneAtATimeKeepsDailyLimit
<1>1. Init => LimitInv
  BY DEF Init, LimitInv, OneFits, Waiting
<1>2. TypeOK /\ TypeOK' /\ TermsInv /\ LimitInv /\ [Next]_vars => LimitInv'
  <2> SUFFICES ASSUME TypeOK, TypeOK', PoliciesConfirmed, LimitInv, [Next]_vars,
                      NEW a \in Alone'
               PROVE  OneFits(a)'
    BY DEF LimitInv, TermsInv
  <2>1. ASSUME now <= now', confirmed \subseteq confirmed', UNCHANGED overlapped,
               \A k \in Keys : \/ row'[k] = row[k]
                               \/ row'[k].status \in {"BLOCKED", "CANCELLED"}
        PROVE  OneFits(a)'
    <3>1. OneFits(a)
      BY <2>1 DEF Alone, LimitInv
    <3> QED
      BY <2>1, <3>1, QuietKeeps
  <2>2. ASSUME NEW k \in Keys, Cancel(k) PROVE OneFits(a)'
    <3>1. row[k] \in Row
      BY <2>2 DEF Cancel, Unsettled, TypeOK
    <3>2. \A q \in Keys : \/ row'[q] = row[q]
                          \/ row'[q].status \in {"BLOCKED", "CANCELLED"}
      BY <2>2, <3>1 DEF Cancel, TypeOK, Row
    <3>3. now <= now'
      BY <2>2, ConstantsAssumption DEF Cancel, TypeOK, Time
    <3> QED
      BY <2>1, <2>2, <3>2, <3>3 DEF Cancel
  <2>3. ASSUME NEW t \in policyTokens, CreatePolicy(t) PROVE OneFits(a)'
    BY <2>1, <2>3, ConstantsAssumption DEF CreatePolicy, TypeOK, Time
  <2>4. ASSUME now <= now', UNCHANGED <<row, confirmed, overlapped>>
        PROVE OneFits(a)'
    BY <2>1, <2>4
  <2>5. now \in Nat /\ now <= now
    BY ConstantsAssumption DEF TypeOK, Time
  <2>6. CASE Tick
    BY <2>4, <2>5, <2>6 DEF Tick
  <2>7. CASE now' = now /\ UNCHANGED <<row, confirmed, overlapped>>
    BY <2>4, <2>5, <2>7
  <2> QED
    BY <2>2, <2>3, <2>6, <2>7, PrepareKeeps, ContractCallKeeps, BroadcastKeeps
       DEF Next, vars, PreviewPolicy, UpdatePolicy, PrepareStart, PrepareFails
<1>3. TypeOK /\ TypeOK' /\ LimitInv /\ [Next]_vars =>
        [\A k \in Keys, r \in Requests \ ContractCalls :
           Pays(k, r)' /\ ~Pays(k, r) /\ r.agentId \notin overlapped \cup {NoAgent} =>
             WithinDailyLimit(r)']_vars
  <2> SUFFICES ASSUME TypeOK, TypeOK', LimitInv, Next,
                      NEW k \in Keys, NEW r \in Requests \ ContractCalls,
                      Pays(k, r)', ~Pays(k, r), r.agentId \notin overlapped \cup {NoAgent}
               PROVE  WithinDailyLimit(r)'
    OBVIOUS
  <2>1. /\ row'[k] # row[k] /\ row'[k] # NoRow /\ row'[k].req = r
        /\ row'[k].status = "PENDING"
    BY DEF Pays
  <2>2. ASSUME NEW q \in Keys, Broadcast(q) PROVE WithinDailyLimit(r)'
    <3>1. k = q /\ row[q] \in Row /\ row'[q] = [row[q] EXCEPT !.status = "PENDING", !.at = now]
      BY <2>1, <2>2 DEF Broadcast, TypeOK
    <3>2. row[k].req = r
      BY <2>1, <3>1 DEF Row
    <3> QED
      BY <2>2, <3>1, <3>2, BroadcastWithin
  <2>3. ASSUME NEW q \in Keys, Cancel(q) PROVE FALSE
    <3>1. row[q] \in Row
      BY <2>3 DEF Cancel, Unsettled, TypeOK
    <3> QED
      BY <2>1, <2>3, <3>1 DEF Cancel, TypeOK, Row
  <2>4. ASSUME NEW c \in Calls, NEW b \in Balances, PrepareFinish(c, b) PROVE FALSE
    <3> PICK s : s = StatusOf(Decision(Context(call[c].req, b), policies))
      OBVIOUS
    <3>1. s # "PENDING"
      BY StatusOfDecision
    <3>2. \/ row' = row
          \/ row' = [row EXCEPT ![call[c].key] = [req |-> call[c].req, at |-> now, status |-> s]]
      BY <2>4, PrepareWrites
    <3> QED
      BY <2>1, <3>1, <3>2 DEF TypeOK
  <2>5. ASSUME NEW q \in Keys, NEW p \in Requests, PrepareContractCall(q, p) PROVE FALSE
    BY <2>1, <2>5 DEF PrepareContractCall, TypeOK
  <2> QED
    BY <2>1, <2>2, <2>3, <2>4, <2>5
       DEF Next, Tick, PreviewPolicy, CreatePolicy, UpdatePolicy, PrepareStart, PrepareFails
<1> QED
  BY <1>1, <1>2, <1>3, TypeCorrect, TermsInvCorrect, PTL DEF Spec, OneAtATimeKeepsDailyLimit

-----------------------------------------------------------------------------------
(* Revocation.                                                             *)

\* No transfer of an agent is let through, by any interleaving of suspended prepares
\* with the policy tools, at a moment when the agent has no enabled policy.
THEOREM RevocationCorrect == Spec => RevocationStopsPrepares
<1> DEFINE Stops ==
  \A k \in Keys : row'[k] # row[k] /\ row'[k].status \in {"REQUIRES_CONFIRMATION",
                                                            "AUTO_APPROVED"}
        /\ row'[k].req.agentId # NoAgent /\ row'[k].req \notin ContractCalls =>
          \E i \in DOMAIN policies : /\ policies[i].terms.agentId = row'[k].req.agentId
                                     /\ policies[i].enabled
<1>1. TypeOK /\ [Next]_vars => [Stops]_row
  <2> SUFFICES ASSUME TypeOK, [Next]_vars, row' # row PROVE Stops
    OBVIOUS
  <2>1. ASSUME NEW c \in Calls, NEW b \in Balances, PrepareFinish(c, b) PROVE Stops
    <3> DEFINE r == call[c].req
               decision == Decision(Context(r, b), policies)
               record == [req |-> r, at |-> now, status |-> StatusOf(decision)]
    <3> SUFFICES ASSUME NEW k \in Keys, row'[k] # row[k],
                        row'[k].status \in {"REQUIRES_CONFIRMATION", "AUTO_APPROVED"},
                        row'[k].req.agentId # NoAgent
                 PROVE  \E i \in DOMAIN policies :
                          /\ policies[i].terms.agentId = row'[k].req.agentId
                          /\ policies[i].enabled
      OBVIOUS
    <3>1. row' = [row EXCEPT ![call[c].key] = record]
      BY <2>1, PrepareWrites
    <3>2. row'[k] = record
      BY <3>1 DEF TypeOK
    <3>3. decision # "BLOCKED" /\ Context(r, b).agentId = r.agentId
          /\ r.agentId = row'[k].req.agentId
      BY <3>2 DEF StatusOf, Context
    <3> HIDE DEF decision
    <3>4. PICK i \in DOMAIN policies : /\ Governs(policies, i, Context(r, b).agentId)
                                       /\ Permits(policies[i], Context(r, b))
      BY <3>3, DecisionSound DEF decision
    <3> QED BY <3>3, <3>4 DEF Governs, Permits
  <2>2. ASSUME NEW k \in Keys, NEW record, row' = [row EXCEPT ![k] = record],
               record.status \notin {"REQUIRES_CONFIRMATION", "AUTO_APPROVED"}
        PROVE  Stops
    BY <2>2 DEF TypeOK
  <2>3. ASSUME NEW k \in Keys, Broadcast(k) PROVE Stops
    <3> DEFINE record == [row[k] EXCEPT !.status = "PENDING", !.at = now]
    <3>1. row[k] \in Row
      BY <2>3 DEF Broadcast, TypeOK
    <3>2. record.status = "PENDING"
      BY <3>1 DEF Row
    <3>3. row' = [row EXCEPT ![k] = record]
      BY <2>3 DEF Broadcast
    <3> HIDE DEF record
    <3> QED BY <2>2, <3>2, <3>3
  <2>4. ASSUME NEW k \in Keys, Cancel(k) PROVE Stops
    <3> DEFINE record == [row[k] EXCEPT !.status = "CANCELLED"]
    <3>1. row[k] \in Row
      BY <2>4 DEF Cancel, Unsettled, TypeOK
    <3>2. record.status = "CANCELLED"
      BY <3>1 DEF Row
    <3>3. row' = [row EXCEPT ![k] = record]
      BY <2>4 DEF Cancel
    <3> HIDE DEF record
    <3> QED BY <2>2, <3>2, <3>3
  <2>5. ASSUME NEW k \in Keys, NEW r \in Requests, PrepareContractCall(k, r) PROVE Stops
    <3> DEFINE record == [req |-> r, status |-> "AUTO_APPROVED", at |-> now]
    <3>1. row' = [row EXCEPT ![k] = record] /\ record.req \in ContractCalls
      BY <2>5 DEF PrepareContractCall
    <3> HIDE DEF record
    <3> QED BY <3>1 DEF TypeOK
  <2> QED BY <2>1, <2>3, <2>4, <2>5 DEF Next, vars, Tick, PreviewPolicy, CreatePolicy,
          UpdatePolicy, PrepareStart, PrepareFails
<1> QED BY <1>1, TypeCorrect, PTL DEF Spec, RevocationStopsPrepares

-----------------------------------------------------------------------------------
(* The audit log of the policy tools.                                      *)

\* Whatever a confirmation, an update or a revocation leaves in the table, an audit
\* event about that policy says so; the seeded policy needs none until it is changed.
THEOREM PoliciesExplainedCorrect == Spec => []AuditExplainsPolicies
<1>1. Init => AuditExplainsPolicies
  BY DEF Init, AuditExplainsPolicies
<1>2. TypeOK /\ AuditExplainsPolicies /\ [Next]_vars => AuditExplainsPolicies'
  <2> SUFFICES ASSUME TypeOK, AuditExplainsPolicies, [Next]_vars
               PROVE  AuditExplainsPolicies'
    OBVIOUS
  <2>1. ASSUME NEW p \in Policy, NEW decision, SavePolicy(p), RecordPolicy(p.id, decision),
               (decision = "DISABLED") <=> (p.enabled = FALSE)
        PROVE  AuditExplainsPolicies'
    <3> SUFFICES ASSUME NEW i \in DOMAIN policies'
                 PROVE  \/ i \in DOMAIN Seed /\ policies'[i] = Seed[i]
                        \/ \E e \in audit' :
                             /\ e.id = policies'[i].id
                             /\ (e.decision = "DISABLED") = ~policies'[i].enabled
      BY DEF AuditExplainsPolicies
    <3>1. CASE policies'[i] = p
      <4>1. [id |-> p.id, decision |-> decision] \in audit'
        BY <2>1 DEF RecordPolicy
      <4>2. p.enabled \in BOOLEAN
        BY DEF Policy
      <4>3. (decision = "DISABLED") = ~p.enabled
        BY <2>1, <4>2
      <4> QED BY <3>1, <4>1, <4>3
    <3>2. CASE i \in DOMAIN policies /\ policies'[i] = policies[i]
      <4>1. audit \subseteq audit'
        BY <2>1 DEF RecordPolicy
      <4> QED BY <3>2, <4>1 DEF AuditExplainsPolicies
    <3> QED BY <2>1, <3>1, <3>2, SavePolicyRows DEF TypeOK
  <2>2. ASSUME NEW t \in policyTokens, CreatePolicy(t) PROVE AuditExplainsPolicies'
    <3> DEFINE p == [id |-> PolicyId(t.draft), terms |-> t.draft, enabled |-> TRUE,
                     validFrom |-> now]
    <3>1. p \in Policy
      BY DEF TypeOK, Policy
    <3>2. SavePolicy(p) /\ RecordPolicy(p.id, "CONFIRMED") /\ p.enabled = TRUE
      BY <2>2 DEF CreatePolicy
    <3> HIDE DEF p
    <3> QED BY <2>1, <3>1, <3>2
  <2>3. ASSUME NEW i \in DOMAIN policies, NEW b \in BOOLEAN, UpdatePolicy(i, b)
        PROVE  AuditExplainsPolicies'
    <3> DEFINE p == [policies[i] EXCEPT !.enabled = b]
               decision == IF b THEN "ENABLED" ELSE "DISABLED"
    <3>1. policies[i] \in Policy
      BY DEF TypeOK
    <3>2. p \in Policy /\ p.id = policies[i].id /\ p.enabled = b
      BY <3>1 DEF Policy
    <3>3. SavePolicy(p) /\ RecordPolicy(p.id, decision)
      BY <2>3, <3>2 DEF UpdatePolicy
    <3>4. (decision = "DISABLED") <=> (p.enabled = FALSE)
      BY <3>2
    <3> HIDE DEF p, decision
    <3> QED BY <2>1, <3>2, <3>3, <3>4
  <2>4. CASE UNCHANGED <<policies, audit>>
    BY <2>4 DEF AuditExplainsPolicies
  <2> QED BY <2>2, <2>3, <2>4 DEF Next, vars, Tick, PreviewPolicy, PrepareStart,
          PrepareFails, PrepareFinish, PrepareContractCall, Broadcast, Cancel
<1> QED BY <1>1, <1>2, TypeCorrect, PTL DEF Spec

-----------------------------------------------------------------------------------
(* The hash chain.                                                         *)

\* The first n of what was recorded, word for word.
Begins(s, h, n) ==
  /\ s \in Seq(Users \X Contents) /\ Len(s) = n
  /\ \A i \in 1 .. n : s[i] = h[i]

\* Hashes and users are as recorded, whatever was edited: a row names what was recorded
\* before it, and up to it.
ChainInv ==
  \A j \in 1 .. Len(chain) : /\ Begins(chain[j].previous, history, j - 1)
                             /\ Begins(chain[j].hash, history, j)
                             /\ chain[j].user = history[j][1]

\* The newest hash names all that was recorded.
LEMMA LatestIsHistory ==
  ASSUME AuditTypeOK, ChainInv
  PROVE  LatestHash \in Seq(Users \X Contents) /\ LatestHash = history
<1>1. CASE chain = <<>>
  BY <1>1 DEF AuditTypeOK, LatestHash, Genesis
<1>2. CASE chain # <<>>
  <2>1. Len(chain) \in 1 .. Len(chain) /\ Last(chain) = chain[Len(chain)]
    BY <1>2 DEF AuditTypeOK, Last
  <2>2. Begins(chain[Len(chain)].hash, history, Len(chain))
    BY <2>1, Zenon DEF ChainInv
  <2>3. LatestHash = chain[Len(chain)].hash
    BY <1>2, <2>1 DEF LatestHash
  <2> PICK s : s = LatestHash
    OBVIOUS
  <2>4. /\ s \in Seq(Users \X Contents) /\ history \in Seq(Users \X Contents)
        /\ Len(s) = Len(history) /\ \A i \in 1 .. Len(history) : s[i] = history[i]
    BY <2>2, <2>3 DEF Begins, AuditTypeOK
  <2>5. s = history
    BY <2>4, SeqEqual
  <2> QED
    BY <2>4, <2>5
<1> QED
  BY <1>1, <1>2

\* An event and its hash go to the end.
LEMMA RecordKeeps ==
  ASSUME AuditTypeOK, ChainInv, NEW u \in Users, NEW w \in Contents, Record(u, w)
  PROVE  AuditTypeOK' /\ ChainInv'
<1> PICK n \in Nat : n = Len(chain)
  BY DEF AuditTypeOK
<1> PICK e : e = [user |-> u, content |-> w, previous |-> history,
                  hash |-> Append(history, <<u, w>>)]
  OBVIOUS
<1>1. chain' = Append(chain, e) /\ history' = Append(history, <<u, w>>)
  BY LatestIsHistory DEF Record, HashOf
<1>2. e \in Event
  BY DEF AuditTypeOK, Event
<1>3. AuditTypeOK'
  BY <1>1, <1>2 DEF AuditTypeOK
<1>4. /\ Len(chain') = n + 1 /\ chain'[n + 1] = e /\ Len(history) = n /\ Len(history') = n + 1
      /\ history'[n + 1] = <<u, w>> /\ \A i \in 1 .. n : history'[i] = history[i]
      /\ \A j \in 1 .. n : chain'[j] = chain[j]
  BY <1>1, <1>2 DEF AuditTypeOK
<1>5. ASSUME NEW j \in 1 .. n
      PROVE  /\ Begins(chain'[j].previous, history', j - 1) /\ Begins(chain'[j].hash, history', j)
             /\ chain'[j].user = history'[j][1]
  <2>1. /\ Begins(chain[j].previous, history, j - 1) /\ Begins(chain[j].hash, history, j)
        /\ chain[j].user = history[j][1]
    BY DEF ChainInv
  <2>2. chain'[j] = chain[j] /\ history'[j] = history[j]
    BY <1>4
  <2>3. ASSUME NEW s, NEW m \in 0 .. n, Begins(s, history, m)
        PROVE  Begins(s, history', m)
    <3>1. /\ s \in Seq(Users \X Contents) /\ Len(s) = m
          /\ \A i \in 1 .. m : s[i] = history[i]
      BY <2>3 DEF Begins
    <3>2. \A i \in 1 .. m : history'[i] = history[i]
      BY <1>4
    <3> QED
      BY <3>1, <3>2 DEF Begins
  <2>4. j - 1 \in 0 .. n /\ j \in 0 .. n
    OBVIOUS
  <2> QED
    BY <2>1, <2>2, <2>3, <2>4
<1>6. /\ Begins(e.previous, history', n) /\ Begins(e.hash, history', n + 1)
      /\ e.user = history'[n + 1][1]
  <2>1. /\ history \in Seq(Users \X Contents) /\ history' \in Seq(Users \X Contents)
        /\ e.previous = history /\ e.hash = history'
    BY <1>1, <1>3 DEF AuditTypeOK
  <2> QED
    BY <1>4, <2>1 DEF Begins
<1>7. ASSUME NEW j \in 1 .. Len(chain')
      PROVE  /\ Begins(chain'[j].previous, history', j - 1) /\ Begins(chain'[j].hash, history', j)
             /\ chain'[j].user = history'[j][1]
  <2>1. CASE j \in 1 .. n
    BY <1>5, <2>1, Zenon
  <2>2. CASE j = n + 1
    <3>1. j - 1 = n /\ chain'[j] = e
      BY <1>4, <2>2
    <3> QED
      BY <1>6, <2>2, <3>1, Zenon
  <2> QED
    BY <1>4, <2>1, <2>2
<1> QED
  BY <1>3, <1>7, Zenon DEF ChainInv

\* An edit changes neither a hash nor a user.
LEMMA EditKeeps ==
  ASSUME AuditTypeOK, ChainInv, NEW i \in DOMAIN chain, NEW w \in Contents, Edit(i, w)
  PROVE  AuditTypeOK' /\ ChainInv'
<1>1. /\ chain' = [chain EXCEPT ![i].content = w] /\ history' = history
      /\ DOMAIN chain = 1 .. Len(chain) /\ Len(chain) \in Nat
  BY DEF Edit, AuditTypeOK
<1>2. \A j \in 1 .. Len(chain) : chain[j] \in Event
  BY ElementOfSeq, Zenon DEF AuditTypeOK
<1> PICK e : e = [chain[i] EXCEPT !.content = w]
  OBVIOUS
<1>3. e \in Event /\ e.previous = chain[i].previous /\ e.hash = chain[i].hash
      /\ e.user = chain[i].user
  BY <1>1, <1>2 DEF Event
<1>4. chain' \in Seq(Event) /\ Len(chain') = Len(chain)
      /\ chain'[i] = e /\ \A j \in 1 .. Len(chain) : j # i => chain'[j] = chain[j]
  <2>1. chain' = [chain EXCEPT ![i] = e]
    BY <1>1
  <2> QED
    BY <1>1, <1>3, <2>1, ExceptSeq DEF AuditTypeOK
<1>5. AuditTypeOK'
  BY <1>1, <1>4 DEF AuditTypeOK
<1>6. \A j \in 1 .. Len(chain) : /\ chain'[j].previous = chain[j].previous
                                 /\ chain'[j].hash = chain[j].hash
                                 /\ chain'[j].user = chain[j].user
  BY <1>3, <1>4
<1>8. ASSUME NEW j \in 1 .. Len(chain)
      PROVE  /\ Begins(chain'[j].previous, history', j - 1) /\ Begins(chain'[j].hash, history', j)
             /\ chain'[j].user = history'[j][1]
  <2>1. /\ Begins(chain[j].previous, history, j - 1) /\ Begins(chain[j].hash, history, j)
        /\ chain[j].user = history[j][1]
    BY DEF ChainInv
  <2> QED
    BY <1>1, <1>6, <2>1
<1> QED
  BY <1>4, <1>5, <1>8, Zenon DEF ChainInv

\* Both hold from the beginning and are kept.
LEMMA AuditInvCorrect == AuditSpec => [](AuditTypeOK /\ ChainInv)
<1>1. AuditInit => AuditTypeOK /\ ChainInv
  BY DEF AuditInit, AuditTypeOK, ChainInv
<1>2. AuditTypeOK /\ ChainInv /\ [AuditNext]_auditVars => AuditTypeOK' /\ ChainInv'
  <2> SUFFICES ASSUME AuditTypeOK, ChainInv, [AuditNext]_auditVars
               PROVE  AuditTypeOK' /\ ChainInv'
    OBVIOUS
  <2>1. CASE UNCHANGED auditVars
    <3>1. chain' = chain /\ history' = history
      BY <2>1 DEF auditVars
    <3> QED
      BY <3>1, Zenon DEF AuditTypeOK, ChainInv, Begins
  <2> QED
    BY <2>1, RecordKeeps, EditKeeps DEF AuditNext
<1> QED
  BY <1>1, <1>2, PTL DEF AuditSpec

\* Types.
THEOREM AuditTypesCorrect == AuditSpec => []AuditTypeOK
BY AuditInvCorrect, PTL

-----------------------------------------------------------------------------------
(* Listings of the audit log.                                              *)

\* A set of natural numbers has a least element.
LEMMA Least ==
  ASSUME NEW T \in SUBSET Nat, T # {}
  PROVE  \E x \in T : \A y \in T : x <= y
<1> DEFINE R == {ss \in Nat \X Nat : ss[1] < ss[2]}
<1>1. IsWellFoundedOn(R, Nat)
  BY NatLessThanWellFounded, Zenon DEF OpToRel
<1>2. \A x, y \in Nat : y < x => <<y, x>> \in R
  OBVIOUS
<1> HIDE DEF R
<1>3. PICK x \in T : \A y \in T : ~(<<y, x>> \in R)
  BY <1>1, WFMin
<1>4. ASSUME NEW y \in T PROVE x <= y
  <2>1. ~(y < x)
    BY <1>2, <1>3
  <2> QED
    BY <2>1
<1> QED
  BY <1>4

\* m rows of a table of n, oldest first.
Rows(at, m, n) ==
  at \in [1 .. m -> 1 .. n] /\ \A j, k \in 1 .. m : j < k => at[j] < at[k]

\* A row is among them, or older than all of them, which are as many as were asked for.
Reaches(at, m, q, limit) ==
  \/ \E k \in 1 .. m : at[k] = q
  \/ m = limit /\ \A k \in 1 .. m : q < at[k]

\* And so is every row of a table of n.
ReachesAll(at, m, n, limit) == \A q \in 1 .. n : Reaches(at, m, q, limit)

\* They are the listing read backwards, and reach all of the user's rows.
AreListed(at, m, events, user, limit) ==
  /\ Len(events) = m /\ DOMAIN Reverse(events) = 1 .. m
  /\ \A k \in 1 .. m : Reverse(events)[k] = chain[at[k]]
  /\ \A q \in 1 .. Len(chain) : chain[q].user = user => Reaches(at, m, q, limit)

\* A listing is some rows, oldest first, which is how verify reads them.
LEMMA OldestFirst ==
  ASSUME AuditTypeOK, NEW user, NEW limit \in Nat, NEW events \in ListAudit(user, limit)
  PROVE  \E m \in 0 .. limit : \E at :
           Rows(at, m, Len(chain)) /\ AreListed(at, m, events, user, limit)
<1> PICK n \in Nat : n = Len(chain) /\ DOMAIN chain = 1 .. n
  BY DEF AuditTypeOK
<1>1. PICK rowids \in SeqOf(1 .. n, limit) :
        Selects(rowids, user, limit) /\ events = [i \in DOMAIN rowids |-> chain[rowids[i]]]
  BY DEF ListAudit
<1>2. PICK m \in 0 .. limit : rowids \in [1 .. m -> 1 .. n]
  BY <1>1 DEF SeqOf
<1>3. /\ DOMAIN rowids = 1 .. m /\ Len(rowids) = m /\ m \in Nat
      /\ \A i \in 1 .. m : rowids[i] \in 1 .. n
  BY <1>2
<1>4. /\ \A i, j \in 1 .. m : i < j => rowids[j] < rowids[i]
      /\ \A k \in 1 .. n : chain[k].user = user =>
           \/ \E i \in 1 .. m : rowids[i] = k
           \/ m = limit /\ \A i \in 1 .. m : k < rowids[i]
  BY <1>1, <1>3 DEF Selects
<1>5. DOMAIN events = 1 .. m /\ Len(events) = m
      /\ \A i \in 1 .. m : events[i] = chain[rowids[i]]
  BY <1>1, <1>3
<1>6. /\ DOMAIN Reverse(events) = 1 .. m /\ Len(Reverse(events)) = m
      /\ \A k \in 1 .. m : Reverse(events)[k] = chain[rowids[(m - k) + 1]]
  BY <1>3, <1>5 DEF Reverse
<1> PICK at : at = [k \in 1 .. m |-> rowids[(m - k) + 1]]
  OBVIOUS
<1>7. \A k \in 1 .. m : (m - k) + 1 \in 1 .. m
  BY <1>3
<1>8. at \in [1 .. m -> 1 .. n] /\ \A k \in 1 .. m : at[k] = rowids[(m - k) + 1]
  BY <1>3, <1>7
<1>9. \A i \in 1 .. m : rowids[i] = at[(m - i) + 1]
  BY <1>3, <1>7, <1>8
<1>10. ASSUME NEW j \in 1 .. m, NEW k \in 1 .. m, j < k PROVE at[j] < at[k]
  <2>1. (m - k) + 1 < (m - j) + 1
    BY <1>3, <1>10
  <2> QED
    BY <1>4, <1>7, <1>8, <2>1
<1>11. ASSUME NEW q \in 1 .. n, chain[q].user = user
       PROVE  \/ \E k \in 1 .. m : at[k] = q
              \/ m = limit /\ \A k \in 1 .. m : q < at[k]
  BY <1>4, <1>7, <1>8, <1>9, <1>11
<1>12. Rows(at, m, n)
  BY <1>8, <1>10 DEF Rows
<1>13. AreListed(at, m, events, user, limit)
  <2>1. \A q \in 1 .. n : chain[q].user = user => Reaches(at, m, q, limit)
    BY <1>11, Zenon DEF Reaches
  <2> QED
    BY <1>5, <1>6, <1>8, <2>1 DEF AreListed
<1> QED
  BY <1>12, <1>13

\* Rows that continue one another from the beginning are the first rows of the table.
LEMMA LinkedFromGenesis ==
  ASSUME AuditTypeOK, ChainInv, NEW m \in Nat, NEW at \in [1 .. m -> 1 .. Len(chain)],
         \A k \in 1 .. m :
           chain[at[k]].previous = IF k = 1 THEN Genesis ELSE chain[at[k - 1]].hash
  PROVE  \A k \in 1 .. m : at[k] = k
<1> DEFINE T == {k \in 1 .. m : at[k] # k}
<1> SUFFICES ASSUME T # {} PROVE FALSE
  OBVIOUS
<1>1. T \in SUBSET Nat
  OBVIOUS
<1>2. PICK k \in T : \A y \in T : k <= y
  BY <1>1, Least
<1>3. k \in 1 .. m /\ at[k] # k /\ at[k] \in 1 .. Len(chain) /\ Len(chain) \in Nat
  BY DEF AuditTypeOK
<1>4. Len(chain[at[k]].previous) = at[k] - 1
  BY <1>3 DEF ChainInv, Begins
<1>5. CASE k = 1
  <2>1. Len(chain[at[k]].previous) = 0
    BY <1>3, <1>5 DEF Genesis
  <2> QED
    BY <1>3, <1>4, <1>5, <2>1
<1>6. CASE k # 1
  <2>1. k - 1 \in 1 .. m /\ at[k - 1] = k - 1
    <3>1. k - 1 \in 1 .. m
      BY <1>3, <1>6
    <3>2. ~(k <= k - 1)
      BY <1>3
    <3> QED
      BY <1>2, <3>1, <3>2
  <2>2. k - 1 \in 1 .. Len(chain) /\ chain[at[k]].previous = chain[k - 1].hash
    BY <1>3, <1>6, <2>1
  <2>3. Len(chain[k - 1].hash) = k - 1
    BY <2>2 DEF ChainInv, Begins
  <2> QED
    BY <1>3, <1>4, <2>2, <2>3
<1> QED
  BY <1>5, <1>6

\* AuditService.verify: a listing that verifies is the beginning of the record, word for
\* word, whatever was edited, for any users, contents, limits and listings.
THEOREM VerifiedCorrect == AuditSpec => []VerifiedListingIsTrue
<1>1. ASSUME AuditTypeOK, ChainInv PROVE VerifiedListingIsTrue
  <2> SUFFICES ASSUME NEW u \in Users, NEW limit \in 1 .. MaxLimit,
                      NEW events \in ListAudit(u, limit), Verify(events)
               PROVE  Said(Reverse(events)) = SubSeq(history, 1, Len(events))
    BY DEF VerifiedListingIsTrue, Listings
  <2>1. limit \in Nat
    OBVIOUS
  <2>2. PICK m \in 0 .. limit : \E at :
          Rows(at, m, Len(chain)) /\ AreListed(at, m, events, u, limit)
    BY <1>1, <2>1, OldestFirst
  <2> PICK at : Rows(at, m, Len(chain)) /\ AreListed(at, m, events, u, limit)
    BY <2>2
  <2>3. /\ at \in [1 .. m -> 1 .. Len(chain)]
        /\ Len(events) = m /\ DOMAIN Reverse(events) = 1 .. m
        /\ \A k \in 1 .. m : Reverse(events)[k] = chain[at[k]]
    BY DEF Rows, AreListed
  <2>4. ASSUME NEW k \in 1 .. m
        PROVE  /\ chain[at[k]].previous = IF k = 1 THEN Genesis ELSE chain[at[k - 1]].hash
               /\ chain[at[k]].hash = Append(chain[at[k]].previous,
                                             <<chain[at[k]].user, chain[at[k]].content>>)
    <3>1. k # 1 => k - 1 \in 1 .. m
      BY <2>1
    <3> PICK rev : rev = Reverse(events)
      OBVIOUS
    <3>2. /\ rev[k].previous = IF k = 1 THEN Genesis ELSE rev[k - 1].hash
          /\ rev[k].hash = Append(rev[k].previous, <<rev[k].user, rev[k].content>>)
      BY <2>3 DEF Verify, HashOf
    <3>3. rev[k] = chain[at[k]] /\ (k # 1 => rev[k - 1] = chain[at[k - 1]])
      BY <2>3, <3>1
    <3> QED
      BY <3>2, <3>3
  <2>5. m \in Nat /\ \A k \in 1 .. m : at[k] = k
    <3>1. m \in Nat
      BY <2>1
    <3>2. \A k \in 1 .. m :
            chain[at[k]].previous = IF k = 1 THEN Genesis ELSE chain[at[k - 1]].hash
      BY <2>4
    <3> QED
      BY <1>1, <2>3, <3>1, <3>2, LinkedFromGenesis
  <2>6. ASSUME NEW k \in 1 .. m
        PROVE  <<chain[k].user, chain[k].content>> = history[k] /\ k \in 1 .. Len(chain)
    <3>1. k \in 1 .. Len(chain) /\ Len(chain) \in Nat /\ k \in Nat
      BY <1>1, <2>3, <2>5 DEF AuditTypeOK
    <3>2. /\ Begins(chain[k].previous, history, k - 1) /\ Begins(chain[k].hash, history, k)
      BY <1>1, <3>1 DEF ChainInv
    <3>3. chain[k].hash = Append(chain[k].previous, <<chain[k].user, chain[k].content>>)
      BY <2>4, <2>5
    <3> PICK p, w : p = chain[k].previous /\ w = <<chain[k].user, chain[k].content>>
      OBVIOUS
    <3>4. Len(p) = k - 1 /\ p \in Seq(Users \X Contents)
      BY <3>2 DEF Begins
    <3>5. Append(p, w)[k] = w
      BY <3>1, <3>4
    <3> QED
      BY <3>1, <3>2, <3>3, <3>5 DEF Begins
  <2>7. /\ SubSeq(history, 1, m) \in [1 .. m -> Users \X Contents]
        /\ \A k \in 1 .. m : SubSeq(history, 1, m)[k] = history[k]
    <3>1. m <= Len(history) /\ history \in Seq(Users \X Contents) /\ Len(history) \in Nat
      <4>1. m \in 1 .. m => m <= Len(chain)
        BY <2>5, <2>6
      <4> QED
        BY <1>1, <2>5, <4>1 DEF AuditTypeOK
    <3>2. /\ SubSeq(history, 1, m) \in Seq(Users \X Contents)
          /\ Len(SubSeq(history, 1, m)) = m
          /\ \A k \in 1 .. m : SubSeq(history, 1, m)[k] = history[k]
      BY <2>5, <3>1
    <3> PICK q : q = SubSeq(history, 1, m)
      OBVIOUS
    <3>3. q \in Seq(Users \X Contents) /\ Len(q) = m /\ \A k \in 1 .. m : q[k] = history[k]
      BY <3>2
    <3>4. q \in [1 .. m -> Users \X Contents]
      <4>1. q \in [1 .. Len(q) -> Users \X Contents]
        BY <3>3, LenProperties, Zenon
      <4> QED
        BY <3>3, <4>1, Zenon
    <3> QED
      BY <3>3, <3>4
  <2>8. /\ DOMAIN Said(Reverse(events)) = 1 .. m
        /\ \A k \in 1 .. m : Said(Reverse(events))[k] = history[k]
    BY <2>3, <2>5, <2>6 DEF Said
  <2>9. Said(Reverse(events)) = [k \in 1 .. m |-> history[k]]
    BY <2>3, <2>5, <2>6 DEF Said
  <2>10. SubSeq(history, 1, m) = [k \in 1 .. m |-> history[k]]
    BY <2>7
  <2> QED
    BY <2>3, <2>9, <2>10
<1> QED
  BY <1>1, AuditInvCorrect, PTL

\* Nothing of a table that fits the listing is left out: its rows are read one by one.
LEMMA NothingLeftOut ==
  ASSUME NEW n \in Nat, NEW m \in Nat, NEW limit \in Nat, n <= limit,
         NEW at, Rows(at, m, n), ReachesAll(at, m, n, limit)
  PROVE  \A k \in 1 .. m : at[k] = k
<1> DEFINE T == {k \in 1 .. m : at[k] # k}
<1> SUFFICES ASSUME T # {} PROVE FALSE
  OBVIOUS
<1> at \in [1 .. m -> 1 .. n] /\ \A j, k \in 1 .. m : j < k => at[j] < at[k]
  BY DEF Rows
<1> \A q \in 1 .. n : \/ \E i \in 1 .. m : at[i] = q
                      \/ m = limit /\ \A i \in 1 .. m : q < at[i]
  BY Zenon DEF ReachesAll, Reaches
<1>1. T \in SUBSET Nat
  OBVIOUS
<1>2. PICK k \in T : \A y \in T : k <= y
  BY <1>1, Least
<1>3. k \in 1 .. m /\ at[k] # k /\ at[k] \in 1 .. n
  OBVIOUS
<1>4. \A j \in 1 .. m : j < k => at[j] = j
  BY <1>2, <1>3
<1> HIDE DEF T
<1>5. at[k] > k
  <2>1. CASE k = 1
    BY <1>3, <2>1
  <2>2. CASE k # 1
    <3>1. k - 1 \in 1 .. m /\ k - 1 < k
      BY <1>3, <2>2
    <3>2. at[k - 1] = k - 1 /\ at[k - 1] < at[k]
      BY <1>3, <1>4, <3>1
    <3> QED
      BY <1>3, <3>1, <3>2
  <2> QED
    BY <2>1, <2>2
<1>6. k \in 1 .. n /\ \A j \in 1 .. m : at[j] # k
  <2>1. ASSUME NEW j \in 1 .. m PROVE at[j] # k
    <3>1. CASE j < k
      BY <1>4, <3>1
    <3>2. CASE j = k
      BY <1>3, <3>2
    <3>3. CASE k < j
      <4>1. at[k] < at[j] /\ at[j] \in 1 .. n
        BY <1>3, <3>3
      <4> QED
        BY <1>3, <1>5, <4>1
    <3> QED
      BY <1>3, <3>1, <3>2, <3>3
  <2> QED
    BY <1>3, <1>5, <2>1
<1>7. m = limit
  BY <1>6
<1> DEFINE U == {j \in 1 .. m : k <= j /\ at[j] <= j}
<1>8. U = {}
  <2> SUFFICES ASSUME U # {} PROVE FALSE
    OBVIOUS
  <2>1. U \in SUBSET Nat
    OBVIOUS
  <2>2. PICK j \in U : \A y \in U : j <= y
    BY <2>1, Least
  <2>3. j \in 1 .. m /\ k <= j /\ at[j] <= j /\ j # k /\ at[j] \in 1 .. n
    BY <1>3, <1>5
  <2>4. j - 1 \in 1 .. m /\ k <= j - 1 /\ j - 1 < j /\ ~(j <= j - 1)
    BY <1>3, <2>3
  <2>5. ~(at[j - 1] <= j - 1) /\ at[j - 1] \in 1 .. n
    BY <2>2, <2>4
  <2>6. at[j - 1] < at[j]
    BY <2>3, <2>4
  <2> QED
    BY <2>3, <2>4, <2>5, <2>6
<1>9. m \in 1 .. m /\ k <= m /\ at[m] \in 1 .. n
  BY <1>3
<1>10. ~(at[m] <= m)
  BY <1>8, <1>9
<1> QED
  BY <1>7, <1>9, <1>10

\* AuditService.verify: the whole log of a server's only user verifies unless a row was
\* edited, for any table that fits a listing.
THEOREM SoleUsersCorrect == AuditSpec => []SoleUsersLogVerifies
<1>1. ASSUME AuditTypeOK, ChainInv PROVE SoleUsersLogVerifies
  <2> SUFFICES ASSUME NEW u \in Users, Said(chain) = history, Len(chain) <= MaxLimit,
                      \A i \in DOMAIN chain : chain[i].user = u,
                      NEW events \in ListAudit(u, MaxLimit)
               PROVE  Verify(events)
    BY DEF SoleUsersLogVerifies
  <2> PICK n \in Nat : n = Len(chain) /\ DOMAIN chain = 1 .. n
    BY <1>1 DEF AuditTypeOK
  <2>1. MaxLimit \in Nat
    BY AuditAssumption
  <2>2. PICK m \in 0 .. MaxLimit : \E at :
          Rows(at, m, Len(chain)) /\ AreListed(at, m, events, u, MaxLimit)
    BY <1>1, <2>1, OldestFirst
  <2> PICK at : Rows(at, m, Len(chain)) /\ AreListed(at, m, events, u, MaxLimit)
    BY <2>2
  <2>3. /\ Rows(at, m, n) /\ at \in [1 .. m -> 1 .. n]
        /\ DOMAIN Reverse(events) = 1 .. m
        /\ \A k \in 1 .. m : Reverse(events)[k] = chain[at[k]]
        /\ \A q \in 1 .. n : Reaches(at, m, q, MaxLimit)
    BY DEF Rows, AreListed
  <2>4. m \in Nat /\ \A k \in 1 .. m : at[k] = k /\ k \in 1 .. n
    <3>1. m \in Nat /\ n <= MaxLimit
      <4>1. m \in Nat
        BY <2>1
      <4>2. n <= MaxLimit
        BY Zenon
      <4> QED
        BY <4>1, <4>2, Zenon
    <3>2. \A k \in 1 .. m : at[k] = k
      <4>1. Rows(at, m, n) /\ ReachesAll(at, m, n, MaxLimit)
        BY <2>3, Zenon DEF ReachesAll
      <4> QED
        BY <2>1, <3>1, <4>1, NothingLeftOut
    <3> QED
      BY <2>3, <3>1, <3>2
  <2> PICK rev : rev = Reverse(events)
    OBVIOUS
  <2>5. \A k \in 1 .. m : rev[k] = chain[k]
    BY <2>3, <2>4
  <2>6. ASSUME NEW k \in 1 .. m
        PROVE  /\ rev[k].previous = IF k = 1 THEN Genesis ELSE rev[k - 1].hash
               /\ rev[k].hash = Append(rev[k].previous, <<rev[k].user, rev[k].content>>)
    <3>1. k \in 1 .. n /\ k \in Nat /\ rev[k] = chain[k]
      BY <2>4, <2>5
    <3>2. Begins(chain[k].previous, history, k - 1) /\ Begins(chain[k].hash, history, k)
      BY <1>1, <3>1 DEF ChainInv
    <3>3. history[k] = <<chain[k].user, chain[k].content>>
      BY <3>1 DEF Said
    <3> PICK p, h, w : p = chain[k].previous /\ h = chain[k].hash /\ w = history[k]
      OBVIOUS
    <3>4. /\ p \in Seq(Users \X Contents) /\ h \in Seq(Users \X Contents)
          /\ Len(p) = k - 1 /\ Len(h) = k
          /\ \A i \in 1 .. k - 1 : p[i] = history[i]
          /\ \A i \in 1 .. k : h[i] = history[i]
      BY <3>2 DEF Begins
    <3>5. h = Append(p, w)
      <4>1. w \in Users \X Contents
        BY <3>1, <3>4
      <4>2. /\ Append(p, w) \in Seq(Users \X Contents) /\ Len(Append(p, w)) = k
            /\ Append(p, w)[k] = w /\ \A i \in 1 .. k - 1 : Append(p, w)[i] = p[i]
        BY <3>1, <3>4, <4>1
      <4>3. \A i \in 1 .. k : h[i] = Append(p, w)[i]
        BY <3>1, <3>4, <4>2
      <4> QED
        BY <3>4, <4>2, <4>3, SeqEqual
    <3>6. CASE k = 1
      <4>1. Len(p) = 0
        BY <3>4, <3>6
      <4>2. p = Genesis
        BY <3>4, <4>1 DEF Genesis
      <4> QED
        BY <3>1, <3>3, <3>5, <3>6, <4>2
    <3>7. CASE k # 1
      <4>1. k - 1 \in 1 .. n /\ k - 1 \in 1 .. m /\ rev[k - 1] = chain[k - 1]
        BY <2>5, <3>1, <3>7
      <4> PICK g : g = chain[k - 1].hash
        OBVIOUS
      <4>2. /\ g \in Seq(Users \X Contents) /\ Len(g) = k - 1
            /\ \A i \in 1 .. k - 1 : g[i] = history[i]
        BY <1>1, <4>1 DEF ChainInv, Begins
      <4>3. \A i \in 1 .. Len(p) : p[i] = g[i]
        <5>1. Len(p) = k - 1
          BY <3>4
        <5>2. \A i \in 1 .. k - 1 : p[i] = g[i]
          BY <3>4, <4>2, Zenon
        <5> QED
          BY <5>1, <5>2, Zenon
      <4>4. p = g
        <5>1. Len(p) = Len(g)
          BY <3>4, <4>2
        <5> QED
          BY <3>4, <4>2, <4>3, <5>1, SeqEqual, Zenon
      <4> QED
        BY <3>1, <3>3, <3>5, <3>7, <4>1, <4>4
    <3> QED
      BY <3>6, <3>7
  <2> QED
    BY <2>3, <2>6 DEF Verify, HashOf
<1> QED
  BY <1>1, AuditInvCorrect, PTL

====================================================================================
