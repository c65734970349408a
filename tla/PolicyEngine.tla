-------------------------------- MODULE PolicyEngine --------------------------------
(***************************************************************************)
(* evaluatePolicy: the decision about one payment request, a function of   *)
(* the request, what is known when it is asked and the user's policies in  *)
(* the order listPolicies returns them.  A policy holds the terms of the   *)
(* draft it was made from.  Amounts are in base units.                     *)
(***************************************************************************)
EXTENDS Integers, Sequences

CONSTANT NoAgent   \* the request names no agent: the wallet owner asks

\* An empty list of recipients, merchants or categories allows every one.
ListedOrAny(list, x) == list = {} \/ x \in list

\* Mutants of Permits: the enabled flag not looked at; today's spending compared
\* without the payment itself.
PermitsRevoked(p, ctx) ==
  /\ p.validFrom <= ctx.now /\ ctx.now <= p.terms.validUntil
  /\ ctx.amount <= p.terms.perTransactionLimit
  /\ ctx.spentToday + ctx.amount <= p.terms.dailyLimit
PermitsUpToLimit(p, ctx) ==
  /\ p.enabled
  /\ p.validFrom <= ctx.now /\ ctx.now <= p.terms.validUntil
  /\ ctx.amount <= p.terms.perTransactionLimit
  /\ ctx.spentToday <= p.terms.dailyLimit

\* Every check a policy makes on a request, for which each has its own reason code.
Permits(p, ctx) ==
  /\ p.enabled
  /\ p.validFrom <= ctx.now /\ ctx.now <= p.terms.validUntil
  /\ ctx.token \in p.terms.tokenAllowlist
  /\ ctx.network \in p.terms.networkAllowlist
  /\ ListedOrAny(p.terms.allowedRecipients, ctx.recipient)
  /\ ListedOrAny(p.terms.merchantAllowlist, ctx.merchantId)
  /\ ListedOrAny(p.terms.allowedMerchantCategories, ctx.merchantCategory)
  /\ ctx.amount <= p.terms.perTransactionLimit
  /\ ctx.spentToday + ctx.amount <= p.terms.dailyLimit

\* policies.find: the first policy of the agent, whether or not it is enabled.
Governs(policies, i, agent) ==
  /\ i \in DOMAIN policies
  /\ policies[i].terms.agentId = agent
  /\ \A j \in DOMAIN policies : j < i => policies[j].terms.agentId # agent

\* Whether some policy governs the request and permits it.
Permitted(ctx, policies) ==
  \E i \in DOMAIN policies :
    Governs(policies, i, ctx.agentId) /\ Permits(policies[i], ctx)

\* Mutant of NeedsApproval: compared with the limit for one payment.
NeedsApprovalOverLimit(ctx, policies) ==
  \E i \in DOMAIN policies :
    /\ Governs(policies, i, ctx.agentId)
    /\ ctx.amount > policies[i].terms.perTransactionLimit

\* Whether the governing policy leaves the decision to the user.
NeedsApproval(ctx, policies) ==
  \E i \in DOMAIN policies : /\ Governs(policies, i, ctx.agentId)
                             /\ ctx.amount > policies[i].terms.approvalThreshold

Decision(ctx, policies) ==
  IF ctx.risk = "HIGH" \/ ctx.amount > ctx.available THEN "BLOCKED"
  ELSE IF ctx.agentId = NoAgent THEN "HUMAN_APPROVAL_REQUIRED"
  ELSE IF ~Permitted(ctx, policies) THEN "BLOCKED"
  ELSE IF NeedsApproval(ctx, policies) THEN "HUMAN_APPROVAL_REQUIRED"
  ELSE "AUTO_APPROVED"
====================================================================================
