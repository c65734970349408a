------------------------------ MODULE MCAgentSpending ------------------------------
EXTENDS AgentSpending, TLC

CONSTANTS a, shop, other, contract

Draft(name, daily, each, threshold, to) ==
  [agentId |-> a, name |-> name, dailyLimit |-> daily, perTransactionLimit |-> each,
   approvalThreshold |-> threshold, validUntil |-> 1, tokenAllowlist |-> {"POL"},
   networkAllowlist |-> {"POLYGON"}, allowedRecipients |-> to,
   merchantAllowlist |-> {}, allowedMerchantCategories |-> {}]

\* The agent's request needs approval under the first draft and none under the second;
\* whichever is saved first governs.
MCDrafts == {Draft("Budget", 2, 2, 1, {shop}), Draft("Extra", 3, 2, 2, {})}
MCSeed == <<>>

Request(agent, amount, to) ==
  [agentId |-> agent, amount |-> amount, token |-> "POL", network |-> "POLYGON",
   recipient |-> to, merchantId |-> "none", merchantCategory |-> "none", risk |-> "LOW"]

\* The agent's contract call alone spends the larger limit.
MCContractCalls == {Request(a, 3, contract)}

MCRequests == {Request(a, 1, other), Request(a, 2, shop), Request(NoAgent, 2, other)}
                \cup MCContractCalls

Symmetry == Permutations(Keys) \cup Permutations(Calls)
====================================================================================
