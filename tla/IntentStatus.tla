------------------------------- MODULE IntentStatus -------------------------------
(***************************************************************************)
(* The status table every payment intent is written under                  *)
(* (packages/aifinpay-adapter/src/state-machine.ts) and the walk the       *)
(* payment service takes through it after a broadcast.                     *)
(***************************************************************************)
EXTENDS Naturals, Sequences

Statuses == {"DRAFT", "REQUIRES_CONFIRMATION", "AUTO_APPROVED", "BLOCKED",
             "CONFIRMED", "SIGNING", "SUBMITTED", "PENDING", "COMPLETED",
             "FAILED", "CANCELLED", "EXPIRED"}

\* The decisions evaluatePolicy can take, as prepare stores them.
Decisions == {"REQUIRES_CONFIRMATION", "AUTO_APPROVED", "BLOCKED"}

\* The pairs <<from, to>> of the transitions record.
Transitions ==
  UNION { {"DRAFT"} \X (Decisions \cup {"EXPIRED"}),
          {"REQUIRES_CONFIRMATION", "AUTO_APPROVED"}
             \X {"CONFIRMED", "CANCELLED", "EXPIRED"},
          {"CONFIRMED"} \X {"SIGNING", "CANCELLED"},
          {"SIGNING"} \X {"SUBMITTED", "FAILED"},
          {"SUBMITTED"} \X {"PENDING", "COMPLETED", "FAILED"},
          {"PENDING"} \X {"COMPLETED", "FAILED"} }

CanTransition(from, to) == <<from, to>> \in Transitions

\* The statuses a record can move through to, in any number of transitions:
\* the members of every set that holds `from` and is closed under the table.
Reachable ==
  [from \in Statuses |->
     { to \in Statuses : \A S \in SUBSET Statuses :
         (from \in S /\ \A t \in Transitions : t[1] \in S => t[2] \in S)
           => to \in S }]

\* assertTransition at every step of a walk that starts at `from`.
LegalWalk(from, path) ==
  \A i \in 1 .. Len(path) :
    CanTransition(IF i = 1 THEN from ELSE path[i - 1], path[i])

\* `forward` of finalizeVaultBroadcast: what remains before SUBMITTED. It is
\* empty for every status that is not on the way there.
Forward(status) ==
  CASE status \in {"REQUIRES_CONFIRMATION", "AUTO_APPROVED"}
         -> <<"CONFIRMED", "SIGNING", "SUBMITTED">>
    [] status = "CONFIRMED" -> <<"SIGNING", "SUBMITTED">>
    [] status = "SIGNING" -> <<"SUBMITTED">>
    [] OTHER -> << >>

\* Mutant of CanFinalize: statuses assigned without assertTransition.
CanAlwaysFinalize(status, outcome) == TRUE

\* finalizeVaultBroadcast completes only if no transition of its walk throws.
CanFinalize(status, outcome) == LegalWalk(status, Append(Forward(status), outcome))
===============================================================================
