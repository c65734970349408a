--------------------------- MODULE PaymentIntentsProofs ---------------------------
(***************************************************************************)
(* Theorems about PaymentIntents, for every set of keys, requests and      *)
(* handler slots and every bound.                                          *)
(***************************************************************************)
EXTENDS PaymentIntents, TLAPS

-----------------------------------------------------------------------------
(* What the status table says of the walk finalizeVaultBroadcast takes.    *)

\* The table has one way into PENDING.
LEMMA IntoPending ==
  ASSUME NEW s, CanTransition(s, "PENDING") PROVE s = "SUBMITTED"
  <1>1. \/ <<s, "PENDING">> \in {"DRAFT"} \X (Decisions \cup {"EXPIRED"})
        \/ <<s, "PENDING">> \in {"REQUIRES_CONFIRMATION", "AUTO_APPROVED"}
                                 \X {"CONFIRMED", "CANCELLED", "EXPIRED"}
        \/ <<s, "PENDING">> \in {"CONFIRMED"} \X {"SIGNING", "CANCELLED"}
        \/ <<s, "PENDING">> \in {"SIGNING"} \X {"SUBMITTED", "FAILED"}
        \/ <<s, "PENDING">> \in {"SUBMITTED"} \X {"PENDING", "COMPLETED", "FAILED"}
        \/ <<s, "PENDING">> \in {"PENDING"} \X {"COMPLETED", "FAILED"}
    BY DEF CanTransition, Transitions
  <1> QED
    BY <1>1 DEF Decisions

\* finalizeVaultBroadcast only completes from a status on the way to SUBMITTED.
LEMMA FinalizesFrom ==
  ASSUME NEW s, CanFinalize(s, "PENDING")
  PROVE  s \in {"REQUIRES_CONFIRMATION", "AUTO_APPROVED", "CONFIRMED", "SIGNING",
                "SUBMITTED"}
  <1> SUFFICES ASSUME s \notin {"REQUIRES_CONFIRMATION", "AUTO_APPROVED",
                                "CONFIRMED", "SIGNING"}
               PROVE  s = "SUBMITTED"
    OBVIOUS
  <1>1. Append(Forward(s), "PENDING") = <<"PENDING">>
    <2>1. Forward(s) = << >>
      BY Zenon DEF Forward
    <2> QED
      BY <2>1
  <1>2. CanTransition(s, "PENDING")
    BY <1>1 DEF CanFinalize, LegalWalk
  <1> QED
    BY <1>2, IntoPending

-----------------------------------------------------------------------------
USE DEF Statuses, Decisions

\* A saved record is a row: what Upsert stores for a typed request.
LEMMA UpsertType ==
  ASSUME TypeOK, NEW k \in Keys, NEW r \in Requests, NEW s \in Statuses,
         NEW e \in Nat, Upsert(k, r, s, e)
  PROVE  row' \in [Keys -> Row \cup {NoRow}]
  <1> DEFINE new == [request |-> IF row[k] = NoRow THEN r ELSE row[k].request,
                     req |-> r, status |-> s, expiresAt |-> e, tx |-> NoTx]
  <1>1. row[k] # NoRow => row[k].request \in Requests
    BY DEF TypeOK, Row
  <1>2. new \in Row
    BY <1>1 DEF Row
  <1> QED
    BY <1>2 DEF Upsert, TypeOK

\* What a broadcast begun or going on to the next node leaves: c awaits it, and only its
\* transaction may be new to the network.
Broadcasting(c, k, tx) ==
  /\ \E url \in 0 .. Endpoints, sent \in BOOLEAN, until \in Nat :
       /\ call' = [call EXCEPT ![c] = [op |-> "broadcast", key |-> k, tx |-> tx, url |-> url,
                                       sent |-> sent, until |-> until]]
       /\ handed' = IF sent THEN [handed EXCEPT ![k] = @ \cup {tx}] ELSE handed
  /\ UNCHANGED <<now, row, links, submitTokens, onChain, audit, approved, rewritten>>

LEMMA SubmitBroadcasts ==
  ASSUME TypeOK, NEW c \in Calls, NEW t \in submitTokens, SubmitStart(c, t)
  PROVE  Broadcasting(c, t.key, t.tx)
  <1>1. now \in Nat /\ now + RpcTimeout \in Nat /\ 0 \in 0 .. Endpoints /\ 1 \in 0 .. Endpoints
    BY ConstantsAssumption DEF TypeOK, Time
  <1>2. CASE t.tx.req \in Evm
    BY <1>1, <1>2 DEF SubmitStart, Suspend, Broadcasting
  <1>3. CASE t.tx.req \notin Evm
    BY <1>1, <1>3 DEF SubmitStart, Asks, Broadcasting
  <1> QED
    BY <1>2, <1>3

\* What a submission under way holds.
LEMMA SubmissionType ==
  ASSUME NEW x \in SuspendedCall \cup {Idle}, x.op = "broadcast"
  PROVE  /\ x.key \in Keys /\ x.tx \in Tx /\ x.url \in 0 .. Endpoints /\ x.until \in Nat
  <1>1. CASE x \in [op : {"broadcast"}, key : Keys, tx : Tx, url : 0 .. Endpoints,
                    sent : BOOLEAN, until : Nat]
    BY <1>1
  <1>2. CASE x \in [op : {"prepare"}, key : Keys, req : Requests]
    BY <1>2
  <1>3. CASE x \in [op : {"build"}, key : Keys, req : Requests, expiresAt : Nat]
    BY <1>3
  <1>4. CASE x = Idle
    BY <1>4 DEF Idle
  <1> QED
    BY <1>1, <1>2, <1>3, <1>4 DEF SuspendedCall

LEMMA AskBroadcasts ==
  ASSUME TypeOK, NEW c \in Calls, AskNext(c)
  PROVE  /\ call[c].key \in Keys /\ call[c].tx \in Tx
         /\ Broadcasting(c, call[c].key, call[c].tx)
  <1>1. call[c].key \in Keys /\ call[c].tx \in Tx /\ call[c].url \in 0 .. Endpoints
    <2>1. call[c] \in SuspendedCall \cup {Idle} /\ call[c].op = "broadcast"
      BY DEF AskNext, TypeOK
    <2> QED
      BY <2>1, SubmissionType
  <1>2. now + RpcTimeout \in Nat /\ call[c].url + 1 \in 0 .. Endpoints
    BY <1>1, ConstantsAssumption DEF TypeOK, Time, AskNext
  <1> QED
    BY <1>1, <1>2 DEF AskNext, Asks, Broadcasting

LEMMA BroadcastingTypes ==
  ASSUME TypeOK, NEW c \in Calls, NEW k \in Keys, NEW tx \in Tx, Broadcasting(c, k, tx),
         lastOpen' \in [Keys -> Time]
  PROVE  TypeOK'
  <1>1. PICK url \in 0 .. Endpoints, sent \in BOOLEAN, until \in Nat :
          /\ call' = [call EXCEPT ![c] = [op |-> "broadcast", key |-> k, tx |-> tx,
                                          url |-> url, sent |-> sent, until |-> until]]
          /\ handed' = IF sent THEN [handed EXCEPT ![k] = @ \cup {tx}] ELSE handed
    BY DEF Broadcasting
  <1>2. call' \in [Calls -> SuspendedCall \cup {Idle}]
    BY <1>1 DEF TypeOK, SuspendedCall
  <1>3. handed' \in [Keys -> SUBSET Tx]
    BY <1>1 DEF TypeOK
  <1> QED
    BY <1>2, <1>3 DEF Broadcasting, TypeOK

\* Only Tick moves the clock.
LEMMA ClockSteps ==
  ASSUME Next, ~Tick
  PROVE  now' = now
  <1>1. ASSUME NEW c \in Calls, NEW d \in Decisions, PrepareFinish(c, d) PROVE now' = now
    BY <1>1 DEF PrepareFinish
  <1>2. ASSUME NEW c \in Calls, BuildFinish(c) \/ SubmitFinish(c) PROVE now' = now
    BY <1>2 DEF BuildFinish, SubmitFinish
  <1>3. ASSUME NEW c \in Calls, AskNext(c) \/ CallFails(c) PROVE now' = now
    BY <1>3 DEF AskNext, CallFails
  <1>4. ASSUME NEW c \in Calls, NEW k \in Keys, NEW r \in Requests, PrepareStart(c, k, r)
        PROVE  now' = now
    BY <1>4 DEF PrepareStart
  <1>5. ASSUME NEW k \in Keys, NEW r \in Requests, NEW n \in 1 .. Ttl,
               PrepareContractCall(k, r, n)
        PROVE  now' = now
    BY <1>5 DEF PrepareContractCall
  <1>6. ASSUME NEW k \in Keys, IssueSignLink(k) \/ Cancel(k) PROVE now' = now
    BY <1>6 DEF IssueSignLink, Cancel
  <1>7. ASSUME NEW c \in Calls, NEW k \in Keys, NEW e \in links[k], BuildStart(c, k, e)
        PROVE  now' = now
    BY <1>7 DEF BuildStart
  <1>8. ASSUME NEW c \in Calls, NEW t \in submitTokens, SubmitStart(c, t) PROVE now' = now
    BY <1>8 DEF SubmitStart
  <1>9. ASSUME NEW k \in Keys, NEW tx \in handed[k], NetworkTakes(k, tx) \/ NetworkKnows(k, tx)
        PROVE  now' = now
    BY <1>9 DEF NetworkTakes, NetworkKnows
  <1>10. CASE Restart
    BY <1>10 DEF Restart
  <1> QED
    BY <1>1, <1>2, <1>3, <1>4, <1>5, <1>6, <1>7, <1>8, <1>9, <1>10 DEF Next, Step

\* Every reachable state of the payment path is well typed.
THEOREM TypeCorrect == Spec => []TypeOK
  <1>1. Init => TypeOK
    BY ConstantsAssumption DEF Init, TypeOK, Time
  <1>2. TypeOK /\ [Next]_vars => TypeOK'
    <2> SUFFICES ASSUME TypeOK, [Next]_vars PROVE TypeOK'
      OBVIOUS
    <2>15. now' \in Time
      <3>1. CASE Tick
        BY <3>1, ConstantsAssumption DEF TypeOK, Time, Tick
      <3> QED
        BY <3>1, ClockSteps DEF TypeOK, vars
    <2>17. lastOpen' \in [Keys -> Time]
      BY <2>15 DEF Next, TypeOK, vars
    <2> USE <2>17
    <2>1. CASE Tick
      BY <2>1, ConstantsAssumption DEF Tick, TypeOK, Time
    <2>2. CASE Restart
      BY <2>2 DEF Restart, TypeOK
    <2>3. ASSUME NEW c \in Calls, NEW d \in Decisions, PrepareFinish(c, d)
          PROVE  TypeOK'
      <3> DEFINE k == call[c].key
                 r == call[c].req
      <3>1. k \in Keys /\ r \in Requests
        BY <2>3 DEF PrepareFinish, TypeOK, SuspendedCall, Idle
      <3>2. now + Ttl \in Nat
        BY ConstantsAssumption DEF TypeOK, Time
      <3>3. row' \in [Keys -> Row \cup {NoRow}]
        <4>1. CASE Upsert(k, r, d, now + Ttl)
          BY <4>1, <3>1, <3>2, UpsertType
        <4>2. CASE UNCHANGED row
          BY <4>2 DEF TypeOK
        <4> QED
          BY <2>3, <4>1, <4>2 DEF PrepareFinish
      <3>4. links' \in [Keys -> SUBSET Nat] /\ approved' \in [Keys -> SUBSET Requests]
        BY <2>3, <3>1, <3>2 DEF PrepareFinish, Offer, TypeOK
      <3>5. audit' \subseteq AuditEvent
        BY <2>3, <3>1 DEF PrepareFinish, Record, TypeOK, AuditEvent
      <3> QED
        BY <2>3, <3>1, <3>3, <3>4, <3>5 DEF PrepareFinish, Resume, TypeOK
    <2>4. ASSUME NEW c \in Calls, BuildFinish(c) PROVE TypeOK'
      <3>1. call[c].key \in Keys /\ call[c].req \in Requests /\ call[c].expiresAt \in Nat
        BY <2>4 DEF BuildFinish, TypeOK, SuspendedCall, Idle
      <3> QED
        BY <2>4, <3>1 DEF BuildFinish, Resume, TypeOK, SubmitToken, Tx
    <2>5. ASSUME NEW c \in Calls, SubmitFinish(c) PROVE TypeOK'
      <3>1. call[c].key \in Keys /\ call[c].tx \in Tx
        BY <2>5 DEF SubmitFinish, TypeOK, SuspendedCall, Idle
      <3>2. row' \in [Keys -> Row \cup {NoRow}]
        BY <2>5, <3>1 DEF SubmitFinish, TypeOK, Row
      <3>3. audit' \subseteq AuditEvent
        BY <2>5, <3>1 DEF SubmitFinish, Record, TypeOK, AuditEvent
      <3> QED
        BY <2>5, <3>2, <3>3 DEF SubmitFinish, Resume, TypeOK
    <2>6. ASSUME NEW c \in Calls, CallFails(c) PROVE TypeOK'
      BY <2>6 DEF CallFails, Resume, TypeOK
    <2>7. ASSUME NEW c \in Calls, NEW k \in Keys, NEW r \in Requests, PrepareStart(c, k, r)
          PROVE  TypeOK'
      BY <2>7 DEF PrepareStart, Suspend, TypeOK, SuspendedCall
    <2>8. ASSUME NEW k \in Keys, NEW r \in Requests, NEW n \in 1 .. Ttl,
                 PrepareContractCall(k, r, n)
          PROVE  TypeOK'
      <3>1. now + n \in Nat
        BY ConstantsAssumption DEF TypeOK, Time
      <3>2. row' \in [Keys -> Row \cup {NoRow}]
        BY <2>8, <3>1, UpsertType DEF PrepareContractCall
      <3>3. links' \in [Keys -> SUBSET Nat] /\ approved' \in [Keys -> SUBSET Requests]
        BY <2>8, <3>1 DEF PrepareContractCall, Offer, TypeOK
      <3>4. audit' \subseteq AuditEvent
        BY <2>8 DEF PrepareContractCall, Record, TypeOK, AuditEvent
      <3> QED
        BY <2>8, <3>2, <3>3, <3>4 DEF PrepareContractCall, TypeOK
    <2>9. ASSUME NEW k \in Keys, IssueSignLink(k) PROVE TypeOK'
      BY <2>9 DEF IssueSignLink, TypeOK, Row
    <2>10. ASSUME NEW k \in Keys, Cancel(k) PROVE TypeOK'
      <3>1. row' \in [Keys -> Row \cup {NoRow}]
        BY <2>10 DEF Cancel, TypeOK, Row
      <3> QED
        BY <2>10, <3>1 DEF Cancel, Record, TypeOK, AuditEvent
    <2>11. ASSUME NEW c \in Calls, NEW k \in Keys, NEW e \in links[k], BuildStart(c, k, e)
           PROVE  TypeOK'
      <3>1. row[k] \in Row
        BY <2>11 DEF BuildStart, Signable, TypeOK
      <3> QED
        BY <2>11, <3>1 DEF BuildStart, Suspend, TypeOK, SuspendedCall, Row
    <2>12. ASSUME NEW c \in Calls, NEW t \in submitTokens, SubmitStart(c, t)
           PROVE  TypeOK'
      <3>1. t.key \in Keys /\ t.tx \in Tx
        BY DEF TypeOK, SubmitToken
      <3> QED
        BY <2>12, <3>1, SubmitBroadcasts, BroadcastingTypes
    <2>16. ASSUME NEW c \in Calls, AskNext(c) PROVE TypeOK'
      BY <2>16, AskBroadcasts, BroadcastingTypes
    <2>13. ASSUME NEW k \in Keys, NEW tx \in handed[k],
                  NetworkTakes(k, tx) \/ NetworkKnows(k, tx)
           PROVE  TypeOK'
      BY <2>13 DEF NetworkTakes, NetworkKnows, TypeOK
    <2>14. CASE UNCHANGED vars
      BY <2>14 DEF vars, TypeOK
    <2> QED
      BY <2>1, <2>2, <2>3, <2>4, <2>5, <2>6, <2>7, <2>8, <2>9, <2>10, <2>11,
         <2>12, <2>13, <2>14, <2>16 DEF Next, Step
  <1> QED
    BY <1>1, <1>2, PTL DEF Spec

-----------------------------------------------------------------------------------
(* A recorded hash belongs to a transaction a node acknowledged.            *)

LEMMA BroadcastingAcknowledged ==
  ASSUME TypeOK, AcknowledgedInv, NEW c \in Calls, NEW k \in Keys, NEW tx \in Tx,
         Broadcasting(c, k, tx)
  PROVE  AcknowledgedInv'
  <1>1. PICK url \in 0 .. Endpoints, sent \in BOOLEAN, until \in Nat :
          /\ call' = [call EXCEPT ![c] = [op |-> "broadcast", key |-> k, tx |-> tx,
                                          url |-> url, sent |-> sent, until |-> until]]
          /\ handed' = IF sent THEN [handed EXCEPT ![k] = @ \cup {tx}] ELSE handed
    BY DEF Broadcasting
  <1>2. \A q \in Keys : handed[q] \subseteq handed'[q]
    BY <1>1 DEF TypeOK
  <1>3. (sent => tx \in handed'[k]) /\ row' = row /\ onChain' = onChain
    BY <1>1 DEF TypeOK, Broadcasting
  <1>4. RecordedPaymentWasAcknowledged'
    BY <1>2, <1>3 DEF AcknowledgedInv, RecordedPaymentWasAcknowledged, Paid
  <1>5. ASSUME NEW b \in Calls, call'[b].op = "broadcast", call'[b].sent
        PROVE  call'[b].tx \in handed'[call'[b].key]
    <2>1. CASE b = c
      <3>1. call'[c] = [op |-> "broadcast", key |-> k, tx |-> tx,
                        url |-> url, sent |-> sent, until |-> until]
        BY <1>1 DEF TypeOK
      <3>2. call'[c].key = k /\ call'[c].tx = tx /\ call'[c].sent = sent
        BY <3>1
      <3> QED
        BY <1>3, <1>5, <2>1, <3>2
    <2>2. CASE b # c
      <3>1. call'[b] = call[b] /\ call[b].key \in Keys
        BY <1>1, <1>5, <2>2 DEF TypeOK, SuspendedCall, Idle
      <3> QED
        BY <1>2, <1>5, <3>1 DEF AcknowledgedInv
    <2> QED
      BY <2>1, <2>2
  <1> QED
    BY <1>4, <1>5 DEF AcknowledgedInv

\* A record shows a hash only after a node answered for the transaction
\* (submit-signed calls finalizeVaultBroadcast after the broadcast).
THEOREM AcknowledgedCorrect == Spec => []RecordedPaymentWasAcknowledged
  <1>1. Init => AcknowledgedInv
    BY DEF Init, AcknowledgedInv, RecordedPaymentWasAcknowledged, Paid, Idle
  <1>2. TypeOK /\ AcknowledgedInv /\ [Next]_vars => AcknowledgedInv'
    <2> SUFFICES ASSUME TypeOK, AcknowledgedInv, [Next]_vars
                 PROVE  AcknowledgedInv'
      OBVIOUS
    <2> USE DEF AcknowledgedInv, RecordedPaymentWasAcknowledged, Paid
    <2>1. CASE Tick
      BY <2>1 DEF Tick
    <2>2. CASE Restart
      BY <2>2 DEF Restart, Idle
    <2>3. ASSUME NEW c \in Calls, NEW d \in Decisions, PrepareFinish(c, d)
          PROVE  AcknowledgedInv'
      BY <2>3 DEF PrepareFinish, Upsert, Resume, Idle, TypeOK
    <2>4. ASSUME NEW c \in Calls, BuildFinish(c) PROVE AcknowledgedInv'
      BY <2>4 DEF BuildFinish, Resume, Idle, TypeOK
    <2>5. ASSUME NEW c \in Calls, SubmitFinish(c) PROVE AcknowledgedInv'
      BY <2>5 DEF SubmitFinish, Resume, Acknowledged, Idle, TypeOK, Row
    <2>6. ASSUME NEW c \in Calls, CallFails(c) PROVE AcknowledgedInv'
      BY <2>6 DEF CallFails, Resume, Idle, TypeOK
    <2>7. ASSUME NEW c \in Calls, NEW k \in Keys, NEW r \in Requests, PrepareStart(c, k, r)
          PROVE  AcknowledgedInv'
      BY <2>7 DEF PrepareStart, Suspend, TypeOK
    <2>8. ASSUME NEW k \in Keys, NEW r \in Requests, NEW n \in 1 .. Ttl,
                 PrepareContractCall(k, r, n)
          PROVE  AcknowledgedInv'
      BY <2>8 DEF PrepareContractCall, Upsert, TypeOK
    <2>9. ASSUME NEW k \in Keys, IssueSignLink(k) PROVE AcknowledgedInv'
      BY <2>9 DEF IssueSignLink
    <2>10. ASSUME NEW k \in Keys, Cancel(k) PROVE AcknowledgedInv'
      BY <2>10 DEF Cancel, TypeOK, Row
    <2>11. ASSUME NEW c \in Calls, NEW k \in Keys, NEW e \in links[k], BuildStart(c, k, e)
           PROVE  AcknowledgedInv'
      BY <2>11 DEF BuildStart, Suspend, TypeOK
    <2>12. ASSUME NEW c \in Calls, NEW t \in submitTokens, SubmitStart(c, t)
           PROVE  AcknowledgedInv'
      BY <2>12, SubmitBroadcasts, BroadcastingAcknowledged DEF TypeOK, SubmitToken
    <2>16. ASSUME NEW c \in Calls, AskNext(c) PROVE AcknowledgedInv'
      BY <2>16, AskBroadcasts, BroadcastingAcknowledged
    <2>13. ASSUME NEW k \in Keys, NEW tx \in handed[k],
                  NetworkTakes(k, tx) \/ NetworkKnows(k, tx)
           PROVE  AcknowledgedInv'
      BY <2>13 DEF NetworkTakes, NetworkKnows, TypeOK
    <2>14. CASE UNCHANGED vars
      BY <2>14 DEF vars
    <2> QED
      BY <2>1, <2>2, <2>3, <2>4, <2>5, <2>6, <2>7, <2>8, <2>9, <2>10, <2>11,
         <2>12, <2>13, <2>14, <2>16 DEF Next, Step
  <1>3. AcknowledgedInv => RecordedPaymentWasAcknowledged
    BY DEF AcknowledgedInv
  <1> QED
    BY <1>1, <1>2, <1>3, TypeCorrect, PTL DEF Spec

-----------------------------------------------------------------------------------
(* Only terms that were stored and not blocked are ever paid.               *)

\* Storing a preview keeps every outstanding transaction approved.
LEMMA ApprovedUpsert ==
  ASSUME TypeOK, ApprovedInv, NEW k \in Keys, NEW r \in Requests,
         NEW s \in Statuses, NEW e \in Nat, Upsert(k, r, s, e), Offer(k, r, s, e),
         \A c \in Calls : call'[c] \in {call[c], Idle},
         UNCHANGED <<submitTokens, handed>>
  PROVE  ApprovedInv'
  <1>1. row'[k].req = r /\ row'[k].status = s /\ \A q \in Keys \ {k} : row'[q] = row[q]
    BY DEF Upsert, TypeOK
  <1>2. /\ s # "BLOCKED" => r \in approved'[k]
        /\ \A q \in Keys : approved[q] \subseteq approved'[q]
    BY DEF Offer, TypeOK
  <1>3. \A q \in Keys : \A tx \in handed'[q] : tx.req \in approved'[q]
    BY <1>2 DEF ApprovedInv, OnlyApprovedTermsArePaid
  <1>4. \A q \in Keys : row'[q] # NoRow /\ row'[q].status # "BLOCKED" =>
          row'[q].req \in approved'[q]
    BY <1>1, <1>2 DEF ApprovedInv
  <1>5. CallsApproved'
    BY <1>2 DEF ApprovedInv, CallsApproved, TypeOK, SuspendedCall, Idle
  <1>6. \A t \in submitTokens' : t.tx.req \in approved'[t.key]
    BY <1>2 DEF ApprovedInv, TypeOK, SubmitToken
  <1> QED
    BY <1>3, <1>4, <1>5, <1>6 DEF ApprovedInv, OnlyApprovedTermsArePaid

LEMMA BroadcastingApproved ==
  ASSUME TypeOK, ApprovedInv, NEW c \in Calls, NEW k \in Keys, NEW tx \in Tx,
         Broadcasting(c, k, tx), tx.req \in approved[k]
  PROVE  ApprovedInv'
  <1>1. PICK url \in 0 .. Endpoints, sent \in BOOLEAN, until \in Nat :
          /\ call' = [call EXCEPT ![c] = [op |-> "broadcast", key |-> k, tx |-> tx,
                                          url |-> url, sent |-> sent, until |-> until]]
          /\ handed' = IF sent THEN [handed EXCEPT ![k] = @ \cup {tx}] ELSE handed
    BY DEF Broadcasting
  <1>2. \A q \in Keys : \A x \in handed'[q] : x \in handed[q] \/ (q = k /\ x = tx)
    BY <1>1 DEF TypeOK
  <1>3. OnlyApprovedTermsArePaid'
    BY <1>2 DEF ApprovedInv, OnlyApprovedTermsArePaid, Broadcasting
  <1>4. \A b \in Calls \ {c} : call'[b] = call[b]
    BY <1>1 DEF TypeOK
  <1>5. call'[c].op = "broadcast" /\ call'[c].key = k /\ call'[c].tx = tx
    BY <1>1 DEF TypeOK
  <1>6. CallsApproved'
    BY <1>4, <1>5 DEF ApprovedInv, CallsApproved, Broadcasting
  <1> QED
    BY <1>3, <1>6 DEF ApprovedInv, Broadcasting

\* A transaction reaches a network for an intent only on terms that were stored
\* for that intent and not blocked (intentForSigning on both Vault routes).
THEOREM ApprovedCorrect == Spec => []OnlyApprovedTermsArePaid
  <1>1. Init => ApprovedInv
    BY DEF Init, ApprovedInv, CallsApproved, OnlyApprovedTermsArePaid, Idle
  <1>2. TypeOK /\ ApprovedInv /\ [Next]_vars => ApprovedInv'
    <2> SUFFICES ASSUME TypeOK, ApprovedInv, [Next]_vars
                 PROVE  ApprovedInv'
      OBVIOUS
    <2> USE DEF ApprovedInv, CallsApproved, OnlyApprovedTermsArePaid
    <2>1. CASE Tick
      BY <2>1 DEF Tick
    <2>2. CASE Restart
      BY <2>2 DEF Restart, Idle
    <2>3. ASSUME NEW c \in Calls, NEW d \in Decisions, PrepareFinish(c, d)
          PROVE  ApprovedInv'
      <3>1. /\ call[c].key \in Keys /\ call[c].req \in Requests
            /\ now + Ttl \in Nat
        BY <2>3, ConstantsAssumption
        DEF PrepareFinish, TypeOK, SuspendedCall, Idle, Time
      <3>2. \A b \in Calls : call'[b] \in {call[b], Idle}
        BY <2>3 DEF PrepareFinish, Resume, TypeOK
      <3>3. CASE UNCHANGED <<row, approved>>
        BY <2>3, <3>2, <3>3 DEF PrepareFinish, Idle
      <3> QED
        BY <2>3, <3>1, <3>2, <3>3, ApprovedUpsert DEF PrepareFinish
    <2>4. ASSUME NEW c \in Calls, BuildFinish(c) PROVE ApprovedInv'
      BY <2>4 DEF BuildFinish, Resume, Idle, TypeOK
    <2>5. ASSUME NEW c \in Calls, SubmitFinish(c) PROVE ApprovedInv'
      <3>1. CASE UNCHANGED row
        BY <2>5, <3>1 DEF SubmitFinish, Resume, Idle, TypeOK
      <3>2. CASE row[call[c].key] # NoRow /\ CanFinalize(row[call[c].key].status, "PENDING")
        <4>1. row[call[c].key].status # "BLOCKED"
          BY <3>2, FinalizesFrom
        <4> QED
          BY <2>5, <3>2, <4>1 DEF SubmitFinish, Resume, Idle, TypeOK, Row
      <3> QED
        BY <2>5, <3>1, <3>2 DEF SubmitFinish
    <2>6. ASSUME NEW c \in Calls, CallFails(c) PROVE ApprovedInv'
      BY <2>6 DEF CallFails, Resume, Idle, TypeOK
    <2>7. ASSUME NEW c \in Calls, NEW k \in Keys, NEW r \in Requests, PrepareStart(c, k, r)
          PROVE  ApprovedInv'
      BY <2>7 DEF PrepareStart, Suspend, TypeOK
    <2>8. ASSUME NEW k \in Keys, NEW r \in Requests, NEW n \in 1 .. Ttl,
                 PrepareContractCall(k, r, n)
          PROVE  ApprovedInv'
      <3>1. now + n \in Nat
        BY ConstantsAssumption DEF TypeOK, Time
      <3> QED
        BY <2>8, <3>1, ApprovedUpsert DEF PrepareContractCall
    <2>9. ASSUME NEW k \in Keys, IssueSignLink(k) PROVE ApprovedInv'
      BY <2>9 DEF IssueSignLink
    <2>10. ASSUME NEW k \in Keys, Cancel(k) PROVE ApprovedInv'
      BY <2>10 DEF Cancel, TypeOK, Row
    <2>11. ASSUME NEW c \in Calls, NEW k \in Keys, NEW e \in links[k], BuildStart(c, k, e)
           PROVE  ApprovedInv'
      BY <2>11 DEF BuildStart, Signable, Suspend, TypeOK
    <2>12. ASSUME NEW c \in Calls, NEW t \in submitTokens, SubmitStart(c, t)
           PROVE  ApprovedInv'
      BY <2>12, SubmitBroadcasts, BroadcastingApproved DEF TypeOK, SubmitToken
    <2>16. ASSUME NEW c \in Calls, AskNext(c) PROVE ApprovedInv'
      BY <2>16, AskBroadcasts, BroadcastingApproved DEF AskNext
    <2>13. ASSUME NEW k \in Keys, NEW tx \in handed[k],
                  NetworkTakes(k, tx) \/ NetworkKnows(k, tx)
           PROVE  ApprovedInv'
      BY <2>13 DEF NetworkTakes, NetworkKnows
    <2>14. CASE UNCHANGED vars
      BY <2>14 DEF vars
    <2> QED
      BY <2>1, <2>2, <2>3, <2>4, <2>5, <2>6, <2>7, <2>8, <2>9, <2>10, <2>11,
         <2>12, <2>13, <2>14, <2>16 DEF Next, Step
  <1>3. ApprovedInv => OnlyApprovedTermsArePaid
    BY DEF ApprovedInv
  <1> QED
    BY <1>1, <1>2, <1>3, TypeCorrect, PTL DEF Spec

-----------------------------------------------------------------------------------
(* The statuses that are stored, and what they say about the hash.          *)

\* DRAFT, CONFIRMED, SIGNING, SUBMITTED and EXPIRED never leave memory on this
\* path, and a stored record has a transaction hash exactly when it is PENDING.
THEOREM StoredStatusesCorrect == Spec => []StoredStatuses
  <1>1. Init => StoredStatuses
    BY DEF Init, StoredStatuses
  <1>2. TypeOK /\ StoredStatuses /\ [Next]_vars => StoredStatuses'
    <2> SUFFICES ASSUME TypeOK, StoredStatuses, [Next]_vars
                 PROVE  StoredStatuses'
      OBVIOUS
    <2> USE DEF StoredStatuses
    <2>1. CASE UNCHANGED row
      BY <2>1
    <2>2. ASSUME NEW c \in Calls, NEW d \in Decisions, PrepareFinish(c, d)
          PROVE  StoredStatuses'
      BY <2>1, <2>2 DEF PrepareFinish, Upsert, TypeOK
    <2>3. ASSUME NEW c \in Calls, SubmitFinish(c) PROVE StoredStatuses'
      <3>1. CASE row' = [row EXCEPT ![call[c].key].status = "PENDING",
                                    ![call[c].key].tx = call[c].tx]
        <4>1. call[c].tx # NoTx
          BY <2>3, NoTxAssumption DEF SubmitFinish, TypeOK, SuspendedCall, Idle
        <4>2. \A k \in Keys : row[k] # NoRow => row[k] \in Row
          BY DEF TypeOK
        <4> QED
          BY <3>1, <4>1, <4>2, NoRowAssumption DEF TypeOK, Row
      <3> QED
        BY <2>1, <2>3, <3>1 DEF SubmitFinish
    <2>4. ASSUME NEW k \in Keys, NEW r \in Requests, NEW n \in 1 .. Ttl,
                 PrepareContractCall(k, r, n)
          PROVE  StoredStatuses'
      BY <2>4 DEF PrepareContractCall, Upsert, TypeOK
    <2>5. ASSUME NEW k \in Keys, Cancel(k) PROVE StoredStatuses'
      BY <2>5 DEF Cancel, TypeOK, Row
    <2> QED
      BY <2>1, <2>2, <2>3, <2>4, <2>5 DEF Next, Step, vars, Tick, Restart, AskNext,
         BuildFinish, CallFails, PrepareStart, IssueSignLink, BuildStart,
         SubmitStart, NetworkTakes, NetworkKnows
  <1> QED
    BY <1>1, <1>2, TypeCorrect, PTL DEF Spec

-----------------------------------------------------------------------------------
(* The audit log.                                                           *)

\* Whichever handler wrote a record last, and whatever throws between its steps, the
\* record's status is the decision of an event recorded with that write.
THEOREM StatusExplainedCorrect == Spec => []AuditExplainsStatus
  <1>1. Init => AuditExplainsStatus
    BY DEF Init, AuditExplainsStatus
  <1>2. TypeOK /\ AuditExplainsStatus /\ [Next]_vars => AuditExplainsStatus'
    <2> SUFFICES ASSUME TypeOK, AuditExplainsStatus, [Next]_vars
                 PROVE  AuditExplainsStatus'
      OBVIOUS
    <2>1. ASSUME NEW k \in Keys, NEW action, NEW status, row'[k].status = status,
                 \A q \in Keys \ {k} : row'[q] = row[q], Record(action, k, status)
          PROVE  AuditExplainsStatus'
      <3>1. audit \subseteq audit'
            /\ [action |-> action, key |-> k, decision |-> status] \in audit'
        BY <2>1 DEF Record
      <3> QED
        BY <2>1, <3>1 DEF AuditExplainsStatus
    <2>2. CASE UNCHANGED <<row, audit>>
      BY <2>2 DEF AuditExplainsStatus
    <2>3. ASSUME NEW c \in Calls, NEW d \in Decisions, PrepareFinish(c, d)
          PROVE  AuditExplainsStatus'
      <3>1. call[c].key \in Keys
        BY <2>3 DEF PrepareFinish, TypeOK, SuspendedCall, Idle
      <3>2. CASE Upsert(call[c].key, call[c].req, d, now + Ttl)
                 /\ Record("PREPARE_TRANSFER", call[c].key, d)
        <4>1. row'[call[c].key].status = d
              /\ \A q \in Keys \ {call[c].key} : row'[q] = row[q]
          BY <3>1, <3>2 DEF Upsert, TypeOK
        <4> QED
          BY <2>1, <3>1, <3>2, <4>1
      <3> QED
        BY <2>2, <2>3, <3>2 DEF PrepareFinish
    <2>4. ASSUME NEW k \in Keys, NEW r \in Requests, NEW n \in 1 .. Ttl,
                 PrepareContractCall(k, r, n)
          PROVE  AuditExplainsStatus'
      <3>1. row'[k].status = "AUTO_APPROVED" /\ \A q \in Keys \ {k} : row'[q] = row[q]
        BY <2>4 DEF PrepareContractCall, Upsert, TypeOK
      <3> QED
        BY <2>1, <2>4, <3>1 DEF PrepareContractCall
    <2>5. ASSUME NEW k \in Keys, Cancel(k) PROVE AuditExplainsStatus'
      <3>1. row[k] \in Row
        BY <2>5 DEF Cancel, TypeOK
      <3>2. row'[k].status = "CANCELLED" /\ \A q \in Keys \ {k} : row'[q] = row[q]
        BY <2>5, <3>1 DEF Cancel, TypeOK, Row
      <3> QED
        BY <2>1, <2>5, <3>2 DEF Cancel
    <2>6. ASSUME NEW c \in Calls, SubmitFinish(c) PROVE AuditExplainsStatus'
      <3>1. call[c].key \in Keys
        BY <2>6 DEF SubmitFinish, TypeOK, SuspendedCall, Idle
      <3>2. CASE row[call[c].key] # NoRow
                 /\ row' = [row EXCEPT ![call[c].key].status = "PENDING",
                                       ![call[c].key].tx = call[c].tx]
                 /\ Record("VAULT_BROADCAST", call[c].key, "PENDING")
        <4>1. row[call[c].key] \in Row
          BY <3>1, <3>2 DEF TypeOK
        <4>2. row'[call[c].key].status = "PENDING"
              /\ \A q \in Keys \ {call[c].key} : row'[q] = row[q]
          BY <3>1, <3>2, <4>1 DEF TypeOK, Row
        <4> QED
          BY <2>1, <3>1, <3>2, <4>2
      <3> QED
        BY <2>2, <2>6, <3>2 DEF SubmitFinish
    <2> QED
      BY <2>2, <2>3, <2>4, <2>5, <2>6 DEF Next, Step, vars, Tick, Restart, AskNext,
         BuildFinish, CallFails, PrepareStart, IssueSignLink, BuildStart,
         SubmitStart, NetworkTakes, NetworkKnows
  <1> QED
    BY <1>1, <1>2, TypeCorrect, PTL DEF Spec

-----------------------------------------------------------------------------------
(* When a payment may begin.                                                *)

LEMMA Timeouts ==
  /\ Endpoints \in Nat /\ Endpoints >= 1 /\ RpcTimeout \in Nat
  /\ \A n \in 0 .. Endpoints : n * RpcTimeout \in Nat
  /\ \A n \in 0 .. Endpoints : (n + 1) * RpcTimeout = n * RpcTimeout + RpcTimeout
  /\ \A n \in 0 .. Endpoints : n < Endpoints => n * RpcTimeout <= (Endpoints - 1) * RpcTimeout
  /\ 0 * RpcTimeout = 0 /\ 1 * RpcTimeout = RpcTimeout
  <1>1. Endpoints \in Nat /\ Endpoints >= 1 /\ RpcTimeout \in Nat
    BY ConstantsAssumption
  <1>2. ASSUME NEW n \in Nat, n < Endpoints PROVE n * RpcTimeout <= (Endpoints - 1) * RpcTimeout
    <2>1. PICK d \in Nat : Endpoints - 1 = n + d
      <3>1. Endpoints - 1 - n \in Nat /\ Endpoints - 1 = n + (Endpoints - 1 - n)
        BY <1>1, <1>2
      <3> QED
        BY <3>1
    <2>2. (n + d) * RpcTimeout = n * RpcTimeout + d * RpcTimeout /\ d * RpcTimeout \in Nat
          /\ n * RpcTimeout \in Nat
      BY <1>1
    <2> QED
      BY <2>1, <2>2
  <1> QED
    BY <1>1, <1>2

\* When an intent was last open is not after now, and goes only forward.
LEMMA LastOpenGrows ==
  ASSUME TypeOK, TypeOK', LateInv, Next
  PROVE  /\ now <= now'
         /\ \A k \in Keys : /\ lastOpen[k] <= lastOpen'[k] /\ lastOpen'[k] <= now'
                            /\ Open(k)' => lastOpen'[k] = now'
  <1>1. now \in Nat /\ now' \in Nat /\ \A k \in Keys : lastOpen[k] \in Nat
    BY DEF TypeOK, Time
  <1>2. now <= now'
    <2>1. CASE Tick
      BY <1>1, <2>1 DEF Tick
    <2> QED
      BY <1>1, <2>1, ClockSteps
  <1>3. ASSUME NEW k \in Keys
        PROVE  /\ lastOpen[k] <= lastOpen'[k] /\ lastOpen'[k] <= now'
               /\ Open(k)' => lastOpen'[k] = now'
    <2>1. lastOpen'[k] = IF Open(k)' THEN now' ELSE lastOpen[k]
      BY Zenon DEF Next
    <2>2. lastOpen[k] <= now
      BY DEF LateInv
    <2> HIDE DEF Open
    <2> QED
      BY <1>1, <1>2, <2>1, <2>2
  <1> QED
    BY <1>2, <1>3

\* A submission under way, as LateInv describes it.
InTime(x, at, last) ==
  x.op = "broadcast" => /\ at <= x.until
                        /\ x.until <= last[x.key] + x.url * RpcTimeout

\* Submissions begin while the intent is open, and each node gets one timeout.
LEMMA AskedInTime ==
  ASSUME TypeOK, LateInv, NEW c \in Calls, NEW k \in Keys, NEW tx \in Tx,
         NEW n \in 1 .. Endpoints, Asks(c, k, tx, n),
         now <= lastOpen[k] + (n - 1) * RpcTimeout
  PROVE  \A b \in Calls : InTime(call'[b], now, lastOpen)
  <1>1. \A b \in Calls \ {c} : call'[b] = call[b]
    BY DEF Asks, TypeOK
  <1>2. PICK sent \in BOOLEAN :
          call'[c] = [op |-> "broadcast", key |-> k, tx |-> tx, url |-> n,
                      sent |-> sent, until |-> now + RpcTimeout]
    BY DEF Asks, TypeOK
  <1>3. n * RpcTimeout = (n - 1) * RpcTimeout + RpcTimeout /\ (n - 1) * RpcTimeout \in Nat
    <2>1. n - 1 \in 0 .. Endpoints /\ n = (n - 1) + 1
      BY Timeouts
    <2> QED
      BY <2>1, Timeouts
  <1>4. now \in Nat /\ RpcTimeout \in Nat /\ lastOpen[k] \in Nat
    BY Timeouts DEF TypeOK, Time
  <1>5. now + RpcTimeout <= lastOpen[k] + n * RpcTimeout /\ now <= now + RpcTimeout
    BY <1>3, <1>4
  <1>6. InTime(call'[c], now, lastOpen)
    BY <1>2, <1>5 DEF InTime
  <1> QED
    BY <1>1, <1>6 DEF LateInv, InTime

\* Every step keeps the submissions in time, by the clock before it.
LEMMA CallsInTime ==
  ASSUME TypeOK, StoredStatuses, LateInv, Step, ~Tick
  PROVE  \A b \in Calls : InTime(call'[b], now, lastOpen)
  <1>1. \A b \in Calls : InTime(call[b], now, lastOpen)
    BY DEF LateInv, InTime
  <1>2. ASSUME NEW c \in Calls, AskNext(c)
        PROVE  \A b \in Calls : InTime(call'[b], now, lastOpen)
    <2>1. /\ call[c].key \in Keys /\ call[c].tx \in Tx /\ call[c].url \in 0 .. Endpoints
          /\ call[c].until \in Nat /\ call[c].url < Endpoints /\ call[c].op = "broadcast"
      <3>1. call[c].op = "broadcast" /\ call[c].url < Endpoints
        BY <1>2 DEF AskNext
      <3>2. call[c] \in SuspendedCall \cup {Idle}
        BY <1>2 DEF TypeOK
      <3> QED
        BY <3>1, <3>2, SubmissionType
    <2>2. call[c].url + 1 \in 1 .. Endpoints /\ (call[c].url + 1) - 1 = call[c].url
      BY <2>1, Timeouts
    <2>3. now <= lastOpen[call[c].key] + call[c].url * RpcTimeout
      <3>1. /\ now <= call[c].until
            /\ call[c].until <= lastOpen[call[c].key] + call[c].url * RpcTimeout
        BY <2>1 DEF LateInv
      <3>2. now \in Nat /\ lastOpen[call[c].key] \in Nat /\ call[c].url * RpcTimeout \in Nat
        BY <2>1, Timeouts DEF TypeOK, Time
      <3> QED
        BY <2>1, <3>1, <3>2
    <2> QED
      BY <1>2, <2>1, <2>2, <2>3, AskedInTime DEF AskNext
  <1>3. ASSUME NEW c \in Calls, NEW t \in submitTokens, SubmitStart(c, t)
        PROVE  \A b \in Calls : InTime(call'[b], now, lastOpen)
    <2>1. t.key \in Keys /\ t.tx \in Tx
      BY DEF TypeOK, SubmitToken
    <2>2. lastOpen[t.key] = now /\ now \in Nat
      <3>1. Open(t.key)
        BY <1>3, <2>1 DEF SubmitStart, Signable, Open, StoredStatuses
      <3>2. lastOpen[t.key] = now
        BY <2>1, <3>1, Zenon DEF LateInv
      <3> QED
        BY <3>2 DEF TypeOK, Time
    <2>3. CASE t.tx.req \in Evm
      <3>1. /\ call'[c] = [op |-> "broadcast", key |-> t.key, tx |-> t.tx, url |-> 0,
                           sent |-> FALSE, until |-> now]
            /\ \A b \in Calls \ {c} : call'[b] = call[b]
        BY <1>3, <2>3 DEF SubmitStart, Suspend, TypeOK
      <3>2. /\ call'[c].key = t.key /\ call'[c].url = 0 /\ call'[c].until = now
            /\ now <= now /\ now <= now + 0
        BY <2>2, <3>1
      <3>3. call'[c].url * RpcTimeout = 0
        BY <3>2, Timeouts
      <3>4. InTime(call'[c], now, lastOpen)
        BY <2>2, <3>2, <3>3 DEF InTime
      <3> QED
        BY <1>1, <3>1, <3>4
    <2>4. CASE t.tx.req \notin Evm
      <3>1. Asks(c, t.key, t.tx, 1)
        BY <1>3, <2>4 DEF SubmitStart
      <3>2. 1 \in 1 .. Endpoints /\ now <= lastOpen[t.key] + (1 - 1) * RpcTimeout
        BY <2>2, Timeouts
      <3> QED
        BY <2>1, <3>1, <3>2, AskedInTime
    <2> QED
      BY <2>3, <2>4
  <1>4. ASSUME \A b \in Calls : call'[b] = call[b] \/ call'[b].op # "broadcast"
        PROVE  \A b \in Calls : InTime(call'[b], now, lastOpen)
    BY <1>1, <1>4 DEF InTime
  <1>5. ASSUME NEW c \in Calls, NEW new, new.op # "broadcast", call' = [call EXCEPT ![c] = new]
        PROVE  \A b \in Calls : InTime(call'[b], now, lastOpen)
    BY <1>4, <1>5 DEF TypeOK
  <1>6. Idle.op # "broadcast"
    BY DEF Idle
  <1>7. ASSUME NEW c \in Calls, Resume(c)
        PROVE  \A b \in Calls : InTime(call'[b], now, lastOpen)
    BY <1>5, <1>6, <1>7 DEF Resume
  <1>8. CASE Restart
    BY <1>4, <1>6, <1>8 DEF Restart
  <1>9. ASSUME NEW c \in Calls, NEW k \in Keys, NEW r \in Requests, PrepareStart(c, k, r)
        PROVE  \A b \in Calls : InTime(call'[b], now, lastOpen)
    BY <1>5, <1>9 DEF PrepareStart, Suspend
  <1>10. ASSUME NEW c \in Calls, NEW k \in Keys, NEW e \in links[k], BuildStart(c, k, e)
         PROVE  \A b \in Calls : InTime(call'[b], now, lastOpen)
    BY <1>5, <1>10 DEF BuildStart, Suspend
  <1>11. ASSUME NEW c \in Calls, NEW d \in Decisions, PrepareFinish(c, d)
         PROVE  Resume(c)
    BY <1>11 DEF PrepareFinish
  <1>12. ASSUME NEW c \in Calls, BuildFinish(c) \/ SubmitFinish(c) \/ CallFails(c)
         PROVE  Resume(c)
    BY <1>12 DEF BuildFinish, SubmitFinish, CallFails
  <1>13. ASSUME NEW k \in Keys, NEW r \in Requests, NEW n \in 1 .. Ttl,
                PrepareContractCall(k, r, n)
         PROVE  call' = call
    BY <1>13 DEF PrepareContractCall
  <1>14. ASSUME NEW k \in Keys, IssueSignLink(k) \/ Cancel(k) PROVE call' = call
    BY <1>14 DEF IssueSignLink, Cancel
  <1>15. ASSUME NEW k \in Keys, NEW tx \in handed[k], NetworkTakes(k, tx) \/ NetworkKnows(k, tx)
         PROVE  call' = call
    BY <1>15 DEF NetworkTakes, NetworkKnows
  <1>16. call' = call => \A b \in Calls : InTime(call'[b], now, lastOpen)
    BY <1>1
  <1> QED
    BY <1>2, <1>3, <1>7, <1>8, <1>9, <1>10, <1>11, <1>12, <1>13, <1>14, <1>15, <1>16
    DEF Step

\* Whenever an intent is cancelled, expires, is blocked or broadcast, and however often
\* its links and tokens are used: nothing is sent for it later than the timeouts of all
\* nodes but one after it was last open.
THEOREM LateCorrect == Spec => NoPaymentBeginsLate
  <1>1. Init => LateInv
    BY DEF Init, LateInv, Open, Idle
  <1>2. TypeOK /\ TypeOK' /\ StoredStatuses /\ LateInv /\ [Next]_vars => LateInv'
    <2> SUFFICES ASSUME TypeOK, TypeOK', StoredStatuses, LateInv, [Next]_vars PROVE LateInv'
      OBVIOUS
    <2>1. CASE UNCHANGED vars
      BY <2>1 DEF vars, LateInv, Open
    <2>2. CASE Next
      <3>1. /\ now <= now'
            /\ \A k \in Keys : /\ lastOpen[k] <= lastOpen'[k]
                               /\ lastOpen'[k] <= now'
                               /\ Open(k)' => lastOpen'[k] = now'
        BY <2>2, LastOpenGrows
      <3>2. \A b \in Calls : InTime(call'[b], now', lastOpen)
        <4>1. CASE Tick
          <5>1. call' = call /\ now' = now + 1 /\ now \in Nat
            BY <4>1 DEF Tick, TypeOK, Time
          <5>2. \A b \in Calls : call[b].op = "broadcast" =>
                  /\ call[b].until \in Nat /\ now < call[b].until
                  /\ call[b].until <= lastOpen[call[b].key] + call[b].url * RpcTimeout
            BY <4>1 DEF Tick, TypeOK, SuspendedCall, Idle, LateInv
          <5> QED
            BY <5>1, <5>2 DEF InTime
        <4>2. CASE ~Tick
          <5>1. now' = now
            BY <2>2, <4>2, ClockSteps
          <5> QED
            BY <2>2, <4>2, <5>1, CallsInTime DEF Next
        <4> QED
          BY <4>1, <4>2
      <3>3. ASSUME NEW b \in Calls, call'[b].op = "broadcast"
            PROVE  /\ now' <= call'[b].until
                   /\ call'[b].until <= lastOpen'[call'[b].key] + call'[b].url * RpcTimeout
        <4>1. /\ call'[b].key \in Keys /\ call'[b].url \in 0 .. Endpoints
              /\ call'[b].until \in Nat
          <5>1. call'[b] \in SuspendedCall \cup {Idle}
            BY <3>3 DEF TypeOK
          <5> QED
            BY <3>3, <5>1, SubmissionType
        <4>2. /\ lastOpen[call'[b].key] \in Nat /\ lastOpen'[call'[b].key] \in Nat
              /\ lastOpen[call'[b].key] <= lastOpen'[call'[b].key]
              /\ call'[b].url * RpcTimeout \in Nat
          BY <3>1, <4>1, Timeouts DEF TypeOK, Time
        <4>3. /\ now' <= call'[b].until
              /\ call'[b].until <= lastOpen[call'[b].key] + call'[b].url * RpcTimeout
          BY <3>2, <3>3 DEF InTime
        <4> QED
          BY <4>1, <4>2, <4>3
      <3> QED
        BY <3>1, <3>3 DEF LateInv
    <2> QED
      BY <2>1, <2>2
  <1>3. TypeOK /\ StoredStatuses /\ LateInv /\ [Next]_vars =>
          [\A k \in Keys : handed'[k] # handed[k] =>
             now <= lastOpen[k] + (Endpoints - 1) * RpcTimeout]_vars
    <2> SUFFICES ASSUME TypeOK, StoredStatuses, LateInv, Next, NEW k \in Keys,
                        handed'[k] # handed[k]
                 PROVE  now <= lastOpen[k] + (Endpoints - 1) * RpcTimeout
      OBVIOUS
    <2>1. now \in Nat /\ lastOpen[k] \in Nat /\ (Endpoints - 1) * RpcTimeout \in Nat
      <3>1. Endpoints - 1 \in 0 .. Endpoints
        BY Timeouts
      <3> QED
        BY <3>1, Timeouts DEF TypeOK, Time
    <2>2. CASE \E c \in Calls, t \in submitTokens : SubmitStart(c, t)
      <3>1. PICK c \in Calls, t \in submitTokens : SubmitStart(c, t)
        BY <2>2
      <3>2. k = t.key
        BY <3>1 DEF SubmitStart, Asks, TypeOK
      <3>3. Open(k)
        BY <3>1, <3>2 DEF SubmitStart, Signable, Open, StoredStatuses
      <3>4. lastOpen[k] = now
        BY <3>3, Zenon DEF LateInv
      <3> QED
        BY <2>1, <3>4
    <2>3. CASE \E c \in Calls : AskNext(c)
      <3>1. PICK c \in Calls : AskNext(c)
        BY <2>3
      <3>2. /\ k = call[c].key /\ call[c].op = "broadcast" /\ call[c].url < Endpoints
            /\ call[c].url \in 0 .. Endpoints /\ call[c].until \in Nat
        <4>1. call[c] \in SuspendedCall \cup {Idle} /\ call[c].op = "broadcast"
          BY <3>1 DEF AskNext, TypeOK
        <4>2. call[c].url \in 0 .. Endpoints /\ call[c].until \in Nat
          BY <4>1, SubmissionType
        <4> QED
          BY <3>1, <4>1, <4>2 DEF AskNext, Asks, TypeOK
      <3>3. now <= call[c].until /\ call[c].until <= lastOpen[k] + call[c].url * RpcTimeout
        BY <3>2 DEF LateInv
      <3>4. /\ call[c].url * RpcTimeout \in Nat
            /\ call[c].url * RpcTimeout <= (Endpoints - 1) * RpcTimeout
        BY <3>2, Timeouts
      <3> QED
        BY <2>1, <3>2, <3>3, <3>4
    <2> QED
      BY <2>2, <2>3 DEF Next, Step, Tick, Restart, PrepareFinish, BuildFinish, SubmitFinish,
         CallFails, PrepareStart, PrepareContractCall, IssueSignLink, Cancel,
         BuildStart, NetworkTakes, NetworkKnows
  <1> QED
    BY <1>1, <1>2, <1>3, TypeCorrect, StoredStatusesCorrect, PTL
    DEF Spec, NoPaymentBeginsLate

-----------------------------------------------------------------------------------
(* The record tells what was paid.                                          *)

USE DEF CallsHold

\* A first save of a preview: nothing was outstanding for its key.
LEMMA RecordFirstSave ==
  ASSUME TypeOK, RecordInv, NEW k \in Keys, NEW r \in Requests, row[k] = NoRow,
         NEW s \in Statuses, NEW e \in Nat, Upsert(k, r, s, e),
         \A c \in Calls : call'[c] \in {call[c], Idle},
         UNCHANGED <<submitTokens, handed, rewritten>>
  PROVE  RecordInv'
  <1>1. row'[k].req = r /\ row'[k].request = r /\ \A q \in Keys \ {k} : row'[q] = row[q]
    BY DEF Upsert, TypeOK
  <1>2. \A q \in Keys : \A x : row[q] # NoRow /\ row[q].req = x =>
          row'[q] # NoRow /\ row'[q].req = x
    BY <1>1
  <1>3. RecordTellsWhatWasPaid'
    BY <1>1, <1>2 DEF RecordInv, RecordTellsWhatWasPaid
  <1>4. CallsHold'
    BY <1>2 DEF RecordInv, Holds, TypeOK, SuspendedCall, Idle
  <1>5. (\A t \in submitTokens : Holds(t.key, t.tx.req))'
    BY <1>2 DEF RecordInv, Holds, TypeOK, SubmitToken
  <1> QED
    BY <1>3, <1>4, <1>5 DEF RecordInv

\* A save over an existing row: its key leaves the scope of the property.
LEMMA RecordRewrite ==
  ASSUME TypeOK, RecordInv, NEW k \in Keys,
         \A q \in Keys \ {k} : row'[q] = row[q],
         rewritten' = rewritten \cup {k},
         \A c \in Calls : call'[c] \in {call[c], Idle},
         UNCHANGED <<submitTokens, handed>>
  PROVE  RecordInv'
  <1>1. RecordTellsWhatWasPaid'
    BY DEF RecordInv, RecordTellsWhatWasPaid
  <1>2. \A q \in Keys : \A x : Holds(q, x) => Holds(q, x)'
    BY DEF Holds
  <1>3. CallsHold'
    BY <1>2 DEF RecordInv, TypeOK, SuspendedCall, Idle
  <1>4. (\A t \in submitTokens : Holds(t.key, t.tx.req))'
    BY <1>2 DEF RecordInv, TypeOK, SubmitToken
  <1> QED
    BY <1>1, <1>3, <1>4 DEF RecordInv

\* A write that leaves the terms of every record alone.
LEMMA RecordKeepsTerms ==
  ASSUME TypeOK, RecordInv,
         \A q \in Keys : \/ row'[q] = row[q]
                         \/ row[q] # NoRow /\ row'[q] # NoRow
                            /\ row'[q].req = row[q].req
                            /\ row'[q].request = row[q].request,
         \A c \in Calls : call'[c] \in {call[c], Idle},
         UNCHANGED <<submitTokens, handed, rewritten>>
  PROVE  RecordInv'
  <1>1. RecordTellsWhatWasPaid'
    BY DEF RecordInv, RecordTellsWhatWasPaid
  <1>2. \A q \in Keys : \A x : Holds(q, x) => Holds(q, x)'
    BY DEF Holds
  <1>3. CallsHold'
    BY <1>2 DEF RecordInv, TypeOK, SuspendedCall, Idle
  <1>4. (\A t \in submitTokens : Holds(t.key, t.tx.req))'
    BY <1>2 DEF RecordInv, TypeOK, SubmitToken
  <1> QED
    BY <1>1, <1>3, <1>4 DEF RecordInv

LEMMA BroadcastingHolds ==
  ASSUME TypeOK, RecordInv, NEW c \in Calls, NEW k \in Keys, NEW tx \in Tx,
         Broadcasting(c, k, tx), Holds(k, tx.req)
  PROVE  RecordInv'
  <1>1. PICK url \in 0 .. Endpoints, sent \in BOOLEAN, until \in Nat :
          /\ call' = [call EXCEPT ![c] = [op |-> "broadcast", key |-> k, tx |-> tx,
                                          url |-> url, sent |-> sent, until |-> until]]
          /\ handed' = IF sent THEN [handed EXCEPT ![k] = @ \cup {tx}] ELSE handed
    BY DEF Broadcasting
  <1>2. \A q \in Keys : \A x \in handed'[q] : x \in handed[q] \/ (q = k /\ x = tx)
    BY <1>1 DEF TypeOK
  <1>3. RecordTellsWhatWasPaid'
    BY <1>2 DEF RecordInv, RecordTellsWhatWasPaid, Broadcasting, Holds
  <1>4. \A b \in Calls \ {c} : call'[b] = call[b]
    BY <1>1 DEF TypeOK
  <1>5. call'[c].op = "broadcast" /\ call'[c].key = k /\ call'[c].tx = tx
    BY <1>1 DEF TypeOK
  <1>6. \A q \in Keys : \A x : Holds(q, x) <=> Holds(q, x)'
    BY DEF Holds, Broadcasting
  <1>7. CallsHold'
    BY <1>4, <1>5, <1>6 DEF RecordInv, TypeOK, SuspendedCall, Idle
  <1>8. (\A t \in submitTokens : Holds(t.key, t.tx.req))'
    BY <1>6 DEF RecordInv, Broadcasting, TypeOK, SubmitToken
  <1> QED
    BY <1>3, <1>7, <1>8 DEF RecordInv

\* Unless two prepares of one key overlapped, the record states the terms of
\* every transaction ever handed to a network for it.
THEOREM RecordCorrect == Spec => []RecordTellsWhatWasPaid
  <1>1. Init => RecordInv
    BY DEF Init, RecordInv, RecordTellsWhatWasPaid, Idle
  <1>2. TypeOK /\ RecordInv /\ [Next]_vars => RecordInv'
    <2> SUFFICES ASSUME TypeOK, RecordInv, [Next]_vars
                 PROVE  RecordInv'
      OBVIOUS
    <2>1. ASSUME UNCHANGED <<row, submitTokens, handed, rewritten>>,
                 \A c \in Calls : call'[c] \in {call[c], Idle}
          PROVE  RecordInv'
      BY <2>1, RecordKeepsTerms
    <2>2. CASE Restart
      BY <2>1, <2>2 DEF Restart
    <2>3. ASSUME NEW c \in Calls, NEW d \in Decisions, PrepareFinish(c, d)
          PROVE  RecordInv'
      <3>1. /\ call[c].key \in Keys /\ call[c].req \in Requests
            /\ now + Ttl \in Nat
        BY <2>3, ConstantsAssumption
        DEF PrepareFinish, TypeOK, SuspendedCall, Idle, Time
      <3>2. \A b \in Calls : call'[b] \in {call[b], Idle}
        BY <2>3 DEF PrepareFinish, Resume, TypeOK
      <3>3. CASE UNCHANGED <<row, rewritten>>
        BY <2>1, <2>3, <3>2, <3>3 DEF PrepareFinish
      <3>4. CASE /\ Upsert(call[c].key, call[c].req, d, now + Ttl)
                 /\ row[call[c].key] = NoRow
                 /\ rewritten' = rewritten
        BY <2>3, <3>1, <3>2, <3>4, RecordFirstSave DEF PrepareFinish
      <3>5. CASE /\ Upsert(call[c].key, call[c].req, d, now + Ttl)
                 /\ rewritten' = rewritten \cup {call[c].key}
        <4>1. \A q \in Keys \ {call[c].key} : row'[q] = row[q]
          BY <3>1, <3>5 DEF Upsert, TypeOK
        <4> QED
          BY <2>3, <3>1, <3>2, <3>5, <4>1, RecordRewrite DEF PrepareFinish
      <3> QED
        BY <2>3, <3>3, <3>4, <3>5 DEF PrepareFinish
    <2>4. ASSUME NEW c \in Calls, BuildFinish(c) PROVE RecordInv'
      <3>1. /\ \A q \in Keys : \A x : Holds(q, x) <=> Holds(q, x)'
            /\ RecordTellsWhatWasPaid'
        BY <2>4 DEF BuildFinish, Holds, RecordInv, RecordTellsWhatWasPaid
      <3>2. CallsHold'
        BY <2>4, <3>1 DEF BuildFinish, Resume, RecordInv, TypeOK, SuspendedCall, Idle
      <3>3. call[c].key \in Keys /\ Holds(call[c].key, call[c].req)
        BY <2>4 DEF BuildFinish, RecordInv, TypeOK, SuspendedCall, Idle
      <3>4. (\A t \in submitTokens : Holds(t.key, t.tx.req))'
        BY <2>4, <3>1, <3>3 DEF BuildFinish, RecordInv, TypeOK, SubmitToken
      <3> QED
        BY <3>1, <3>2, <3>4 DEF RecordInv
    <2>5. ASSUME NEW c \in Calls, SubmitFinish(c) PROVE RecordInv'
      <3>1. \A b \in Calls : call'[b] \in {call[b], Idle}
        BY <2>5 DEF SubmitFinish, Resume, TypeOK
      <3>2. \A q \in Keys : \/ row'[q] = row[q]
                            \/ row[q] # NoRow /\ row'[q] # NoRow
                               /\ row'[q].req = row[q].req
                               /\ row'[q].request = row[q].request
        <4>1. CASE UNCHANGED row
          BY <4>1
        <4>2. CASE /\ row[call[c].key] # NoRow
                   /\ row' = [row EXCEPT ![call[c].key].status = "PENDING",
                                         ![call[c].key].tx = call[c].tx]
          <5>1. call[c].key \in Keys /\ call[c].tx \in Tx
            BY <2>5 DEF SubmitFinish, TypeOK, SuspendedCall, Idle
          <5>2. row'[call[c].key] \in Row
            <6>1. row[call[c].key] \in Row
              BY <4>2, <5>1 DEF TypeOK
            <6>2. row'[call[c].key] = [row[call[c].key] EXCEPT !.status = "PENDING",
                                                               !.tx = call[c].tx]
              BY <4>2, <5>1 DEF TypeOK
            <6> QED
              BY <5>1, <6>1, <6>2 DEF Row
          <5>3. /\ row'[call[c].key].req = row[call[c].key].req
                /\ row'[call[c].key].request = row[call[c].key].request
            BY <4>2, <5>1 DEF TypeOK, Row
          <5>4. \A q \in Keys \ {call[c].key} : row'[q] = row[q]
            BY <4>2, <5>1 DEF TypeOK
          <5> QED
            BY <4>2, <5>1, <5>2, <5>3, <5>4, NoRowAssumption
        <4> QED
          BY <2>5, <4>1, <4>2 DEF SubmitFinish
      <3> QED
        BY <2>5, <3>1, <3>2, RecordKeepsTerms DEF SubmitFinish
    <2>6. ASSUME NEW c \in Calls, CallFails(c) PROVE RecordInv'
      BY <2>1, <2>6 DEF CallFails, Resume, TypeOK
    <2>7. ASSUME NEW c \in Calls, NEW k \in Keys, NEW r \in Requests, PrepareStart(c, k, r)
          PROVE  RecordInv'
      BY <2>7 DEF PrepareStart, Suspend, RecordInv, RecordTellsWhatWasPaid, Holds, TypeOK
    <2>8. ASSUME NEW k \in Keys, NEW r \in Requests, NEW n \in 1 .. Ttl,
                 PrepareContractCall(k, r, n)
          PROVE  RecordInv'
      <3>1. now + n \in Nat
        BY ConstantsAssumption DEF TypeOK, Time
      <3> QED
        BY <2>8, <3>1, RecordFirstSave DEF PrepareContractCall, Unused
    <2>9. ASSUME NEW k \in Keys, IssueSignLink(k) PROVE RecordInv'
      BY <2>1, <2>9 DEF IssueSignLink
    <2>10. ASSUME NEW k \in Keys, Cancel(k) PROVE RecordInv'
      <3>1. row'[k] \in Row /\ row'[k].req = row[k].req /\ row'[k].request = row[k].request
        BY <2>10 DEF Cancel, TypeOK, Row
      <3>2. \A q \in Keys \ {k} : row'[q] = row[q]
        BY <2>10 DEF Cancel, TypeOK
      <3> QED
        BY <2>10, <3>1, <3>2, NoRowAssumption, RecordKeepsTerms DEF Cancel
    <2>11. ASSUME NEW c \in Calls, NEW k \in Keys, NEW e \in links[k], BuildStart(c, k, e)
           PROVE  RecordInv'
      BY <2>11 DEF BuildStart, Signable, Suspend, RecordInv, RecordTellsWhatWasPaid,
         Holds, TypeOK
    <2>12. ASSUME NEW c \in Calls, NEW t \in submitTokens, SubmitStart(c, t)
           PROVE  RecordInv'
      <3>1. t.key \in Keys /\ Holds(t.key, t.tx.req)
        BY DEF RecordInv, TypeOK, SubmitToken
      <3> QED
        BY <2>12, <3>1, SubmitBroadcasts, BroadcastingHolds DEF TypeOK, SubmitToken
    <2>16. ASSUME NEW c \in Calls, AskNext(c) PROVE RecordInv'
      BY <2>16, AskBroadcasts, BroadcastingHolds DEF AskNext, RecordInv
    <2>13. ASSUME NEW k \in Keys, NEW tx \in handed[k],
                  NetworkTakes(k, tx) \/ NetworkKnows(k, tx)
           PROVE  RecordInv'
      BY <2>1, <2>13 DEF NetworkTakes, NetworkKnows
    <2>14. CASE UNCHANGED vars
      BY <2>1, <2>14 DEF vars
    <2>15. CASE Tick
      BY <2>1, <2>15 DEF Tick
    <2> QED
      BY <2>2, <2>3, <2>4, <2>5, <2>6, <2>7, <2>8, <2>9, <2>10, <2>11,
         <2>12, <2>13, <2>14, <2>15, <2>16 DEF Next, Step
  <1>3. RecordInv => RecordTellsWhatWasPaid
    BY DEF RecordInv
  <1> QED
    BY <1>1, <1>2, <1>3, TypeCorrect, PTL DEF Spec

-----------------------------------------------------------------------------------
(* The lifecycle refinement.                                               *)

\* What one transition of the table leads to from a reachable status is reachable.
LEMMA ReachableStep ==
  ASSUME NEW s \in Statuses, NEW t \in Lifecycle!Reachable[s], NEW u \in Statuses,
         <<t, u>> \in Lifecycle!Transitions
  PROVE  u \in Lifecycle!Reachable[s]
  <1>1. ASSUME NEW S \in SUBSET Statuses, s \in S,
               \A x \in Lifecycle!Transitions : x[1] \in S => x[2] \in S
        PROVE  u \in S
    <2>1. t \in S
      BY <1>1 DEF Lifecycle!Reachable, Lifecycle!Statuses
    <2> QED
      BY <1>1, <2>1
  <1> QED
    BY <1>1 DEF Lifecycle!Reachable, Lifecycle!Statuses

LEMMA ReachableSelf ==
  ASSUME NEW s \in Statuses PROVE s \in Lifecycle!Reachable[s]
  BY DEF Lifecycle!Reachable, Lifecycle!Statuses

\* The walks the handlers take through the table.
LEMMA HandlerWalks ==
  /\ \A d \in Decisions : d \in Lifecycle!Reachable["DRAFT"]
  /\ \A s \in {"REQUIRES_CONFIRMATION", "AUTO_APPROVED"} :
       {"CANCELLED", "PENDING"} \subseteq Lifecycle!Reachable[s]
  <1>1. \A d \in Decisions : <<"DRAFT", d>> \in Lifecycle!Transitions
    BY DEF Lifecycle!Transitions, Lifecycle!Decisions
  <1>2. \A s \in {"REQUIRES_CONFIRMATION", "AUTO_APPROVED"} :
          /\ <<s, "CANCELLED">> \in Lifecycle!Transitions
          /\ <<s, "CONFIRMED">> \in Lifecycle!Transitions
    BY DEF Lifecycle!Transitions
  <1>3. /\ <<"CONFIRMED", "SIGNING">> \in Lifecycle!Transitions
        /\ <<"SIGNING", "SUBMITTED">> \in Lifecycle!Transitions
        /\ <<"SUBMITTED", "PENDING">> \in Lifecycle!Transitions
    BY DEF Lifecycle!Transitions
  <1> QED
    BY <1>1, <1>2, <1>3, ReachableStep, ReachableSelf

\* A save over no row, over a row, and no save at all.
LEMMA FirstSaveAdvances ==
  ASSUME TypeOK, NEW k \in Keys, NEW r \in Requests, NEW d \in Decisions, NEW e \in Nat,
         Upsert(k, r, d, e), row[k] = NoRow, rewritten' = rewritten
  PROVE  [Lifecycle!Next]_<<Life, Payment>>
  <1>1. /\ row'[k].status = d /\ row'[k].tx = NoTx
        /\ \A q \in Keys \ {k} : row'[q] = row[q]
    BY DEF Upsert, TypeOK
  <1>2. row'[k] # NoRow
    BY UpsertType, NoRowAssumption DEF Upsert, TypeOK, Row
  <1>3. CASE k \in rewritten
    BY <1>1, <1>3 DEF Life, Payment
  <1>4. CASE k \notin rewritten
    <2>1. Life[k] = "DRAFT" /\ d \in Lifecycle!Reachable[Life[k]]
      BY <1>4, HandlerWalks DEF Life
    <2>2. Life' = [Life EXCEPT ![k] = d]
      BY <1>1, <1>2, <1>4 DEF Life
    <2>3. Payment' = Payment
      BY <1>1, <1>2, <1>4 DEF Payment
    <2>4. Lifecycle!Advance(k, d)
      BY <2>1, <2>2, <2>3 DEF Lifecycle!Advance, Lifecycle!Statuses, Lifecycle!Submitted
    <2> QED
      BY <2>4 DEF Lifecycle!Next, Lifecycle!Statuses
  <1> QED
    BY <1>3, <1>4

LEMMA RewriteReplaces ==
  ASSUME TypeOK, StoredStatuses, NEW k \in Keys, row[k] # NoRow,
         \A q \in Keys \ {k} : row'[q] = row[q], rewritten' = rewritten \cup {k}
  PROVE  [Lifecycle!Next]_<<Life, Payment>>
  <1>1. Life[k] # "DRAFT"
    BY DEF Life, StoredStatuses
  <1>2. Life' = [Life EXCEPT ![k] = "REPLACED"]
    BY DEF Life
  <1>3. Payment' = [Payment EXCEPT ![k] = NoTx]
    BY DEF Payment
  <1> QED
    BY <1>1, <1>2, <1>3 DEF Lifecycle!Next, Lifecycle!Replace

LEMMA NoSaveStutters ==
  ASSUME UNCHANGED <<row, rewritten>> PROVE UNCHANGED <<Life, Payment>>
  BY DEF Life, Payment

\* Every step of the handlers is a step of the abstract lifecycle or none: an
\* intent's status walks the table and its payment is recorded at most once.
THEOREM LifecycleCorrect == Spec => ImplementsLifecycle
  <1>1. Init => Lifecycle!Init
    BY DEF Init, Lifecycle!Init, Life, Payment
  <1>2. TypeOK /\ TypeOK' /\ StoredStatuses /\ [Next]_vars
          => [Lifecycle!Next]_<<Life, Payment>>
    <2> SUFFICES ASSUME TypeOK, TypeOK', StoredStatuses, [Next]_vars
                 PROVE  [Lifecycle!Next]_<<Life, Payment>>
      OBVIOUS
    <2>1. ASSUME NEW c \in Calls, NEW d \in Decisions, PrepareFinish(c, d)
          PROVE  [Lifecycle!Next]_<<Life, Payment>>
      <3>1. /\ call[c].key \in Keys /\ call[c].req \in Requests
            /\ now + Ttl \in Nat
        BY <2>1, ConstantsAssumption
        DEF PrepareFinish, TypeOK, SuspendedCall, Idle, Time
      <3>2. CASE UNCHANGED <<row, rewritten>>
        BY <3>2, NoSaveStutters
      <3>3. CASE /\ Upsert(call[c].key, call[c].req, d, now + Ttl)
                 /\ row[call[c].key] = NoRow /\ rewritten' = rewritten
        BY <3>1, <3>3, FirstSaveAdvances
      <3>4. CASE /\ Upsert(call[c].key, call[c].req, d, now + Ttl)
                 /\ row[call[c].key] # NoRow
                 /\ rewritten' = rewritten \cup {call[c].key}
        <4>1. \A q \in Keys \ {call[c].key} : row'[q] = row[q]
          BY <3>1, <3>4 DEF Upsert, TypeOK
        <4> QED
          BY <3>1, <3>4, <4>1, RewriteReplaces
      <3> QED
        BY <2>1, <3>2, <3>3, <3>4 DEF PrepareFinish
    <2>2. ASSUME NEW c \in Calls, SubmitFinish(c)
          PROVE  [Lifecycle!Next]_<<Life, Payment>>
      <3> DEFINE k == call[c].key
      <3>1. k \in Keys /\ call[c].tx \in Tx
        BY <2>2 DEF SubmitFinish, TypeOK, SuspendedCall, Idle
      <3>2. CASE UNCHANGED row
        BY <2>2, <3>2, NoSaveStutters DEF SubmitFinish
      <3>3. CASE /\ row[k] # NoRow /\ CanFinalize(row[k].status, "PENDING")
                 /\ row' = [row EXCEPT ![k].status = "PENDING", ![k].tx = call[c].tx]
        <4>1. row[k] \in Row /\ row[k].tx = NoTx
              /\ row[k].status \in {"REQUIRES_CONFIRMATION", "AUTO_APPROVED"}
          <5>1. row[k].status \in {"REQUIRES_CONFIRMATION", "AUTO_APPROVED"}
            BY <3>1, <3>3, FinalizesFrom DEF StoredStatuses
          <5> QED
            BY <3>1, <3>3, <5>1 DEF StoredStatuses, TypeOK
        <4>2. /\ row'[k] = [row[k] EXCEPT !.status = "PENDING", !.tx = call[c].tx]
              /\ \A q \in Keys \ {k} : row'[q] = row[q]
          BY <3>1, <3>3 DEF TypeOK
        <4>3. /\ row'[k] # NoRow
              /\ row'[k].status = "PENDING" /\ row'[k].tx = call[c].tx
          <5>1. row'[k] \in Row
            BY <3>1, <4>1, <4>2 DEF Row
          <5> QED
            BY <4>1, <4>2, <5>1, NoRowAssumption DEF Row
        <4>4. CASE k \in rewritten
          BY <2>2, <4>2, <4>4 DEF SubmitFinish, Life, Payment
        <4>5. CASE k \notin rewritten
          <5>1. Life[k] = row[k].status /\ Payment[k] = NoTx
            BY <3>1, <3>3, <4>1, <4>5 DEF Life, Payment
          <5>2. Life' = [Life EXCEPT ![k] = "PENDING"]
            <6>1. rewritten' = rewritten
              BY <2>2 DEF SubmitFinish
            <6>2. \A q \in Keys : Life'[q] = IF q = k THEN "PENDING" ELSE Life[q]
              BY <4>2, <4>3, <4>5, <6>1 DEF Life
            <6> QED
              BY <6>2 DEF Life
          <5>3. Payment' = [Payment EXCEPT ![k] = call[c].tx]
            BY <2>2, <4>2, <4>3, <4>5 DEF SubmitFinish, Payment
          <5>4. "PENDING" \in Lifecycle!Reachable[Life[k]]
            BY <4>1, <5>1, HandlerWalks
          <5>5. Lifecycle!Pay(k, "PENDING", call[c].tx)
            BY <4>1, <5>1, <5>2, <5>3, <5>4
            DEF Lifecycle!Pay, Lifecycle!Statuses, Lifecycle!Submitted
          <5> QED
            BY <3>1, <5>5 DEF Lifecycle!Next, Lifecycle!Statuses
        <4> QED
          BY <4>4, <4>5
      <3> QED
        BY <2>2, <3>2, <3>3 DEF SubmitFinish
    <2>3. ASSUME NEW k \in Keys, NEW r \in Requests, NEW n \in 1 .. Ttl,
                 PrepareContractCall(k, r, n)
          PROVE  [Lifecycle!Next]_<<Life, Payment>>
      <3>1. now + n \in Nat
        BY ConstantsAssumption DEF TypeOK, Time
      <3> QED
        BY <2>3, <3>1, FirstSaveAdvances DEF PrepareContractCall, Unused
    <2>4. ASSUME NEW k \in Keys, Cancel(k)
          PROVE  [Lifecycle!Next]_<<Life, Payment>>
      <3>1. /\ row'[k] = [row[k] EXCEPT !.status = "CANCELLED"]
            /\ \A q \in Keys \ {k} : row'[q] = row[q]
        BY <2>4 DEF Cancel, TypeOK
      <3>2. row[k] \in Row /\ row'[k] \in Row
        BY <2>4, <3>1 DEF Cancel, TypeOK, Row
      <3>3. row'[k] # NoRow /\ row'[k].status = "CANCELLED" /\ row'[k].tx = row[k].tx
        BY <3>1, <3>2, NoRowAssumption DEF Row
      <3>4. CASE k \in rewritten
        BY <2>4, <3>1, <3>4 DEF Cancel, Life, Payment
      <3>5. CASE k \notin rewritten
        <4>1. /\ Life[k] = row[k].status
              /\ row[k].status \in {"REQUIRES_CONFIRMATION", "AUTO_APPROVED"}
          BY <2>4, <3>5 DEF Cancel, Life, StoredStatuses
        <4>2. Life' = [Life EXCEPT ![k] = "CANCELLED"]
          <5>1. rewritten' = rewritten
            BY <2>4 DEF Cancel
          <5>2. \A q \in Keys : Life'[q] = IF q = k THEN "CANCELLED" ELSE Life[q]
            BY <3>1, <3>3, <3>5, <5>1 DEF Life
          <5> QED
            BY <5>2 DEF Life
        <4>3. Payment' = Payment
          BY <2>4, <3>1, <3>3, <3>5 DEF Cancel, Payment
        <4>4. Lifecycle!Advance(k, "CANCELLED")
          BY <4>1, <4>2, <4>3, HandlerWalks
          DEF Lifecycle!Advance, Lifecycle!Statuses, Lifecycle!Submitted
        <4> QED
          BY <4>4 DEF Lifecycle!Next, Lifecycle!Statuses
      <3> QED
        BY <3>4, <3>5
    <2>5. CASE UNCHANGED <<row, rewritten>>
      BY <2>5, NoSaveStutters
    <2> QED
      BY <2>1, <2>2, <2>3, <2>4, <2>5
      DEF Next, Step, vars, Tick, Restart, AskNext, BuildFinish, CallFails, PrepareStart,
          IssueSignLink, BuildStart, SubmitStart, NetworkTakes, NetworkKnows
  <1> QED
    BY <1>1, <1>2, TypeCorrect, StoredStatusesCorrect, PTL
    DEF Spec, ImplementsLifecycle, Lifecycle!Spec
===============================================================================
