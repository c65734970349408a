------------------------------ MODULE DemoPaymentsProofs ------------------------------
(***************************************************************************)
(* Proofs about DemoPayments, for any number of keys and of suspended      *)
(* handlers: receipts, executions and the ledger agree, however handlers   *)
(* interleave and restart, and demo intents keep the common lifecycle.     *)
(***************************************************************************)
EXTENDS DemoPayments, TLAPS

USE ConstantsAssumption, NoRowAssumption, IdleAssumption

\* Handler c is between the check of k's intent and the save of its copy.
Confirms(c, k) == call[c] # Idle /\ call[c].op = "confirm" /\ call[c].key = k

\* A stored intent is decided, cancelled or completed, and completed exactly with a hash.
StatusInv ==
  \A k \in Keys : row[k] # NoRow =>
    /\ row[k].status \in Decisions \cup {"CANCELLED", "COMPLETED"}
    /\ row[k].status = "COMPLETED" <=> row[k].hash = TRUE

\* A confirming handler has executed its copy; that is still what is stored, and no
\* other handler confirms it, unless handlers crossed.
ConfirmInv ==
  \A c \in Calls, k \in Keys : Confirms(c, k) =>
    /\ row[k] # NoRow
    /\ call[c].intent.status \in {"REQUIRES_CONFIRMATION", "AUTO_APPROVED"}
    /\ [key |-> k, amount |-> call[c].intent.amount] \in executed
    /\ k \notin crossed => /\ row[k] = call[c].intent
                           /\ \A d \in Calls : Confirms(d, k) => d = c

\* What is in the ledger is being confirmed or completed, and there once.
OnceInv ==
  \A k \in Keys \ crossed :
    \/ entries[k] = 0
    \/ entries[k] = 1 /\ \/ row[k] # NoRow /\ row[k].status = "COMPLETED"
                         \/ \E c \in Calls : Confirms(c, k)

\* Previews show what is stored.
PreviewInv ==
  \A p \in previews : /\ row[p.key] # NoRow
                      /\ p.key \notin crossed => p.amount = row[p.key].amount

\* Receipts are of executions, and executions of previews.
ReceiptInv ==
  /\ \A k \in Keys : row[k] # NoRow /\ row[k].hash = TRUE =>
       [key |-> k, amount |-> row[k].amount] \in executed
  /\ \A e \in executed : e.key \in crossed
       \/ \E p \in previews : p.key = e.key /\ p.amount = e.amount

Inv ==
  /\ TypeOK /\ StatusInv /\ ConfirmInv /\ OnceInv /\ PreviewInv /\ ReceiptInv

---------------------------------------------------------------------------------------
\* Types.

\* A suspended handler is of one of the two kinds.
LEMMA CallTypes ==
  ASSUME TypeOK, NEW c \in Calls, call[c] # Idle
  PROVE  /\ call[c].key \in Keys
         /\ call[c].op = "prepare" => call[c].amount \in Amounts /\ call[c].balance \in Int
         /\ call[c].op = "confirm" => call[c].intent \in Intent
BY DEF TypeOK, Suspended

\* What a prepare saves is an intent, and not the absent one.
LEMMA NewIntent ==
  ASSUME NEW status \in Decisions, NEW amount \in Amounts, NEW exp \in Nat
  PROVE  [status |-> status, amount |-> amount, exp |-> exp, hash |-> FALSE]
           \in Intent \ {NoRow}
<1>1. [status |-> status, amount |-> amount, exp |-> exp, hash |-> FALSE] \in Intent
  BY DEF Intent, Statuses, Decisions
<1> QED
  BY <1>1

\* A receipt is an intent with its amount.
LEMMA ReceiptFacts ==
  ASSUME NEW k, NEW intent \in Intent
  PROVE  /\ Receipt(k, intent) \in Intent \ {NoRow}
         /\ Receipt(k, intent).status = "COMPLETED" /\ Receipt(k, intent).hash = TRUE
         /\ Receipt(k, intent).amount = intent.amount
BY DEF Receipt, Intent, Statuses

\* So is a cancelled intent.
LEMMA CancelledFacts ==
  ASSUME NEW intent \in Intent
  PROVE  /\ [intent EXCEPT !.status = "CANCELLED"] \in Intent \ {NoRow}
         /\ [intent EXCEPT !.status = "CANCELLED"].status = "CANCELLED"
         /\ [intent EXCEPT !.status = "CANCELLED"].hash = intent.hash
         /\ [intent EXCEPT !.status = "CANCELLED"].amount = intent.amount
BY DEF Intent, Statuses

\* Init establishes the types.
LEMMA InitTypeOK == Init => TypeOK
BY DEF Init, TypeOK

\* Every step keeps them.
LEMMA NextTypeOK == TypeOK /\ [Next]_vars => TypeOK'
<1> SUFFICES ASSUME TypeOK, [Next]_vars PROVE TypeOK'
  OBVIOUS
<1> USE DEF TypeOK
<1>1. ASSUME NEW c \in Calls, NEW k \in Keys, NEW a \in Amounts, PrepareStart(c, k, a)
      PROVE  TypeOK'
  <2>1. [op |-> "prepare", key |-> k, amount |-> a, balance |-> balance] \in Suspended
    BY DEF Suspended
  <2> QED
    BY <1>1, <2>1 DEF PrepareStart, Track, EventNames
<1>2. ASSUME NEW c \in Calls, PrepareFinish(c)
      PROVE  TypeOK'
  <2>1. call[c].key \in Keys /\ call[c].amount \in Amounts
    BY <1>2, CallTypes DEF PrepareFinish
  <2>2. now + Ttl \in Nat
    OBVIOUS
  <2>3. PICK status \in Decisions :
          LET k == call[c].key
              intent == [status |-> status, amount |-> call[c].amount, exp |-> now + Ttl,
                         hash |-> FALSE]
          IN /\ Save(k, intent)
             /\ previews' = IF status = "BLOCKED" THEN previews
                            ELSE previews \cup {[key |-> k, amount |-> intent.amount,
                                                 exp |-> intent.exp]}
             /\ Track({"transfer_prepared"}, k)
             /\ Cross(k, row[k] # NoRow)
    BY <1>2 DEF PrepareFinish
  <2>4. row' \in [Keys -> Intent \cup {NoRow}]
    BY <2>1, <2>2, <2>3, NewIntent DEF Save
  <2>5. previews' \subseteq Preview
    BY <2>1, <2>2, <2>3 DEF Preview
  <2>6. events' \subseteq EventNames \X Keys /\ crossed' \subseteq Keys
    BY <2>1, <2>3 DEF Track, Cross, EventNames
  <2> QED
    BY <1>2, <2>4, <2>5, <2>6 DEF PrepareFinish
<1>3. ASSUME NEW c \in Calls, ConfirmFinish(c)
      PROVE  TypeOK'
  <2>1. call[c].key \in Keys /\ call[c].intent \in Intent
    BY <1>3, CallTypes DEF ConfirmFinish
  <2>2. row' \in [Keys -> Intent \cup {NoRow}]
    BY <1>3, <2>1, ReceiptFacts DEF ConfirmFinish, Save
  <2>3. events' \subseteq EventNames \X Keys
    BY <1>3, <2>1 DEF ConfirmFinish, Track, EventNames, SettledEvents
  <2> QED
    BY <1>3, <2>2, <2>3 DEF ConfirmFinish
<1>4. ASSUME NEW c \in Calls, NEW t \in previews, ConfirmStart(c, t)
      PROVE  TypeOK'
  <2>1. t.key \in Keys
    BY DEF Preview
  <2>2. row[t.key] \in Intent
    BY <1>4, <2>1 DEF ConfirmStart
  <2>3. [op |-> "confirm", key |-> t.key, intent |-> row[t.key]] \in Suspended
    BY <2>1, <2>2 DEF Suspended
  <2>4. row[t.key].amount \in Amounts
    BY <2>2 DEF Intent
  <2>5. balance - row[t.key].amount \in Int /\ entries[t.key] + 1 \in Nat
    <3>1. entries[t.key] \in Nat /\ row[t.key].amount \in Nat /\ balance \in Int
      BY <2>1, <2>4
    <3>2. \A b \in Int, m, n \in Nat : b - m \in Int /\ n + 1 \in Nat
      OBVIOUS
    <3> QED
      BY <3>1, <3>2
  <2>6. entries' \in [Keys -> Nat] /\ balance' \in Int
        /\ executed' \subseteq [key: Keys, amount: Amounts]
    BY <1>4, <2>1, <2>4, <2>5 DEF ConfirmStart, Execute
  <2> QED
    BY <1>4, <2>1, <2>3, <2>6 DEF ConfirmStart, Cross
<1>5. ASSUME NEW k \in Keys, ShowPreview(k)
      PROVE  TypeOK'
  BY <1>5 DEF ShowPreview, Preview, Intent
<1>6. ASSUME NEW k \in Keys, Cancel(k)
      PROVE  TypeOK'
  <2>1. row[k] \in Intent
    BY <1>6 DEF Cancel
  <2>2. row' \in [Keys -> Intent \cup {NoRow}]
    BY <1>6, <2>1, CancelledFacts DEF Cancel
  <2> QED
    BY <1>6, <2>2 DEF Cancel, Track, Cross, EventNames
<1>7. CASE Restart
  BY <1>7 DEF Restart
<1>8. CASE Tick
  BY <1>8 DEF Tick
<1>9. CASE UNCHANGED vars
  BY <1>9 DEF vars
<1> QED
  BY <1>1, <1>2, <1>3, <1>4, <1>5, <1>6, <1>7, <1>8, <1>9 DEF Next

\* Every reachable state is well typed.
THEOREM TypeCorrect == Spec => []TypeOK
BY InitTypeOK, NextTypeOK, PTL DEF Spec

---------------------------------------------------------------------------------------
\* Executions, receipts and the ledger.

\* Init establishes the invariant.
LEMMA InitInv == Init => Inv
<1> SUFFICES ASSUME Init PROVE Inv
  OBVIOUS
<1>1. TypeOK
  BY InitTypeOK
<1> QED
  BY <1>1 DEF Init, Inv, StatusInv, ConfirmInv, OnceInv, PreviewInv, ReceiptInv, Confirms

\* A prepare that finishes over nothing has not been executed; over something, it crosses.
LEMMA PrepareKeepsInv ==
  ASSUME Inv, TypeOK', NEW c \in Calls, PrepareFinish(c)
  PROVE  Inv'
<1> USE DEF Inv
<1>1. PICK k \in Keys, intent \in Intent \ {NoRow} :
        /\ k = call[c].key
        /\ intent.status \in Decisions /\ intent.hash = FALSE
        /\ row' = [row EXCEPT ![k] = intent]
        /\ \A p \in previews' : p \in previews \/ (p.key = k /\ p.amount = intent.amount)
        /\ previews \subseteq previews'
        /\ crossed' = IF row[k] # NoRow THEN crossed \cup {k} ELSE crossed
  <2>1. call[c].key \in Keys /\ call[c].amount \in Amounts
    BY CallTypes DEF PrepareFinish
  <2>2. now + Ttl \in Nat
    BY DEF TypeOK
  <2>3. PICK status \in Decisions :
          LET k == call[c].key
              intent == [status |-> status, amount |-> call[c].amount, exp |-> now + Ttl,
                         hash |-> FALSE]
          IN /\ Save(k, intent)
             /\ previews' = IF status = "BLOCKED" THEN previews
                            ELSE previews \cup {[key |-> k, amount |-> intent.amount,
                                                 exp |-> intent.exp]}
             /\ Cross(k, row[k] # NoRow)
    BY DEF PrepareFinish
  <2>4. PICK intent : intent = [status |-> status, amount |-> call[c].amount,
                                exp |-> now + Ttl, hash |-> FALSE]
    OBVIOUS
  <2>5. intent \in Intent \ {NoRow}
    BY <2>1, <2>2, <2>4, NewIntent
  <2>6. /\ row' = [row EXCEPT ![call[c].key] = intent]
        /\ crossed' = IF row[call[c].key] # NoRow THEN crossed \cup {call[c].key} ELSE crossed
        /\ intent.status = status /\ intent.hash = FALSE
    BY <2>3, <2>4 DEF Save, Cross
  <2>7. /\ \A p \in previews' :
             p \in previews \/ (p.key = call[c].key /\ p.amount = intent.amount)
        /\ previews \subseteq previews'
    <3>1. previews' = IF status = "BLOCKED" THEN previews
                      ELSE previews \cup {[key |-> call[c].key, amount |-> call[c].amount,
                                           exp |-> now + Ttl]}
      BY <2>3, <2>4
    <3>2. intent.amount = call[c].amount
      BY <2>4
    <3>3. PICK preview : preview = [key |-> call[c].key, amount |-> call[c].amount,
                                    exp |-> now + Ttl]
      OBVIOUS
    <3>4. preview.key = call[c].key /\ preview.amount = intent.amount
      BY <3>2, <3>3
    <3>5. previews' = previews \/ previews' = previews \cup {preview}
      BY <3>1, <3>3
    <3> QED
      BY <3>4, <3>5
  <2> QED
    BY <2>1, <2>5, <2>6, <2>7
<1>2. /\ row'[k] = intent /\ \A j \in Keys \ {k} : row'[j] = row[j]
      /\ \A j \in Keys : row[j] # NoRow => row'[j] # NoRow
  BY <1>1 DEF TypeOK
<1>3. /\ UNCHANGED <<entries, executed>>
      /\ crossed \subseteq crossed'
      /\ \A d \in Calls, j \in Keys : Confirms(d, j)' => Confirms(d, j) /\ call'[d] = call[d]
      /\ \A d \in Calls, j \in Keys : Confirms(d, j) => Confirms(d, j)'
  BY <1>1 DEF PrepareFinish, Confirms, TypeOK
<1>4. StatusInv'
  BY <1>1, <1>2 DEF StatusInv, Decisions
<1>5. ConfirmInv'
  BY <1>1, <1>2, <1>3 DEF ConfirmInv
<1>6. OnceInv'
  <2> SUFFICES ASSUME NEW j \in Keys \ crossed'
               PROVE  \/ entries'[j] = 0
                      \/ entries'[j] = 1 /\ \/ row'[j] # NoRow /\ row'[j].status = "COMPLETED"
                                            \/ \E d \in Calls : Confirms(d, j)'
    BY DEF OnceInv
  <2>1. CASE j # k
    BY <1>2, <1>3, <2>1 DEF OnceInv
  <2>2. CASE j = k
    <3>1. row[k] = NoRow
      BY <1>1, <2>2
    <3> QED
      BY <1>3, <2>2, <3>1 DEF OnceInv, ConfirmInv
  <2> QED
    BY <2>1, <2>2
<1>7. PreviewInv'
  BY <1>1, <1>2, <1>3 DEF PreviewInv, TypeOK, Preview
<1>8. ReceiptInv'
  BY <1>1, <1>2, <1>3 DEF ReceiptInv
<1> QED
  BY <1>4, <1>5, <1>6, <1>7, <1>8

\* What is executed was shown, was not executed before, and crosses another handler if
\* one is confirming it.
LEMMA ExecuteKeepsInv ==
  ASSUME Inv, TypeOK', NEW c \in Calls, NEW t \in previews, ConfirmStart(c, t)
  PROVE  Inv'
<1> USE DEF Inv
<1>1. PICK k \in Keys : k = t.key
  BY DEF TypeOK, Preview
<1>2. PICK intent \in Intent : intent = row[k] /\ intent # NoRow
  BY <1>1 DEF ConfirmStart, TypeOK
<1>3. /\ intent.status \in {"REQUIRES_CONFIRMATION", "AUTO_APPROVED"}
      /\ entries' = [entries EXCEPT ![k] = @ + 1]
      /\ executed' = executed \cup {[key |-> k, amount |-> intent.amount]}
      /\ call' = [call EXCEPT ![c] = [op |-> "confirm", key |-> k, intent |-> intent]]
      /\ crossed' = IF Confirming(k) THEN crossed \cup {k} ELSE crossed
      /\ UNCHANGED <<row, previews>>
  BY <1>1, <1>2 DEF ConfirmStart, Confirmable, Execute, Cross
<1>4. /\ call[c] = Idle
      /\ call'[c] = [op |-> "confirm", key |-> k, intent |-> intent] /\ call'[c] # Idle
      /\ \A d \in Calls \ {c} : call'[d] = call[d]
  <2>1. [op |-> "confirm", key |-> k, intent |-> intent] \in Suspended
    BY DEF Suspended
  <2> QED
    BY <1>3, <2>1 DEF ConfirmStart, TypeOK
<1>5. /\ Confirms(c, k)' /\ \A j \in Keys : Confirms(c, j)' => j = k
      /\ \A d \in Calls \ {c}, j \in Keys : Confirms(d, j)' <=> Confirms(d, j)
      /\ \A j \in Keys : ~Confirms(c, j)
  BY <1>4 DEF Confirms
<1>6. Confirming(k) <=> \E d \in Calls : Confirms(d, k)
  BY DEF Confirming, Confirms
<1>7. StatusInv'
  BY <1>3 DEF StatusInv
<1>8. ConfirmInv'
  <2> SUFFICES ASSUME NEW d \in Calls, NEW j \in Keys, Confirms(d, j)'
               PROVE  /\ row'[j] # NoRow
                      /\ call'[d].intent.status \in {"REQUIRES_CONFIRMATION", "AUTO_APPROVED"}
                      /\ [key |-> j, amount |-> call'[d].intent.amount] \in executed'
                      /\ j \notin crossed' => /\ row'[j] = call'[d].intent
                                              /\ \A e \in Calls : Confirms(e, j)' => e = d
    BY DEF ConfirmInv
  <2>1. CASE d = c
    BY <1>2, <1>3, <1>4, <1>5, <1>6, <2>1
  <2>2. CASE d # c
    BY <1>3, <1>4, <1>5, <1>6, <2>2 DEF ConfirmInv
  <2> QED
    BY <2>1, <2>2
<1>9. OnceInv'
  <2> SUFFICES ASSUME NEW j \in Keys \ crossed'
               PROVE  \/ entries'[j] = 0
                      \/ entries'[j] = 1 /\ \/ row'[j] # NoRow /\ row'[j].status = "COMPLETED"
                                            \/ \E d \in Calls : Confirms(d, j)'
    BY DEF OnceInv
  <2>1. CASE j = k
    <3>1. entries[k] = 0
      BY <1>2, <1>3, <1>6, <2>1 DEF OnceInv
    <3> QED
      BY <1>3, <1>5, <2>1, <3>1 DEF TypeOK
  <2>2. CASE j # k
    <3>1. entries'[j] = entries[j] /\ j \notin crossed
      BY <1>3, <2>2 DEF TypeOK
    <3> QED
      BY <1>3, <1>5, <2>2, <3>1 DEF OnceInv
  <2> QED
    BY <2>1, <2>2
<1>10. PreviewInv'
  BY <1>3 DEF PreviewInv
<1>11. ReceiptInv'
  <2>1. k \in crossed \/ t.amount = intent.amount
    BY <1>1, <1>2 DEF PreviewInv
  <2> QED
    BY <1>1, <1>3, <2>1 DEF ReceiptInv
<1> QED
  BY <1>7, <1>8, <1>9, <1>10, <1>11

\* A receipt is saved over the intent that was executed, or after handlers crossed.
LEMMA ReceiptKeepsInv ==
  ASSUME Inv, TypeOK', NEW c \in Calls, ConfirmFinish(c)
  PROVE  Inv'
<1> USE DEF Inv
<1>1. PICK k \in Keys : k = call[c].key
  BY CallTypes DEF ConfirmFinish
<1>2. PICK intent \in Intent : intent = call[c].intent
  BY CallTypes DEF ConfirmFinish
<1>3. PICK receipt \in Intent \ {NoRow} :
        /\ receipt = Receipt(k, intent) /\ receipt.amount = intent.amount
        /\ receipt.status = "COMPLETED" /\ receipt.hash = TRUE
  BY ReceiptFacts
<1>4. /\ row' = [row EXCEPT ![k] = receipt]
      /\ call' = [call EXCEPT ![c] = Idle]
      /\ UNCHANGED <<previews, entries, executed, crossed>>
      /\ Confirms(c, k)
  BY <1>1, <1>2, <1>3 DEF ConfirmFinish, Save, Confirms
<1>5. row'[k] = receipt /\ \A j \in Keys \ {k} : row'[j] = row[j]
  BY <1>4 DEF TypeOK
<1>6. \A d \in Calls, j \in Keys :
        /\ Confirms(d, j)' => d # c /\ Confirms(d, j) /\ call'[d] = call[d]
        /\ Confirms(d, j) /\ d # c => Confirms(d, j)'
  BY <1>4 DEF Confirms, TypeOK
<1>7. \A j \in Keys : Confirms(c, j) => j = k
  BY <1>1 DEF Confirms
<1>8. StatusInv'
  BY <1>3, <1>5 DEF StatusInv
<1>9. ConfirmInv'
  BY <1>3, <1>4, <1>5, <1>6 DEF ConfirmInv
<1>10. OnceInv'
  BY <1>3, <1>4, <1>5, <1>6, <1>7 DEF OnceInv
<1>11. PreviewInv'
  <2>1. k \notin crossed => receipt.amount = row[k].amount
    BY <1>2, <1>3, <1>4 DEF ConfirmInv
  <2> QED
    BY <1>3, <1>4, <1>5, <2>1 DEF PreviewInv, TypeOK, Preview
<1>12. ReceiptInv'
  BY <1>2, <1>3, <1>4, <1>5 DEF ReceiptInv, ConfirmInv
<1> QED
  BY <1>8, <1>9, <1>10, <1>11, <1>12

\* A cancelled intent was not completed; if it is being executed, handlers cross.
LEMMA CancelKeepsInv ==
  ASSUME Inv, TypeOK', NEW k \in Keys, Cancel(k)
  PROVE  Inv'
<1> USE DEF Inv
<1>1. PICK cancelled \in Intent \ {NoRow} :
        /\ cancelled = [row[k] EXCEPT !.status = "CANCELLED"]
        /\ cancelled.status = "CANCELLED" /\ cancelled.hash = row[k].hash
        /\ cancelled.amount = row[k].amount
  BY CancelledFacts DEF Cancel, TypeOK
<1>2. /\ row[k] # NoRow /\ row[k].status # "COMPLETED"
      /\ row' = [row EXCEPT ![k] = cancelled]
      /\ UNCHANGED <<previews, call, entries, executed>>
      /\ crossed' = IF Confirming(k) THEN crossed \cup {k} ELSE crossed
  BY <1>1 DEF Cancel, Cross, TypeOK
<1>3. row'[k] = cancelled /\ \A j \in Keys \ {k} : row'[j] = row[j]
  BY <1>2 DEF TypeOK
<1>4. \A d \in Calls, j \in Keys : Confirms(d, j)' <=> Confirms(d, j)
  BY <1>2 DEF Confirms
<1>5. Confirming(k) <=> \E d \in Calls : Confirms(d, k)
  BY DEF Confirming, Confirms
<1>6. StatusInv'
  BY <1>1, <1>2, <1>3 DEF StatusInv
<1>7. ConfirmInv'
  BY <1>1, <1>2, <1>3, <1>4, <1>5 DEF ConfirmInv
<1>8. OnceInv'
  BY <1>1, <1>2, <1>3, <1>4, <1>5 DEF OnceInv
<1>9. PreviewInv'
  BY <1>1, <1>2, <1>3 DEF PreviewInv, TypeOK, Preview
<1>10. ReceiptInv'
  BY <1>1, <1>2, <1>3 DEF ReceiptInv, StatusInv
<1> QED
  BY <1>6, <1>7, <1>8, <1>9, <1>10

\* Every step keeps the invariant.
LEMMA NextInv == Inv /\ [Next]_vars => Inv'
<1> SUFFICES ASSUME Inv, [Next]_vars PROVE Inv'
  OBVIOUS
<1>0. TypeOK /\ TypeOK'
  BY NextTypeOK DEF Inv
<1>1. ASSUME NEW c \in Calls, NEW k \in Keys, NEW a \in Amounts, PrepareStart(c, k, a)
      PROVE  Inv'
  <2>1. /\ UNCHANGED <<row, previews, entries, executed, crossed>>
        /\ \A d \in Calls, j \in Keys :
             (Confirms(d, j)' <=> Confirms(d, j)) /\ (Confirms(d, j) => call'[d] = call[d])
    BY <1>0, <1>1 DEF PrepareStart, Confirms, TypeOK
  <2> QED
    BY <1>0, <2>1
    DEF Inv, StatusInv, ConfirmInv, OnceInv, PreviewInv, ReceiptInv
<1>2. ASSUME NEW k \in Keys, ShowPreview(k)
      PROVE  Inv'
  BY <1>0, <1>2
  DEF ShowPreview, Inv, StatusInv, ConfirmInv, OnceInv, PreviewInv, ReceiptInv, Confirms
<1>3. CASE Restart
  <2>1. /\ UNCHANGED <<row, previews, executed, crossed>>
        /\ \A d \in Calls, j \in Keys : ~Confirms(d, j)'
        /\ \A k \in Keys : entries'[k] = 0
    BY <1>3 DEF Restart, Confirms
  <2> QED
    BY <1>0, <2>1
    DEF Inv, StatusInv, ConfirmInv, OnceInv, PreviewInv, ReceiptInv
<1>4. CASE Tick \/ UNCHANGED vars
  BY <1>0, <1>4
  DEF Tick, vars, Inv, StatusInv, ConfirmInv, OnceInv, PreviewInv, ReceiptInv, Confirms
<1> QED
  BY <1>0, <1>1, <1>2, <1>3, <1>4, PrepareKeepsInv, ExecuteKeepsInv, ReceiptKeepsInv,
     CancelKeepsInv DEF Next

\* The invariant holds in every behaviour.
THEOREM InvCorrect == Spec => []Inv
BY InitInv, NextInv, PTL DEF Spec

\* An intent is in the ledger once unless two handlers worked on it at the same time.
THEOREM ExecutedCorrect == Spec => []ExecutedOnceUnlessCrossed
<1>1. Inv => ExecutedOnceUnlessCrossed
  BY DEF Inv, OnceInv, ExecutedOnceUnlessCrossed
<1> QED
  BY <1>1, InvCorrect, PTL

\* Every receipt is of an execution of its amount, and every execution of a preview.
THEOREM ReceiptsCorrect == Spec => []ReceiptsAreOfExecutions
<1>1. Inv => ReceiptsAreOfExecutions
  <2> SUFFICES ASSUME Inv PROVE ReceiptsAreOfExecutions
    OBVIOUS
  <2>1. \A k \in Keys : row[k] # NoRow => row[k].hash \in BOOLEAN
    BY DEF Inv, TypeOK, Intent
  <2> QED
    BY <2>1 DEF Inv, StatusInv, ReceiptInv, ReceiptsAreOfExecutions
<1> QED
  BY <1>1, InvCorrect, PTL

---------------------------------------------------------------------------------------
(* Events and the lifecycle.                                                           *)

\* Every step keeps the events that explain a status, given the invariant.
LEMMA EventsStep ==
  ASSUME Inv, TypeOK', EventsExplainStatus, [Next]_vars
  PROVE  EventsExplainStatus'
<1> USE DEF Inv
<1>1. ASSUME NEW c \in Calls, NEW k \in Keys, NEW a \in Amounts, PrepareStart(c, k, a)
      PROVE  EventsExplainStatus'
  BY <1>1 DEF PrepareStart, Track, EventsExplainStatus
<1>2. ASSUME NEW c \in Calls, PrepareFinish(c)
      PROVE  EventsExplainStatus'
  <2>1. PICK k \in Keys : k = call[c].key
    BY <1>2, CallTypes DEF PrepareFinish
  <2>2. PICK intent :
          /\ row' = [row EXCEPT ![k] = intent] /\ intent.status \in Decisions
          /\ events' = events \cup ({"transfer_prepared"} \X {k})
    <3>1. PICK status \in Decisions :
            /\ row' = [row EXCEPT ![k] = [status |-> status, amount |-> call[c].amount,
                                          exp |-> now + Ttl, hash |-> FALSE]]
            /\ events' = events \cup ({"transfer_prepared"} \X {k})
      BY <1>2, <2>1 DEF PrepareFinish, Save, Track
    <3>2. PICK intent : intent = [status |-> status, amount |-> call[c].amount,
                                  exp |-> now + Ttl, hash |-> FALSE]
      OBVIOUS
    <3>3. intent.status \in Decisions
      BY <3>2
    <3> QED
      BY <3>1, <3>2, <3>3
  <2>3. row'[k] = intent /\ \A j \in Keys \ {k} : row'[j] = row[j]
    BY <2>2 DEF TypeOK
  <2> QED
    BY <2>2, <2>3 DEF EventsExplainStatus, Decisions
<1>3. ASSUME NEW c \in Calls, ConfirmFinish(c)
      PROVE  EventsExplainStatus'
  <2>1. PICK k \in Keys : k = call[c].key /\ Confirms(c, k)
    BY <1>3, CallTypes DEF ConfirmFinish, Confirms
  <2>2. PICK receipt : receipt = Receipt(k, call[c].intent) /\ receipt.status = "COMPLETED"
    BY <1>3, CallTypes, ReceiptFacts DEF ConfirmFinish
  <2>3. /\ row' = [row EXCEPT ![k] = receipt]
        /\ events' = events \cup (SettledEvents \X {k})
    BY <1>3, <2>1, <2>2 DEF ConfirmFinish, Save, Track
  <2>4. row'[k] = receipt /\ \A j \in Keys \ {k} : row'[j] = row[j]
    BY <2>3 DEF TypeOK
  <2>5. <<"transfer_prepared", k>> \in events
    BY <2>1 DEF ConfirmInv, EventsExplainStatus
  <2> QED
    BY <2>2, <2>3, <2>4, <2>5 DEF EventsExplainStatus, SettledEvents
<1>4. ASSUME NEW k \in Keys, Cancel(k)
      PROVE  EventsExplainStatus'
  <2>1. PICK cancelled : /\ cancelled = [row[k] EXCEPT !.status = "CANCELLED"]
                         /\ cancelled.status = "CANCELLED"
    BY <1>4, CancelledFacts DEF Cancel, TypeOK
  <2>2. row'[k] = cancelled /\ \A j \in Keys \ {k} : row'[j] = row[j]
    BY <1>4, <2>1 DEF Cancel, TypeOK
  <2>3. row[k] # NoRow /\ events' = events \cup ({"transfer_cancelled"} \X {k})
    BY <1>4 DEF Cancel, Track
  <2> QED
    BY <2>1, <2>2, <2>3 DEF EventsExplainStatus
<1>5. CASE UNCHANGED <<row, events>>
  BY <1>5 DEF EventsExplainStatus
<1> QED
  BY <1>1, <1>2, <1>3, <1>4, <1>5
  DEF Next, vars, ConfirmStart, ShowPreview, Restart, Tick

\* The events of the analytics explain the status of every intent, crossed or not.
THEOREM EventsCorrect == Spec => []EventsExplainStatus
<1>1. Init => EventsExplainStatus
  BY DEF Init, EventsExplainStatus
<1>2. Inv /\ TypeOK' /\ EventsExplainStatus /\ [Next]_vars => EventsExplainStatus'
  BY EventsStep
<1> QED
  BY <1>1, <1>2, InvCorrect, TypeCorrect, PTL DEF Spec

\* The walks of confirm, prepare and cancel through the table.
LEMMA DemoWalks ==
  /\ \A d \in Decisions : d \in Lifecycle!Reachable["DRAFT"]
  /\ \A s \in {"REQUIRES_CONFIRMATION", "AUTO_APPROVED"} :
       "CANCELLED" \in Lifecycle!Reachable[s] /\ "COMPLETED" \in Lifecycle!Reachable[s]
<1>1. ASSUME NEW s \in Statuses, NEW t \in Lifecycle!Reachable[s], NEW u \in Statuses,
             <<t, u>> \in Lifecycle!Transitions
      PROVE  u \in Lifecycle!Reachable[s]
  <2>1. ASSUME NEW S \in SUBSET Statuses, s \in S,
               \A x \in Lifecycle!Transitions : x[1] \in S => x[2] \in S
        PROVE  u \in S
    <3>1. t \in S
      BY <1>1, <2>1 DEF Lifecycle!Reachable, Lifecycle!Statuses, Statuses
    <3> QED
      BY <1>1, <2>1, <3>1
  <2> QED
    BY <1>1, <2>1 DEF Lifecycle!Reachable, Lifecycle!Statuses, Statuses
<1>2. \A s \in Statuses : s \in Lifecycle!Reachable[s]
  BY DEF Lifecycle!Reachable, Lifecycle!Statuses, Statuses
<1>3. \A d \in Decisions : <<"DRAFT", d>> \in Lifecycle!Transitions
  BY DEF Lifecycle!Transitions, Lifecycle!Decisions, Decisions
<1>4. \A s \in {"REQUIRES_CONFIRMATION", "AUTO_APPROVED"} :
        /\ <<s, "CANCELLED">> \in Lifecycle!Transitions
        /\ <<s, "CONFIRMED">> \in Lifecycle!Transitions
  BY DEF Lifecycle!Transitions
<1>5. /\ <<"CONFIRMED", "SIGNING">> \in Lifecycle!Transitions
      /\ <<"SIGNING", "SUBMITTED">> \in Lifecycle!Transitions
      /\ <<"SUBMITTED", "COMPLETED">> \in Lifecycle!Transitions
  BY DEF Lifecycle!Transitions
<1>6. /\ Decisions \subseteq Statuses
      /\ {"DRAFT", "REQUIRES_CONFIRMATION", "AUTO_APPROVED", "CANCELLED", "CONFIRMED",
          "SIGNING", "SUBMITTED", "COMPLETED"} \subseteq Statuses
  BY DEF Decisions, Statuses
<1>7. \A d \in Decisions : d \in Lifecycle!Reachable["DRAFT"]
  BY <1>1, <1>2, <1>3, <1>6
<1>8. ASSUME NEW s \in {"REQUIRES_CONFIRMATION", "AUTO_APPROVED"}
      PROVE  "CANCELLED" \in Lifecycle!Reachable[s] /\ "COMPLETED" \in Lifecycle!Reachable[s]
  <2>1. s \in Statuses /\ s \in Lifecycle!Reachable[s]
    BY <1>2, <1>6
  <2>2. "CANCELLED" \in Lifecycle!Reachable[s] /\ "CONFIRMED" \in Lifecycle!Reachable[s]
    BY <1>1, <1>4, <1>6, <2>1
  <2>3. "SIGNING" \in Lifecycle!Reachable[s]
    BY <1>1, <1>5, <1>6, <2>1, <2>2
  <2>4. "SUBMITTED" \in Lifecycle!Reachable[s]
    BY <1>1, <1>5, <1>6, <2>1, <2>3
  <2> QED
    BY <1>1, <1>5, <1>6, <2>1, <2>2, <2>4
<1> QED
  BY <1>7, <1>8

\* Handlers that cross replace the intent; what was replaced stays so, and where nothing
\* was saved and nobody crossed, nothing happened.
LEMMA CrossingReplaces ==
  ASSUME Inv, NEW k \in Keys, crossed' = crossed \cup {k}, row[k] # NoRow,
         \A j \in Keys \ {k} : row'[j] = row[j]
  PROVE  [Lifecycle!Next]_<<Life, Payment>>
<1>1. Life[k] # "DRAFT"
  BY DEF Life, Inv, StatusInv, Decisions
<1>2. Life' = [Life EXCEPT ![k] = "REPLACED"]
  BY DEF Life
<1>3. Payment' = [Payment EXCEPT ![k] = NoPayment]
  BY DEF Payment
<1> QED
  BY <1>1, <1>2, <1>3 DEF Lifecycle!Next, Lifecycle!Replace

\* What happens to a replaced intent is not part of the lifecycle.
LEMMA CrossedStutters ==
  ASSUME NEW k \in crossed, crossed' = crossed, \A j \in Keys \ {k} : row'[j] = row[j]
  PROVE  UNCHANGED <<Life, Payment>>
BY DEF Life, Payment

\* A status saved without a hash over an intent without one is a step along the table.
LEMMA SaveAdvances ==
  ASSUME Inv, NEW k \in Keys \ crossed, crossed' = crossed, NEW intent \in Intent \ {NoRow},
         row' = [row EXCEPT ![k] = intent], intent.hash = FALSE,
         row[k] = NoRow \/ row[k].hash = FALSE,
         Life[k] \in Statuses, intent.status \in Lifecycle!Reachable[Life[k]],
         intent.status \notin {"SUBMITTED", "PENDING", "COMPLETED"}
  PROVE  [Lifecycle!Next]_<<Life, Payment>>
<1>1. row'[k] = intent /\ \A j \in Keys \ {k} : row'[j] = row[j]
  BY DEF Inv, TypeOK
<1>2. Life' = [Life EXCEPT ![k] = intent.status]
  <2>1. \A j \in Keys : Life'[j] = IF j = k THEN intent.status ELSE Life[j]
    BY <1>1 DEF Life
  <2> QED
    BY <2>1 DEF Life
<1>3. Payment' = Payment
  BY <1>1 DEF Payment
<1>4. intent.status \in Statuses
  BY DEF Intent
<1>5. Lifecycle!Advance(k, intent.status)
  BY <1>2, <1>3 DEF Lifecycle!Advance, Lifecycle!Statuses, Lifecycle!Submitted, Statuses
<1> QED
  BY <1>4, <1>5 DEF Lifecycle!Next, Lifecycle!Statuses, Statuses

\* Every step of the handlers is a step of the abstract lifecycle or none.
LEMMA LifecycleStep ==
  ASSUME Inv, TypeOK', [Next]_vars
  PROVE  [Lifecycle!Next]_<<Life, Payment>>
<1> USE DEF Inv
<1>1. ASSUME NEW c \in Calls, PrepareFinish(c)
      PROVE  [Lifecycle!Next]_<<Life, Payment>>
  <2>1. PICK k \in Keys : k = call[c].key
    BY <1>1, CallTypes DEF PrepareFinish
  <2>2. PICK status \in Decisions :
          /\ row' = [row EXCEPT ![k] = [status |-> status, amount |-> call[c].amount,
                                        exp |-> now + Ttl, hash |-> FALSE]]
          /\ crossed' = IF row[k] # NoRow THEN crossed \cup {k} ELSE crossed
    BY <1>1, <2>1 DEF PrepareFinish, Save, Cross
  <2>3. PICK intent : intent = [status |-> status, amount |-> call[c].amount,
                                exp |-> now + Ttl, hash |-> FALSE]
    OBVIOUS
  <2>4. intent \in Intent \ {NoRow} /\ intent.status = status /\ intent.hash = FALSE
    <3>1. call[c].amount \in Amounts /\ now + Ttl \in Nat
      BY <1>1, CallTypes DEF PrepareFinish, TypeOK
    <3>2. intent \in Intent \ {NoRow}
      BY <2>3, <3>1, NewIntent
    <3> QED
      BY <2>3, <3>2
  <2>5. /\ row' = [row EXCEPT ![k] = intent]
        /\ \A j \in Keys \ {k} : row'[j] = row[j]
    BY <2>2, <2>3 DEF TypeOK
  <2>6. CASE row[k] # NoRow
    BY <2>2, <2>5, <2>6, CrossingReplaces
  <2>7. CASE row[k] = NoRow /\ k \in crossed
    BY <2>2, <2>5, <2>7, CrossedStutters
  <2>8. CASE row[k] = NoRow /\ k \notin crossed
    <3>1. Life[k] = "DRAFT" /\ "DRAFT" \in Statuses
      BY <2>8 DEF Life, Statuses
    <3>2. status \in Lifecycle!Reachable[Life[k]]
      BY <3>1, DemoWalks
    <3>3. /\ intent.status \in Lifecycle!Reachable[Life[k]]
          /\ intent.status \notin {"SUBMITTED", "PENDING", "COMPLETED"}
      BY <2>4, <3>2 DEF Decisions
    <3>4. k \in Keys \ crossed /\ crossed' = crossed /\ Life[k] \in Statuses
      BY <2>2, <2>8, <3>1
    <3> QED
      BY <2>4, <2>5, <2>8, <3>3, <3>4, SaveAdvances
  <2> QED
    BY <2>6, <2>7, <2>8
<1>2. ASSUME NEW c \in Calls, NEW t \in previews, ConfirmStart(c, t)
      PROVE  [Lifecycle!Next]_<<Life, Payment>>
  <2>1. t.key \in Keys
    BY DEF TypeOK, Preview
  <2>2. /\ row[t.key] # NoRow /\ UNCHANGED row
        /\ crossed' = crossed \/ crossed' = crossed \cup {t.key}
    BY <1>2 DEF ConfirmStart, Cross
  <2>3. CASE crossed' = crossed
    BY <2>2, <2>3 DEF Life, Payment
  <2> QED
    BY <2>1, <2>2, <2>3, CrossingReplaces
<1>3. ASSUME NEW c \in Calls, ConfirmFinish(c)
      PROVE  [Lifecycle!Next]_<<Life, Payment>>
  <2>1. PICK k \in Keys : k = call[c].key /\ Confirms(c, k)
    BY <1>3, CallTypes DEF ConfirmFinish, Confirms
  <2>2. PICK intent \in Intent : intent = call[c].intent
    BY <1>3, CallTypes DEF ConfirmFinish
  <2>3. PICK receipt \in Intent \ {NoRow} :
          /\ receipt = Receipt(k, intent) /\ receipt.amount = intent.amount
          /\ receipt.status = "COMPLETED" /\ receipt.hash = TRUE
    BY ReceiptFacts
  <2>4. row' = [row EXCEPT ![k] = receipt] /\ crossed' = crossed
    BY <1>3, <2>1, <2>2, <2>3 DEF ConfirmFinish, Save
  <2>5. row'[k] = receipt /\ \A j \in Keys \ {k} : row'[j] = row[j]
    BY <2>4 DEF TypeOK
  <2>6. CASE k \in crossed
    BY <2>4, <2>5, <2>6, CrossedStutters
  <2>7. CASE k \notin crossed
    <3>1. /\ row[k] = intent /\ row[k] # NoRow
          /\ intent.status \in {"REQUIRES_CONFIRMATION", "AUTO_APPROVED"}
      BY <2>1, <2>2, <2>7 DEF ConfirmInv
    <3>2. intent.hash = FALSE
      <4>1. intent.hash \in BOOLEAN
        BY DEF Intent
      <4> QED
        BY <3>1, <4>1 DEF StatusInv
    <3>3. Life[k] = intent.status /\ Payment[k] = NoPayment
      BY <2>7, <3>1, <3>2 DEF Life, Payment
    <3>4. Life' = [Life EXCEPT ![k] = "COMPLETED"]
      <4>1. \A j \in Keys : Life'[j] = IF j = k THEN "COMPLETED" ELSE Life[j]
        BY <2>3, <2>4, <2>5, <2>7 DEF Life
      <4> QED
        BY <4>1 DEF Life
    <3>5. Payment' = [Payment EXCEPT ![k] = receipt.amount]
      <4>1. \A j \in Keys : Payment'[j] = IF j = k THEN receipt.amount ELSE Payment[j]
        BY <2>3, <2>4, <2>5, <2>7 DEF Payment
      <4> QED
        BY <4>1 DEF Payment
    <3>6. "COMPLETED" \in Lifecycle!Reachable[Life[k]]
      BY <3>1, <3>3, DemoWalks
    <3>7. Lifecycle!Pay(k, "COMPLETED", receipt.amount)
      BY <3>1, <3>3, <3>4, <3>5, <3>6
      DEF Lifecycle!Pay, Lifecycle!Statuses, Lifecycle!Submitted
    <3>8. receipt.amount \in Amounts
      BY DEF Intent
    <3> QED
      BY <3>7, <3>8 DEF Lifecycle!Next, Lifecycle!Statuses
  <2> QED
    BY <2>6, <2>7
<1>4. ASSUME NEW k \in Keys, Cancel(k)
      PROVE  [Lifecycle!Next]_<<Life, Payment>>
  <2>1. PICK cancelled \in Intent \ {NoRow} :
          /\ cancelled = [row[k] EXCEPT !.status = "CANCELLED"]
          /\ cancelled.status = "CANCELLED" /\ cancelled.hash = row[k].hash
    BY <1>4, CancelledFacts DEF Cancel, TypeOK
  <2>2. /\ row[k] # NoRow /\ row[k] \in Intent
        /\ row' = [row EXCEPT ![k] = cancelled]
        /\ crossed' = crossed \/ crossed' = crossed \cup {k}
    BY <1>4, <2>1 DEF Cancel, Cross, TypeOK
  <2>3. \A j \in Keys \ {k} : row'[j] = row[j]
    BY <2>2 DEF TypeOK
  <2>4. CASE crossed' = crossed \cup {k}
    BY <2>2, <2>3, <2>4, CrossingReplaces
  <2>5. CASE crossed' = crossed /\ k \in crossed
    BY <2>3, <2>5, CrossedStutters
  <2>6. CASE crossed' = crossed /\ k \notin crossed
    <3>1. row[k].status \in {"REQUIRES_CONFIRMATION", "AUTO_APPROVED"}
      BY <1>4, <2>2 DEF Cancel, StatusInv, Decisions
    <3>2. row[k].hash = FALSE
      <4>1. row[k].hash \in BOOLEAN
        BY <2>2 DEF Intent
      <4> QED
        BY <2>2, <3>1, <4>1 DEF StatusInv
    <3>3. Life[k] = row[k].status /\ row[k].status \in Statuses
      BY <2>2, <2>6 DEF Life, Intent
    <3>4. "CANCELLED" \in Lifecycle!Reachable[Life[k]]
      BY <3>1, <3>3, DemoWalks
    <3> QED
      BY <2>1, <2>2, <2>6, <3>2, <3>3, <3>4, SaveAdvances
  <2> QED
    BY <2>2, <2>4, <2>5, <2>6
<1>5. CASE UNCHANGED <<row, crossed>>
  BY <1>5 DEF Life, Payment
<1> QED
  BY <1>1, <1>2, <1>3, <1>4, <1>5
  DEF Next, vars, PrepareStart, ShowPreview, Restart, Tick

\* Demo payments implement the lifecycle mainnet payments implement: a status walks the
\* table and gets its payment once, unless handlers crossed.
THEOREM LifecycleCorrect == Spec => ImplementsLifecycle
<1>1. Init => Lifecycle!Init
  BY DEF Init, Lifecycle!Init, Life, Payment
<1>2. Inv /\ TypeOK' /\ [Next]_vars => [Lifecycle!Next]_<<Life, Payment>>
  BY LifecycleStep
<1> QED
  BY <1>1, <1>2, InvCorrect, TypeCorrect, PTL
  DEF Spec, ImplementsLifecycle, Lifecycle!Spec
=======================================================================================
