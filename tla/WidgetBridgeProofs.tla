----------------------------- MODULE WidgetBridgeProofs -----------------------------
(***************************************************************************)
(* Theorems about WidgetBridge, for any number of calls, every kind of     *)
(* host and all tools and views.                                           *)
(***************************************************************************)
EXTENDS WidgetBridge, FiniteSetTheorems, TLAPS

AnyCall == SomeCall \cup EndedCall \cup {NotStarted}

-----------------------------------------------------------------------------------
(* The parts of callTool.                                                  *)

\* The pc of a call tells what is known of it.
LEMMA CallShape ==
  ASSUME NEW r \in AnyCall
  PROVE  /\ r.pc \in {"init", "rpc", "compat", "await", "handoff"} => r \in SomeCall
         /\ r.pc \in {"done", "threw"} => r \in EndedCall
         /\ r.pc = "new" => r = NotStarted
         /\ r \in SomeCall \cup EndedCall => r.pc # "new"
  BY DEF AnyCall, SomeCall, EndedCall, NotStarted

\* A call that returns or throws keeps its tool, its counts and its history.
LEMMA EndedFacts ==
  ASSUME NEW r \in SomeCall, NEW pc \in {"done", "threw"}, NEW d \in Data \cup {NoData}
  PROVE  /\ Ended(r, pc, d) \in EndedCall
         /\ Ended(r, pc, d).pc = pc
         /\ Ended(r, pc, d).answer = d
         /\ Ended(r, pc, d).tool = r.tool
         /\ Ended(r, pc, d).invoked = r.invoked
         /\ Ended(r, pc, d).failed = r.failed
         /\ Ended(r, pc, d).emptied = r.emptied
  BY DEF Ended, SomeCall, EndedCall

\* A call whose embedded request failed goes to the other API or throws.
LEMMA FallenFacts ==
  ASSUME NEW r \in SomeCall
  PROVE  /\ Fallen(r) \in SomeCall \cup EndedCall
         /\ Fallen(r).pc = IF host.compat THEN "compat" ELSE "threw"
         /\ Fallen(r).tool = r.tool
         /\ Fallen(r).invoked \in {r.invoked, r.invoked + 1}
         /\ Fallen(r).failed = TRUE
         /\ Fallen(r).emptied = r.emptied
  <1> DEFINE f == [r EXCEPT !.failed = TRUE]
  <1>1. f \in SomeCall /\ f.tool = r.tool /\ f.invoked = r.invoked /\ f.failed = TRUE
        /\ f.emptied = r.emptied
    BY DEF SomeCall
  <1>2. CASE host.compat
    <2>1. Fallen(r) = [r EXCEPT !.pc = "compat", !.invoked = @ + 1, !.failed = TRUE]
      BY <1>2 DEF Fallen
    <2>2. r.invoked + 1 \in Nat
      BY DEF SomeCall
    <2> QED
      BY <1>2, <2>1, <2>2 DEF SomeCall
  <1>3. CASE ~host.compat
    <2>1. Fallen(r) = Ended(f, "threw", NoData)
      BY <1>3 DEF Fallen
    <2> HIDE DEF f
    <2> QED
      BY <1>1, <1>3, <2>1, EndedFacts
  <1> QED
    BY <1>2, <1>3

\* A call with an empty answer is answered by the newest push or watches.
LEMMA EmptiedFacts ==
  ASSUME TypeOK, NEW r \in SomeCall
  PROVE  /\ Emptied(r) \in SomeCall \cup EndedCall
         /\ Emptied(r).pc \in {"await", "done"}
         /\ Emptied(r).tool = r.tool
         /\ Emptied(r).invoked = r.invoked
         /\ Emptied(r).failed = r.failed
         /\ Emptied(r).emptied = TRUE
         /\ Emptied(r).pc = "await" =>
              /\ Emptied(r).startedAt = r.startedAt
              /\ ~(lastPushed.at >= r.startedAt /\ Accepts(r.tool, lastPushed.data))
  <1> DEFINE e == [r EXCEPT !.emptied = TRUE]
  <1>1. e \in SomeCall /\ e.tool = r.tool /\ e.invoked = r.invoked /\ e.failed = r.failed
        /\ e.emptied = TRUE
    BY DEF SomeCall
  <1>2. CASE lastPushed.at >= r.startedAt /\ Accepts(r.tool, lastPushed.data)
    <2>1. Emptied(r) = Ended(e, "done", lastPushed.data)
      BY <1>2 DEF Emptied, Answered
    <2>2. lastPushed.data \in Data \cup {NoData}
      BY DEF TypeOK
    <2> HIDE DEF e
    <2> QED
      BY <1>1, <2>1, <2>2, EndedFacts
  <1>3. CASE ~(lastPushed.at >= r.startedAt /\ Accepts(r.tool, lastPushed.data))
    <2>1. Emptied(r) = [r EXCEPT !.pc = "await", !.emptied = TRUE]
      BY <1>3 DEF Emptied
    <2> QED
      BY <1>3, <2>1 DEF SomeCall
  <1> QED
    BY <1>2, <1>3

\* A call whose handshake is done waits for its request.
LEMMA RequestingFacts ==
  ASSUME NEW r \in SomeCall
  PROVE  /\ Requesting(r) \in SomeCall
         /\ Requesting(r).pc = "rpc"
         /\ Requesting(r).tool = r.tool
         /\ Requesting(r).invoked = r.invoked + 1
         /\ Requesting(r).failed = r.failed
         /\ Requesting(r).emptied = r.emptied
  <1>1. r.invoked + 1 \in Nat
    BY DEF SomeCall
  <1> QED
    BY <1>1 DEF Requesting, SomeCall

-----------------------------------------------------------------------------------
(* Requests and their ids.                                                 *)

\* Callers that send one after another get new and different ids.
LEMMA NextIds ==
  ASSUME NEW callers \in SUBSET (0 .. MaxCalls), rpcId \in Nat, NEW waiting
  PROVE  /\ Cardinality(callers) \in Nat
         /\ \A c \in callers : /\ NextId(waiting, callers, c) \in Nat
                               /\ NextId(waiting, callers, c) > rpcId
                               /\ NextId(waiting, callers, c) <= rpcId + Cardinality(callers)
         /\ \A c, d \in callers :
              NextId(waiting, callers, c) = NextId(waiting, callers, d) => c = d
  <1> DEFINE Upto(c) == {d \in callers : d <= c}
  <1>1. IsFiniteSet(callers) /\ Cardinality(callers) \in Nat
    <2>1. IsFiniteSet(0 .. MaxCalls)
      BY ConstantsAssumption, FS_Interval
    <2> QED
      BY <2>1, FS_Subset, FS_CardinalityType
  <1>2. \A c \in callers : /\ IsFiniteSet(Upto(c))
                           /\ Cardinality(Upto(c)) \in Nat
                           /\ Cardinality(Upto(c)) <= Cardinality(callers)
    <2> TAKE c \in callers
    <2>1. Upto(c) \in SUBSET callers
      OBVIOUS
    <2> HIDE DEF Upto
    <2> QED
      BY <1>1, <2>1, FS_Subset, FS_CardinalityType
  <1>3. \A c \in callers : Cardinality(Upto(c)) # 0
    <2> TAKE c \in callers
    <2>1. c \in Upto(c)
      BY ConstantsAssumption
    <2> HIDE DEF Upto
    <2> QED
      BY <1>2, <2>1, FS_EmptySet
  <1>4. \A c, d \in callers : c < d => Cardinality(Upto(c)) # Cardinality(Upto(d))
    <2> SUFFICES ASSUME NEW c \in callers, NEW d \in callers, c < d,
                        Cardinality(Upto(c)) = Cardinality(Upto(d))
                 PROVE  FALSE
      OBVIOUS
    <2>1. \A e \in callers : e \in Int
      BY ConstantsAssumption
    <2>2. \A e \in callers : e <= c => e <= d
      BY <2>1
    <2>3. d <= d /\ ~(d <= c)
      BY <2>1
    <2>4. Upto(c) \in SUBSET Upto(d) /\ d \in Upto(d) /\ d \notin Upto(c)
      BY <2>2, <2>3
    <2> HIDE DEF Upto
    <2> QED
      BY <1>2, <2>4, FS_Subset
  <1>5. \A c \in callers : NextId(waiting, callers, c) = rpcId + Cardinality(Upto(c))
    BY DEF NextId
  <1>6. \A c, d \in callers : c < d \/ d < c \/ c = d
    BY ConstantsAssumption
  <1> HIDE DEF Upto
  <1>7. \A c, d \in callers :
          NextId(waiting, callers, c) = NextId(waiting, callers, d) => c = d
    BY <1>2, <1>4, <1>5, <1>6
  <1> QED
    BY <1>1, <1>2, <1>3, <1>5, <1>7

\* Sending: the new requests have new ids, one for each caller; what waited waits.
LEMMA SendFacts ==
  ASSUME TypeOK, WaitingInv, NEW callers \in SUBSET (0 .. MaxCalls),
         NEW waiting \in SUBSET pending, Send(waiting, callers)
  PROVE  /\ rpcId' \in Nat
         /\ posted' \subseteq [id : Nat, for : 0 .. MaxCalls]
         /\ pending' \subseteq posted'
         /\ \A p \in posted' : p.id <= rpcId'
         /\ \A p, q \in posted' : p.id = q.id => p = q
         /\ waiting \subseteq pending'
         /\ \A c \in callers : \E w \in pending' : w.for = c
         /\ \A w \in pending' : w \in waiting \/ w.for \in callers
         /\ \A v, w \in pending' \ waiting : v.for = w.for => v = w
  <1> DEFINE Id(c) == NextId(waiting, callers, c)
             new == {[id |-> Id(c), for |-> c] : c \in callers}
             n == Cardinality(callers)
  <1>1. n \in Nat /\ rpcId \in Nat
    BY NextIds DEF TypeOK
  <1>2. \A c \in callers : Id(c) \in Nat /\ Id(c) > rpcId /\ Id(c) <= rpcId + n
    BY NextIds DEF TypeOK
  <1>3. \A c, d \in callers : Id(c) = Id(d) => c = d
    BY NextIds DEF TypeOK
  <1>4. \A q \in new : /\ q \in [id : Nat, for : 0 .. MaxCalls]
                       /\ q.for \in callers /\ q.id = Id(q.for)
    BY <1>2
  <1>5. \A c \in callers : \E q \in new : q.for = c
    <2> TAKE c \in callers
    <2>1. [id |-> Id(c), for |-> c] \in new
      OBVIOUS
    <2> WITNESS [id |-> Id(c), for |-> c] \in new
    <2> QED
      OBVIOUS
  <1>6. \A p, q \in new : p.for = q.for => p = q
    OBVIOUS
  <1>7. /\ rpcId' = rpcId + n
        /\ pending' = {p \in waiting : \A q \in new : q.id # p.id} \cup new
        /\ posted' = posted \cup new
    BY DEF Send
  <1> HIDE DEF n, Id, new
  <1>8. \A p \in posted : p \in [id : Nat, for : 0 .. MaxCalls] /\ p.id <= rpcId
    BY DEF TypeOK, WaitingInv
  <1>9. \A p \in posted, q \in new : p.id # q.id
    <2> TAKE p \in posted, q \in new
    <2>1. p.id \in Nat /\ p.id <= rpcId
      BY <1>8
    <2>2. q.id \in Nat /\ q.id > rpcId
      BY <1>2, <1>4
    <2> QED
      BY <1>1, <2>1, <2>2
  <1>10. pending \subseteq posted
    BY DEF TypeOK
  <1>11. pending' = waiting \cup new
    BY <1>7, <1>9, <1>10
  <1>12. \A p \in posted' : p.id <= rpcId'
    <2> TAKE p \in posted'
    <2>1. CASE p \in posted
      BY <2>1, <1>1, <1>7, <1>8
    <2>2. CASE p \in new
      BY <2>2, <1>2, <1>4, <1>7
    <2> QED
      BY <2>1, <2>2, <1>7
  <1>13. \A p, q \in posted' : p.id = q.id => p = q
    <2>1. \A p, q \in posted : p.id = q.id => p = q
      BY DEF WaitingInv
    <2>2. \A p, q \in new : p.id = q.id => p = q
      BY <1>3, <1>4, <1>6
    <2> QED
      BY <2>1, <2>2, <1>7, <1>9
  <1> QED
    BY <1>1, <1>4, <1>5, <1>6, <1>7, <1>8, <1>10, <1>11, <1>12, <1>13

-----------------------------------------------------------------------------------
(* What may happen to a call.                                              *)

\* A call that has just begun.
Begun(r) == /\ r \in SomeCall /\ r.pc = "init" /\ r.startedAt = now
            /\ r.invoked = 0 /\ r.failed = FALSE /\ r.emptied = FALSE

AnsweredBy(c, data) == call'[c] = Answered(call[c], data)
Throws(c) == call'[c] = Ended(call[c], "threw", NoData)

\* Every way from one await of callTool to the next.
CallStep(c) ==
  \/ call'[c] = call[c]
  \/ /\ call[c].pc = "new"
     /\ \E r \in SomeCall : Begun(r) /\ call'[c] \in {r, Requesting(r), Fallen(r)}
  \/ call[c].pc = "init" /\ call'[c] \in {Requesting(call[c]), Fallen(call[c])}
  \/ /\ call[c].pc = "rpc"
     /\ \/ call'[c] \in {Fallen(call[c]), Emptied(call[c])}
        \/ \E data \in Data : data.call = c /\ AnsweredBy(c, data)
  \/ /\ call[c].pc = "compat"
     /\ \/ call'[c] = Emptied(call[c]) \/ Throws(c)
        \/ \E data \in Data : data.call = c /\ AnsweredBy(c, data)
  \/ /\ call[c].pc = "await"
     /\ \/ call'[c] = [call[c] EXCEPT !.pc = "handoff"]
        \/ \E data \in Data : AnsweredBy(c, data)
  \/ /\ call[c].pc = "handoff"
     /\ \/ Throws(c)
        \/ \E data \in Data : data.call = c /\ AnsweredBy(c, data)

\* What the host holds are results of calls that were made.
LEMMA HostDataType == TypeOK => HostData \subseteq Data
  <1> SUFFICES ASSUME TypeOK, NEW d \in HostData PROVE d \in Data
    OBVIOUS
  <1>1. \A c \in Calls : Invoked(c) => call[c].tool \in Tools
    BY DEF TypeOK, Invoked, SomeCall, EndedCall, NotStarted
  <1>2. \A c \in Calls : c \in 0 .. MaxCalls
    BY ConstantsAssumption DEF Calls
  <1>3. 0 \in 0 .. MaxCalls
    BY ConstantsAssumption
  <1> QED
    BY <1>1, <1>2, <1>3, ConstantsAssumption DEF HostData, Data
\* An error the bridge makes itself is a result of the call.
LEMMA ErrorData ==
  \A c \in Calls : [call |-> c, view |-> "error"] \in Data
  BY ConstantsAssumption DEF Calls, Data

\* A call that has begun, whichever way it then goes, has all its parts.
LEMMA BegunFacts ==
  ASSUME NEW r, Begun(r)
  PROVE  /\ r \in SomeCall
         /\ Requesting(r) \in SomeCall
         /\ Fallen(r) \in SomeCall \cup EndedCall
  BY FallenFacts, RequestingFacts DEF Begun

\* Every action is one step of each call.
LEMMA CallSteps ==
  ASSUME TypeOK, WaitingInv, Next
  PROVE  call' = [c \in Calls |-> call'[c]] /\ \A c \in Calls : CallStep(c)
  <1>1. call \in [Calls -> AnyCall]
    BY DEF TypeOK, AnyCall
  <1>2. \A w \in pending : w.for # 0 => w.for \in Calls /\ call[w.for].pc = "rpc"
    BY ConstantsAssumption DEF TypeOK, WaitingInv, Calls
  <1>3. ASSUME UNCHANGED call
        PROVE  call' = [c \in Calls |-> call'[c]] /\ \A c \in Calls : CallStep(c)
    BY <1>1, <1>3 DEF CallStep
  <1>4. ASSUME NEW c \in Calls, NEW tool \in Tools, Start(c, tool)
        PROVE  call' = [d \in Calls |-> call'[d]] /\ \A d \in Calls : CallStep(d)
    <2> DEFINE r == [pc |-> "init", tool |-> tool, startedAt |-> now, before |-> slots,
                     invoked |-> 0, failed |-> FALSE, emptied |-> FALSE]
    <2>1. Begun(r)
      BY DEF Begun, SomeCall, TypeOK
    <2>2. call[c].pc = "new"
      BY <1>4 DEF Start
    <2>3. \/ call' = [call EXCEPT ![c] = r]
          \/ call' = [call EXCEPT ![c] = Requesting(r)]
          \/ call' = [call EXCEPT ![c] = Fallen(r)]
      BY <1>4 DEF Start
    <2> HIDE DEF r
    <2>4. /\ call'[c] \in {r, Requesting(r), Fallen(r)}
          /\ \A d \in Calls \ {c} : call'[d] = call[d]
          /\ call' = [d \in Calls |-> call'[d]]
      BY <1>1, <2>3
    <2>5. r \in SomeCall
      BY <2>1 DEF Begun
    <2>6. \E q \in SomeCall : Begun(q) /\ call'[c] \in {q, Requesting(q), Fallen(q)}
      BY <2>1, <2>4, <2>5, Zenon
    <2>7. \A d \in Calls : d = c \/ call'[d] = call[d]
      BY <2>4
    <2>8. \A d \in Calls : d = c => CallStep(d)
      BY <2>2, <2>6 DEF CallStep
    <2>9. \A d \in Calls : d # c => CallStep(d)
      BY <2>7 DEF CallStep
    <2> QED
      BY <2>4, <2>8, <2>9
  <1>5. ASSUME NEW w \in pending, HandshakeAnswered(w) \/ HandshakeFails(w)
        PROVE  call' = [d \in Calls |-> call'[d]] /\ \A d \in Calls : CallStep(d)
    BY <1>1, <1>5 DEF HandshakeAnswered, HandshakeFails, HandshakeWaiters, CallStep
  <1>6. ASSUME NEW w \in pending, RequestFails(w)
        PROVE  call' = [d \in Calls |-> call'[d]] /\ \A d \in Calls : CallStep(d)
    BY <1>1, <1>2, <1>6 DEF RequestFails, CallStep
  <1>7. ASSUME NEW w \in pending, NEW data \in HostData \cup {NoData},
               ResponseArrives(w, data)
        PROVE  call' = [d \in Calls |-> call'[d]] /\ \A d \in Calls : CallStep(d)
    <2>1. w.for \in Calls /\ call[w.for].pc = "rpc"
      BY <1>2, <1>7 DEF ResponseArrives
    <2>2. data = NoData \/ data \in Data
      BY HostDataType
    <2>3. data # NoData => data.call = w.for
      BY <1>7 DEF ResponseArrives, TypeOK, WaitingInv
    <2>4. /\ call' = [d \in Calls |-> call'[d]]
          /\ \A d \in Calls \ {w.for} : call'[d] = call[d]
          /\ call'[w.for] = IF data = NoData THEN Emptied(call[w.for])
                            ELSE Answered(call[w.for], data)
      BY <1>1, <1>7, <2>1 DEF ResponseArrives
    <2> QED
      BY <2>1, <2>2, <2>3, <2>4 DEF CallStep, AnsweredBy
  <1>8. ASSUME NEW c \in Calls, NEW data \in HostData \cup {NoData},
               CompatSettles(c, data)
        PROVE  call' = [d \in Calls |-> call'[d]] /\ \A d \in Calls : CallStep(d)
    <2>1. data = NoData \/ data \in Data
      BY HostDataType
    <2>2. /\ call' = [d \in Calls |-> call'[d]]
          /\ \A d \in Calls \ {c} : call'[d] = call[d]
          /\ call[c].pc = "compat"
          /\ \/ data # NoData /\ data.call = c /\ call'[c] = Answered(call[c], data)
             \/ call'[c] = Emptied(call[c])
             \/ call'[c] = Ended(call[c], "threw", NoData)
      BY <1>1, <1>8 DEF CompatSettles
    <2> QED
      BY <2>1, <2>2 DEF CallStep, AnsweredBy, Throws
  <1>9. ASSUME NEW data \in HostData, Push(data)
        PROVE  call' = [d \in Calls |-> call'[d]] /\ \A d \in Calls : CallStep(d)
    BY <1>1, <1>9, HostDataType DEF Push, CallStep, AnsweredBy
  <1>10. ASSUME NEW c \in Calls, Poll(c)
        PROVE  call' = [d \in Calls |-> call'[d]] /\ \A d \in Calls : CallStep(d)
    <2>1. PICK s \in Slots : /\ Accepts(call[c].tool, slots[s])
                             /\ call' = [call EXCEPT ![c] = Answered(@, slots[s])]
      BY <1>10 DEF Poll
    <2>2. slots[s] \in Data
      BY <2>1 DEF TypeOK, Accepts
    <2> QED
      BY <1>1, <1>10, <2>1, <2>2 DEF Poll, CallStep, AnsweredBy
  <1>11. ASSUME NEW c \in Calls, GiveUp(c) \/ HandoffSettles(c)
        PROVE  call' = [d \in Calls |-> call'[d]] /\ \A d \in Calls : CallStep(d)
    <2> DEFINE e == [call |-> c, view |-> "error"]
    <2>1. e \in Data /\ e.call = c
      BY ErrorData
    <2>2. /\ call' = [d \in Calls |-> call'[d]]
          /\ \A d \in Calls \ {c} : call'[d] = call[d]
          /\ \/ /\ call[c].pc = "await"
                /\ \/ call'[c] = [call[c] EXCEPT !.pc = "handoff"]
                   \/ call'[c] = Answered(call[c], e)
             \/ /\ call[c].pc = "handoff"
                /\ \/ call'[c] = Answered(call[c], e)
                   \/ call'[c] = Ended(call[c], "threw", NoData)
      BY <1>1, <1>11 DEF GiveUp, HandoffSettles
    <2> HIDE DEF e
    <2> QED
      BY <2>1, <2>2 DEF CallStep, AnsweredBy, Throws
  <1> QED
    BY <1>3, <1>4, <1>5, <1>6, <1>7, <1>8, <1>9, <1>10, <1>11
       DEF Next, Tick, Mount, WriteSlot, TimesOut

\* What a step does to the pc and to the tool of a call.
LEMMA StepFacts ==
  ASSUME TypeOK, NEW c \in Calls, CallStep(c)
  PROVE  /\ call'[c] \in AnyCall
         /\ call[c].pc # "new" => call'[c].pc # "new" /\ call'[c].tool = call[c].tool
         /\ call[c].pc \in {"done", "threw"} => call'[c] = call[c]
         /\ call[c].pc \in {"compat", "await", "handoff"} =>
              call'[c].pc \notin {"init", "rpc"}
         /\ call[c].pc = "rpc" /\ call'[c] # call[c] =>
              call'[c].pc \in {"compat", "threw", "await", "done"}
         /\ call[c].pc = "init" /\ call'[c] # call[c] =>
              call'[c].pc \in {"rpc", "compat", "threw"}
  <1>1. call[c] \in AnyCall
    BY DEF TypeOK, AnyCall
  <1> DEFINE old == call[c]
             new == call'[c]
  <1>2. CASE new = old
    BY <1>1, <1>2 DEF AnyCall, SomeCall, EndedCall, NotStarted
  <1>3. CASE old.pc = "new" /\ new # old
    <2>1. PICK r \in SomeCall : Begun(r) /\ new \in {r, Requesting(r), Fallen(r)}
      BY <1>3 DEF CallStep
    <2>2. new \in SomeCall \cup EndedCall
      BY <2>1, BegunFacts
    <2> QED
      BY <1>3, <2>2 DEF AnyCall
  <1>4. CASE old.pc \in {"init", "rpc", "compat", "await", "handoff"} /\ new # old
    <2>1. old \in SomeCall
      BY <1>1, <1>4, CallShape
    <2>2. \A data \in Data \cup {NoData}, pc \in {"done", "threw"} :
            new = Ended(old, pc, data) => new \in EndedCall /\ new.pc = pc /\ new.tool = old.tool
      BY <2>1, EndedFacts
    <2>3. new = Fallen(old) => /\ new \in SomeCall \cup EndedCall
                               /\ new.pc \in {"compat", "threw"} /\ new.tool = old.tool
      BY <2>1, FallenFacts
    <2>4. new = Emptied(old) => /\ new \in SomeCall \cup EndedCall
                                /\ new.pc \in {"await", "done"} /\ new.tool = old.tool
      BY <2>1, EmptiedFacts
    <2>5. new = Requesting(old) => new \in SomeCall /\ new.pc = "rpc" /\ new.tool = old.tool
      BY <2>1, RequestingFacts
    <2>6. new = [old EXCEPT !.pc = "handoff"] =>
            new \in SomeCall /\ new.pc = "handoff" /\ new.tool = old.tool
      BY <2>1 DEF SomeCall
    <2>7. \/ old.pc = "init" /\ new \in {Requesting(old), Fallen(old)}
          \/ /\ old.pc = "rpc"
             /\ \/ new \in {Fallen(old), Emptied(old)}
                \/ \E data \in Data : new = Ended(old, "done", data)
          \/ /\ old.pc \in {"compat", "await", "handoff"}
             /\ \/ new = Emptied(old) \/ new = [old EXCEPT !.pc = "handoff"]
                \/ \E data \in Data \cup {NoData}, pc \in {"done", "threw"} :
                     new = Ended(old, pc, data)
      BY <1>4 DEF CallStep, AnsweredBy, Answered, Throws
    <2> HIDE DEF old, new
    <2>8. /\ new \in SomeCall \cup EndedCall /\ new.tool = old.tool
          /\ old.pc = "init" => new.pc \in {"rpc", "compat", "threw"}
          /\ old.pc = "rpc" => new.pc \in {"compat", "threw", "await", "done"}
          /\ old.pc \in {"compat", "await", "handoff"} => new.pc \notin {"init", "rpc"}
      BY <1>4, <2>2, <2>3, <2>4, <2>5, <2>6, <2>7
    <2>9. new.pc # "new"
      BY <2>8 DEF SomeCall, EndedCall
    <2> QED
      BY <1>4, <2>8, <2>9 DEF AnyCall, old, new
  <1>5. CASE old.pc \in {"done", "threw"} /\ new # old
    BY <1>5 DEF CallStep
  <1> QED
    BY <1>1, <1>2, <1>3, <1>4, <1>5 DEF AnyCall, SomeCall, EndedCall, NotStarted

-----------------------------------------------------------------------------------
(* Nobody waits for an answer that cannot come.                            *)

\* A step that sends nothing, answers nothing and makes no call wait.
LEMMA WaitingKept ==
  ASSUME TypeOK, WaitingInv, UNCHANGED <<ready, rpcId, pending, posted>>,
         \A c \in Calls : /\ (call'[c].pc = "rpc") <=> (call[c].pc = "rpc")
                          /\ call'[c].pc = "init" => ready = "pending"
  PROVE  WaitingInv'
  <1>1. \A w \in pending : w.for # 0 => w.for \in Calls
    BY ConstantsAssumption DEF TypeOK, Calls
  <1> QED
    BY <1>1 DEF WaitingInv

\* A step that answers one entry, and with it everyone who waited for it.
LEMMA WaitingAnswered ==
  ASSUME TypeOK, WaitingInv, NEW w \in pending,
         pending' = pending \ {w}, UNCHANGED <<rpcId, posted>>,
         ready' = IF w.for = 0 THEN "failed" ELSE ready,
         \A c \in Calls : /\ (call'[c].pc = "rpc") <=> (call[c].pc = "rpc" /\ c # w.for)
                          /\ call'[c].pc = "init" => call[c].pc = "init" /\ w.for # 0
  PROVE  WaitingInv'
  <1>1. \A v \in pending : v.for # 0 => v.for \in Calls
    BY ConstantsAssumption DEF TypeOK, Calls
  <1>2. \A v \in pending' : v \in pending /\ v.for # w.for
    BY DEF WaitingInv
  <1> QED
    BY <1>1, <1>2 DEF WaitingInv

\* A step that sends for some callers, while others wait on.
LEMMA WaitingSent ==
  ASSUME TypeOK, WaitingInv, NEW callers \in SUBSET (0 .. MaxCalls),
         NEW waiting \in SUBSET pending, Send(waiting, callers),
         \A v \in waiting : v.for \notin callers,
         \A v \in waiting : IF v.for = 0 THEN ready' = "pending" ELSE call'[v.for].pc = "rpc",
         \A c \in callers : IF c = 0 THEN ready' = "pending" ELSE call'[c].pc = "rpc",
         \A c \in Calls : call'[c].pc = "rpc" => c \in callers \/ \E v \in waiting : v.for = c,
         \A c \in Calls : call'[c].pc = "init" => ready' = "pending",
         ready' = "pending" => 0 \in callers \/ \E v \in waiting : v.for = 0
  PROVE  WaitingInv'
  <1>1. /\ \A p \in posted' : p.id <= rpcId'
        /\ \A p, q \in posted' : p.id = q.id => p = q
        /\ waiting \subseteq pending'
        /\ \A c \in callers : \E w \in pending' : w.for = c
        /\ \A w \in pending' : w \in waiting \/ w.for \in callers
        /\ \A v, w \in pending' \ waiting : v.for = w.for => v = w
    BY SendFacts
  <1>2. \A v, w \in waiting : v.for = w.for => v = w
    BY DEF WaitingInv
  <1>3. \A v, w \in pending' : v.for = w.for => v = w
    BY <1>1, <1>2
  <1> QED
    BY <1>1, <1>3 DEF WaitingInv

\* The steps of the other routes, those that send, and those that an answer or a timer
\* of the message channel brings.
Quiet == \/ \E c \in Calls : \E data \in HostData \cup {NoData} : CompatSettles(c, data)
         \/ \E c \in Calls : Poll(c) \/ GiveUp(c) \/ HandoffSettles(c)

Asking == \/ Mount \/ \E w \in pending : HandshakeAnswered(w)
          \/ \E c \in Calls, tool \in Tools : Start(c, tool)

Hearing == \/ \E w \in pending : TimesOut(w)
           \/ \E w \in pending : \E data \in HostData \cup {NoData} : ResponseArrives(w, data)

\* These are all the steps there are.
LEMMA NextGroups ==
  Next <=> \/ Tick \/ Quiet \/ Asking \/ Hearing
           \/ \E data \in HostData : Push(data)
           \/ \E data \in HostData, s \in Slots : WriteSlot(s, data)
  BY DEF Next, Quiet, Asking, Hearing

\* A step keeps the types and keeps exactly the waiting calls in pending.
LEMMA TypeStep == TypeOK /\ WaitingInv /\ Next => TypeOK'
  <1> SUFFICES ASSUME TypeOK, WaitingInv, Next PROVE TypeOK'
    OBVIOUS
  <1>1. call' \in [Calls -> AnyCall]
    BY CallSteps, StepFacts
  <1>2. /\ now' \in Time /\ UNCHANGED host
        /\ lastPushed' \in [data : Data \cup {NoData}, at : Time]
        /\ slots' \in [Slots -> Data \cup {NoData}]
    <2>1. CASE Tick
      BY <2>1, ConstantsAssumption DEF Tick, TypeOK, Time
    <2>2. CASE \E data \in HostData : Push(data)
      BY <2>2, HostDataType DEF Push, TypeOK
    <2>3. CASE \E data \in HostData, s \in Slots : WriteSlot(s, data)
      BY <2>3, HostDataType DEF WriteSlot, TypeOK
    <2>4. CASE UNCHANGED <<now, host, lastPushed, slots>>
      BY <2>4 DEF TypeOK
    <2>5. Quiet \/ Asking \/ Hearing => UNCHANGED <<now, host, lastPushed, slots>>
      BY DEF Quiet, Asking, Hearing, Mount, Start, HandshakeAnswered, TimesOut, HandshakeFails,
             RequestFails, ResponseArrives, CompatSettles, Poll, GiveUp, HandoffSettles,
             UnchangedButCall
    <2> QED
      BY <2>1, <2>2, <2>3, <2>4, <2>5, NextGroups
  <1>3. ready' \in {"none", "pending", "ok", "failed"}
    BY NextGroups DEF Quiet, Asking, Hearing, TypeOK, Tick, Mount, Start, HandshakeAnswered,
           TimesOut, HandshakeFails, RequestFails, ResponseArrives, CompatSettles, Push, WriteSlot,
           Poll, GiveUp, HandoffSettles, UnchangedButCall
  <1>4. activeTool' \in Tools \cup {NoTool}
    BY DEF Next, TypeOK, Tick, Mount, Start, HandshakeAnswered, TimesOut, HandshakeFails,
           RequestFails, ResponseArrives, CompatSettles, Push, WriteSlot, Poll, GiveUp,
           HandoffSettles, UnchangedButCall, Release
  <1>5. /\ rpcId' \in Nat
        /\ pending' \subseteq posted'
        /\ posted' \subseteq [id : Nat, for : 0 .. MaxCalls]
    <2>1. CASE UNCHANGED <<rpcId, posted>> /\ pending' \subseteq pending
      BY <2>1 DEF TypeOK
    <2>2. CASE \E callers \in SUBSET (0 .. MaxCalls), waiting \in SUBSET pending :
                 Send(waiting, callers)
      BY <2>2, SendFacts
    <2>3. {0} \in SUBSET (0 .. MaxCalls) /\ HandshakeWaiters \in SUBSET (0 .. MaxCalls)
          /\ \A c \in Calls : {c} \in SUBSET (0 .. MaxCalls)
      BY ConstantsAssumption DEF Calls, HandshakeWaiters
    <2>4. \/ Tick \/ (\E data \in HostData : Push(data))
          \/ (\E data \in HostData, s \in Slots : WriteSlot(s, data)) \/ Quiet \/ Hearing
          => UNCHANGED <<rpcId, posted>> /\ pending' \subseteq pending
      BY DEF Quiet, Hearing, Tick, TimesOut, HandshakeFails, RequestFails, ResponseArrives,
             CompatSettles, Push, WriteSlot, Poll, GiveUp, HandoffSettles, UnchangedButCall
    <2>5. CASE \E w \in pending : HandshakeAnswered(w)
      BY <2>2, <2>3, <2>5 DEF HandshakeAnswered
    <2>6. CASE Mount
      BY <2>2, <2>3, <2>6 DEF Mount
    <2>7. CASE \E c \in Calls, tool \in Tools : Start(c, tool)
      BY <2>1, <2>2, <2>3, <2>7 DEF Start
    <2> QED
      BY <2>1, <2>4, <2>5, <2>6, <2>7, NextGroups DEF Asking
  <1> QED
    BY <1>1, <1>2, <1>3, <1>4, <1>5 DEF TypeOK, AnyCall

\* Entries come with their waiting calls and leave with them, whatever the step.
LEMMA WaitingStep == TypeOK /\ WaitingInv /\ Next => WaitingInv'
  <1> SUFFICES ASSUME TypeOK, WaitingInv, Next PROVE WaitingInv'
    OBVIOUS
  <1>1. \A c \in Calls : c \in 0 .. MaxCalls /\ c # 0
    BY ConstantsAssumption DEF Calls
  <1>2. \A w \in pending : /\ w.for # 0 => w.for \in Calls /\ call[w.for].pc = "rpc"
                           /\ w.for = 0 => ready = "pending"
    BY ConstantsAssumption DEF TypeOK, WaitingInv, Calls
  <1>3. call \in [Calls -> AnyCall]
    BY DEF TypeOK, AnyCall
  <1>4. \A c \in Calls :
          /\ call[c].pc \in {"compat", "await", "handoff", "done", "threw"} =>
               call'[c].pc \notin {"init", "rpc"}
          /\ call[c].pc = "rpc" /\ call'[c] # call[c] => call'[c].pc \notin {"init", "rpc"}
    BY CallSteps, StepFacts
  <1>5. CASE Mount
    <2>1. \A v \in pending : v.for \notin {0}
      BY <1>2, <1>5 DEF Mount
    <2>2. Send(pending, {0}) /\ ready' = "pending" /\ call' = call
      BY <1>5 DEF Mount
    <2>3. {0} \in SUBSET (0 .. MaxCalls)
      BY ConstantsAssumption
    <2>4. \A c \in Calls : call'[c].pc = "rpc" => \E v \in pending : v.for = c
      BY <2>2 DEF WaitingInv
    <2> QED
      BY <1>2, <2>1, <2>2, <2>3, <2>4, WaitingSent
  <1>6. CASE \E w \in pending : HandshakeAnswered(w)
    <2> PICK w \in pending : HandshakeAnswered(w)
      BY <1>6
    <2> DEFINE rest == pending \ {w}
    <2>1. /\ w.for = 0 /\ ready' = "ok" /\ Send(rest, HandshakeWaiters)
          /\ \A c \in Calls : call'[c] = IF c \in HandshakeWaiters THEN Requesting(call[c])
                                          ELSE call[c]
      BY DEF HandshakeAnswered
    <2>2. \A v \in rest : v.for # 0 /\ v.for \notin HandshakeWaiters
      BY <1>2, <2>1 DEF WaitingInv, HandshakeWaiters
    <2>3. \A c \in HandshakeWaiters : c \in Calls /\ c # 0 /\ call'[c].pc = "rpc"
      <3> TAKE c \in HandshakeWaiters
      <3>1. c \in Calls /\ call[c].pc = "init" /\ call[c] \in AnyCall
        BY <1>3 DEF HandshakeWaiters
      <3>2. call[c] \in SomeCall
        BY <3>1, CallShape
      <3> QED
        BY <1>1, <2>1, <3>1, <3>2, RequestingFacts
    <2>4. \A v \in rest : call'[v.for].pc = "rpc"
      BY <1>2, <2>1, <2>2
    <2>5. \A c \in Calls : /\ call'[c].pc # "init"
                           /\ call'[c].pc = "rpc" =>
                                c \in HandshakeWaiters \/ \E v \in rest : v.for = c
      <3> TAKE c \in Calls
      <3>1. CASE c \in HandshakeWaiters
        BY <2>3, <3>1
      <3>2. CASE c \notin HandshakeWaiters
        BY <1>1, <2>1, <3>2 DEF WaitingInv, HandshakeWaiters
      <3> QED
        BY <3>1, <3>2
    <2>6. HandshakeWaiters \in SUBSET (0 .. MaxCalls) /\ rest \in SUBSET pending
      BY <1>1 DEF HandshakeWaiters
    <2> HIDE DEF rest
    <2> QED
      BY <2>1, <2>2, <2>3, <2>4, <2>5, <2>6, WaitingSent
  <1>7. CASE \E w \in pending : HandshakeFails(w)
    <2> PICK w \in pending : HandshakeFails(w)
      BY <1>7
    <2>1. /\ w.for = 0 /\ ready' = "failed" /\ pending' = pending \ {w}
          /\ UNCHANGED <<rpcId, posted>>
          /\ \A c \in Calls : call'[c] = IF c \in HandshakeWaiters THEN Fallen(call[c])
                                          ELSE call[c]
      BY DEF HandshakeFails
    <2>2. \A c \in HandshakeWaiters :
            c \in Calls /\ call[c].pc = "init" /\ call'[c].pc \notin {"init", "rpc"}
      <3> TAKE c \in HandshakeWaiters
      <3>1. c \in Calls /\ call[c].pc = "init" /\ call[c] \in AnyCall
        BY <1>3 DEF HandshakeWaiters
      <3>2. call[c] \in SomeCall
        BY <3>1, CallShape
      <3> QED
        BY <2>1, <3>1, <3>2, FallenFacts
    <2>3. \A c \in Calls : /\ (call'[c].pc = "rpc") <=> (call[c].pc = "rpc" /\ c # w.for)
                           /\ call'[c].pc # "init"
      <3> TAKE c \in Calls
      <3>1. CASE c \in HandshakeWaiters
        BY <2>2, <3>1
      <3>2. CASE c \notin HandshakeWaiters
        BY <1>1, <2>1, <3>2 DEF HandshakeWaiters
      <3> QED
        BY <3>1, <3>2
    <2> QED
      BY <2>1, <2>3, WaitingAnswered
  <1>8. CASE \E w \in pending : \/ RequestFails(w)
                                \/ \E data \in HostData \cup {NoData} : ResponseArrives(w, data)
    <2> PICK w \in pending : \/ RequestFails(w)
                             \/ \E data \in HostData \cup {NoData} : ResponseArrives(w, data)
      BY <1>8
    <2>1. /\ w.for # 0 /\ pending' = pending \ {w} /\ UNCHANGED <<ready, rpcId, posted>>
          /\ \A c \in Calls : c # w.for => call'[c] = call[c]
      BY <1>3 DEF RequestFails, ResponseArrives
    <2>2. w.for \in Calls /\ call[w.for].pc = "rpc"
      BY <1>2, <2>1, Zenon
    <2>3. call[w.for] \in SomeCall
      BY <1>3, <2>2, CallShape
    <2>4. call'[w.for].pc \in {"compat", "threw", "await", "done"}
      <3>1. \/ call'[w.for] = Fallen(call[w.for])
            \/ call'[w.for] = Emptied(call[w.for])
            \/ \E data \in Data : call'[w.for] = Ended(call[w.for], "done", data)
        BY <1>3, <2>2, HostDataType DEF RequestFails, ResponseArrives, Answered
      <3>2. \A data \in Data : Ended(call[w.for], "done", data).pc = "done"
        BY <2>3, EndedFacts
      <3> QED
        BY <2>3, <3>1, <3>2, FallenFacts, EmptiedFacts
    <2>5. \A c \in Calls : /\ (call'[c].pc = "rpc") <=> (call[c].pc = "rpc" /\ c # w.for)
                           /\ call'[c].pc = "init" => call[c].pc = "init"
      BY <2>1, <2>2, <2>4
    <2> QED
      BY <2>1, <2>5, WaitingAnswered
  <1>9. CASE \E c \in Calls, tool \in Tools : Start(c, tool)
    <2> PICK c \in Calls, tool \in Tools : Start(c, tool)
      BY <1>9
    <2> DEFINE r == [pc |-> "init", tool |-> tool, startedAt |-> now, before |-> slots,
                     invoked |-> 0, failed |-> FALSE, emptied |-> FALSE]
    <2>1. r \in SomeCall /\ r.pc = "init"
      BY DEF SomeCall, TypeOK
    <2>2. /\ call[c].pc = "new"
          /\ \/ /\ call' = [call EXCEPT ![c] = Fallen(r)]
                /\ UNCHANGED <<ready, rpcId, pending, posted>>
             \/ /\ ready = "ok" /\ Send(pending, {c}) /\ UNCHANGED ready
                /\ call' = [call EXCEPT ![c] = Requesting(r)]
             \/ /\ ready = "none" /\ Send(pending, {0}) /\ ready' = "pending"
                /\ call' = [call EXCEPT ![c] = r]
             \/ /\ ready = "pending" /\ UNCHANGED <<ready, rpcId, pending, posted>>
                /\ call' = [call EXCEPT ![c] = r]
      BY DEF Start
    <2> HIDE DEF r
    <2>3. /\ Fallen(r).pc \notin {"init", "rpc"}
          /\ Requesting(r).pc = "rpc"
      BY <2>1, FallenFacts, RequestingFacts
    <2>4. \A v \in pending : v.for # c
      BY <1>1, <1>2, <2>2
    <2>5. \A d \in Calls : d # c => call'[d] = call[d]
      BY <1>3, <2>2
    <2>6. CASE call' = [call EXCEPT ![c] = Fallen(r)]
               /\ UNCHANGED <<ready, rpcId, pending, posted>>
      <3>1. call'[c] = Fallen(r)
        BY <1>3, <2>6
      <3>2. \A d \in Calls : /\ (call'[d].pc = "rpc") <=> (call[d].pc = "rpc")
                             /\ call'[d].pc = "init" => call[d].pc = "init"
        BY <2>2, <2>3, <2>5, <3>1
      <3>3. \A d \in Calls : call[d].pc = "init" => ready = "pending"
        BY DEF WaitingInv
      <3> QED
        BY <2>6, <3>2, <3>3, WaitingKept
    <2>7. CASE /\ ready = "ok" /\ Send(pending, {c}) /\ UNCHANGED ready
               /\ call' = [call EXCEPT ![c] = Requesting(r)]
      <3>1. call'[c].pc = "rpc"
        BY <1>3, <2>3, <2>7
      <3>2. \A v \in pending : v.for # 0 /\ call'[v.for].pc = "rpc"
        BY <1>2, <2>4, <2>5, <2>7
      <3>3. \A d \in Calls : call'[d].pc = "rpc" => d \in {c} \/ \E v \in pending : v.for = d
        BY <2>5 DEF WaitingInv
      <3>4. \A d \in Calls : call'[d].pc # "init"
        BY <2>5, <2>7, <3>1 DEF WaitingInv
      <3>5. {c} \in SUBSET (0 .. MaxCalls) /\ c # 0
        BY <1>1
      <3> QED
        BY <2>4, <2>7, <3>1, <3>2, <3>3, <3>4, <3>5, WaitingSent
    <2>8. CASE /\ ready = "none" /\ Send(pending, {0}) /\ ready' = "pending"
               /\ call' = [call EXCEPT ![c] = r]
      <3>1. call'[c].pc = "init"
        BY <1>3, <2>1, <2>8
      <3>2. \A v \in pending : v.for # 0 /\ call'[v.for].pc = "rpc"
        BY <1>2, <2>4, <2>5, <2>8
      <3>3. \A d \in Calls : call'[d].pc = "rpc" => \E v \in pending : v.for = d
        BY <2>5, <3>1 DEF WaitingInv
      <3>4. {0} \in SUBSET (0 .. MaxCalls)
        BY ConstantsAssumption
      <3> QED
        BY <2>8, <3>2, <3>3, <3>4, WaitingSent
    <2>9. CASE /\ ready = "pending" /\ UNCHANGED <<ready, rpcId, pending, posted>>
               /\ call' = [call EXCEPT ![c] = r]
      <3>1. call'[c].pc = "init"
        BY <1>3, <2>1, <2>9
      <3>2. \A d \in Calls : (call'[d].pc = "rpc") <=> (call[d].pc = "rpc")
        BY <2>2, <2>5, <3>1
      <3> QED
        BY <2>9, <3>2, WaitingKept
    <2> QED
      BY <2>2, <2>6, <2>7, <2>8, <2>9
  <1>10. CASE /\ UNCHANGED <<ready, rpcId, pending, posted>>
              /\ \A c \in Calls : \/ call'[c] = call[c]
                                  \/ call[c].pc \in {"compat", "await", "handoff"}
    <2>1. \A c \in Calls : /\ (call'[c].pc = "rpc") <=> (call[c].pc = "rpc")
                           /\ call'[c].pc = "init" => call[c].pc = "init"
      BY <1>4, <1>10
    <2>2. \A c \in Calls : call[c].pc = "init" => ready = "pending"
      BY DEF WaitingInv
    <2> QED
      BY <1>10, <2>1, <2>2, WaitingKept
  <1>11. \/ Tick \/ \E data \in HostData : Push(data)
         \/ \E data \in HostData, s \in Slots : WriteSlot(s, data)
         \/ \E c \in Calls : \E data \in HostData \cup {NoData} : CompatSettles(c, data)
         \/ \E c \in Calls : Poll(c) \/ GiveUp(c) \/ HandoffSettles(c)
         => /\ UNCHANGED <<ready, rpcId, pending, posted>>
            /\ \A c \in Calls : \/ call'[c] = call[c]
                                \/ call[c].pc \in {"compat", "await", "handoff"}
    BY <1>3 DEF Tick, CompatSettles, Push, WriteSlot, Poll, GiveUp, HandoffSettles,
                UnchangedButCall
  <1> QED
    BY <1>5, <1>6, <1>7, <1>8, <1>9, <1>10, <1>11 DEF Next, TimesOut

\* Types, ids and waiting calls belong together: each keeps the others.
LEMMA Waiting == Spec => [](TypeOK /\ WaitingInv)
  <1>1. Init => TypeOK /\ WaitingInv
    <2> SUFFICES ASSUME Init PROVE TypeOK /\ WaitingInv
      OBVIOUS
    <2>1. \A c \in Calls : call[c] = NotStarted
      BY DEF Init
    <2>2. TypeOK
      BY ConstantsAssumption DEF Init, TypeOK, Time
    <2>3. WaitingInv
      BY <2>1 DEF Init, WaitingInv, NotStarted
    <2> QED
      BY <2>2, <2>3
  <1>2. TypeOK /\ WaitingInv /\ UNCHANGED vars => TypeOK' /\ WaitingInv'
    BY DEF vars, TypeOK, WaitingInv, SomeCall, EndedCall
  <1>3. TypeOK /\ WaitingInv /\ [Next]_vars => TypeOK' /\ WaitingInv'
    BY <1>2, TypeStep, WaitingStep
  <1> QED
    BY <1>1, <1>3, PTL DEF Spec

\* Calls, requests, the filter and the slots always have their types.
THEOREM TypeCorrect == Spec => []TypeOK
  BY Waiting, PTL

\* A call that waits for the handshake or for its request has an entry in pending that
\* an answer or a timer will find, and no other entry has its id.
THEOREM ReachCorrect == Spec => []WaitersCanBeReached
  <1>1. TypeOK /\ WaitingInv => WaitersCanBeReached
    <2> SUFFICES ASSUME TypeOK, WaitingInv, NEW c \in Calls
                 PROVE  /\ call[c].pc = "init" => \E w \in pending : w.for = 0
                        /\ call[c].pc = "rpc" => \E w \in pending : w.for = c /\
                                                    \A v \in pending : v.id = w.id => v = w
      BY DEF WaitersCanBeReached
    <2>1. \A v, w \in pending : v.id = w.id => v = w
      BY DEF TypeOK, WaitingInv
    <2> QED
      BY <2>1 DEF WaitingInv
  <1> QED
    BY <1>1, Waiting, PTL

-----------------------------------------------------------------------------------
(* How often a tool is asked for, and whose answer it gets.                *)

\* What a step does to a call's counts and to what is known of its answer.
LEMMA StepCounts ==
  ASSUME TypeOK, NEW c \in Calls, CallStep(c)
  PROVE  \/ call'[c] = call[c]
         \/ /\ call[c].pc = "new"
            /\ \/ call'[c].pc = "init" /\ call'[c].invoked = 0
               \/ call'[c].pc = "rpc" /\ call'[c].invoked = 1
               \/ call'[c].pc \in {"compat", "threw"} /\ call'[c].invoked \in {0, 1}
         \/ /\ call[c].pc = "init"
            /\ \/ call'[c].pc = "rpc" /\ call'[c].invoked = call[c].invoked + 1
               \/ /\ call'[c].pc \in {"compat", "threw"}
                  /\ call'[c].invoked \in {call[c].invoked, call[c].invoked + 1}
         \/ /\ call[c].pc = "rpc"
            /\ call'[c].pc \in {"compat", "threw"} /\ call'[c].failed = TRUE
            /\ call'[c].invoked \in {call[c].invoked, call[c].invoked + 1}
         \/ /\ call[c].pc \in {"rpc", "compat", "await", "handoff"}
            /\ call'[c].pc \in {"await", "handoff", "done", "threw"}
            /\ call'[c].invoked = call[c].invoked /\ call'[c].failed = call[c].failed
            /\ \/ call'[c].pc \in {"handoff", "threw"}
               \/ call'[c].emptied = TRUE
               \/ call'[c].pc = "done" /\ call'[c].answer.call = c
               \/ call[c].pc = "await" /\ call'[c].emptied = call[c].emptied
  <1> DEFINE old == call[c]
             new == call'[c]
  <1>1. old \in AnyCall
    BY DEF TypeOK, AnyCall
  <1>2. CASE old.pc = "new" /\ new # old
    <2>1. PICK r \in SomeCall : Begun(r) /\ new \in {r, Requesting(r), Fallen(r)}
      BY <1>2 DEF CallStep
    <2>2. r \in SomeCall /\ r.pc = "init" /\ r.invoked = 0
      BY <2>1 DEF Begun
    <2> HIDE DEF new
    <2>3. CASE new = r
      BY <1>2, <2>2, <2>3 DEF new
    <2>4. CASE new = Requesting(r)
      BY <1>2, <2>2, <2>4, RequestingFacts DEF new
    <2>5. CASE new = Fallen(r)
      <3>1. new.pc = "compat" \/ new.pc = "threw"
        BY <2>2, <2>5, FallenFacts
      <3>2. new.invoked = r.invoked \/ new.invoked = r.invoked + 1
        BY <2>2, <2>5, FallenFacts
      <3>3. new.invoked = 0 \/ new.invoked = 1
        BY <2>2, <3>2
      <3> QED
        BY <1>2, <3>1, <3>3 DEF new
    <2> QED
      BY <2>1, <2>3, <2>4, <2>5
  <1>3. CASE old.pc \in {"init", "rpc", "compat", "await", "handoff"} /\ new # old
    <2>1. old \in SomeCall
      BY <1>1, <1>3, CallShape
    <2>2. \A data \in Data \cup {NoData}, pc \in {"done", "threw"} :
            new = Ended(old, pc, data) =>
              /\ new.pc = pc /\ new.answer = data
              /\ new.invoked = old.invoked /\ new.failed = old.failed
              /\ new.emptied = old.emptied
      BY <2>1, EndedFacts
    <2>3. new = [old EXCEPT !.pc = "handoff"] =>
            new.pc = "handoff" /\ new.invoked = old.invoked /\ new.failed = old.failed
      BY <2>1 DEF SomeCall
    <2>4. CASE old.pc = "init"
      <3>1. new = Requesting(old) \/ new = Fallen(old)
        BY <1>3, <2>4 DEF CallStep
      <3> HIDE DEF old, new
      <3>2. CASE new = Requesting(old)
        BY <2>1, <2>4, <3>2, RequestingFacts DEF old, new
      <3>3. CASE new = Fallen(old)
        BY <2>1, <2>4, <3>3, FallenFacts DEF old, new
      <3> QED
        BY <3>1, <3>2, <3>3
    <2>5. CASE old.pc = "rpc"
      <3>1. \/ new \in {Fallen(old), Emptied(old)}
            \/ \E data \in Data : data.call = c /\ new = Ended(old, "done", data)
        BY <1>3, <2>5 DEF CallStep, AnsweredBy, Answered
      <3> HIDE DEF old, new
      <3>2. CASE new = Fallen(old)
        BY <2>1, <2>5, <3>2, FallenFacts DEF old, new
      <3>3. CASE new = Emptied(old)
        BY <2>1, <2>5, <3>3, EmptiedFacts DEF old, new
      <3>4. CASE \E data \in Data : data.call = c /\ new = Ended(old, "done", data)
        BY <2>2, <2>5, <3>4 DEF old, new
      <3> QED
        BY <3>1, <3>2, <3>3, <3>4
    <2>6. CASE old.pc \in {"compat", "await", "handoff"}
      <3>1. \/ new = Emptied(old) \/ new = [old EXCEPT !.pc = "handoff"]
            \/ new = Ended(old, "threw", NoData)
            \/ \E data \in Data : /\ data.call = c \/ old.pc = "await"
                                  /\ new = Ended(old, "done", data)
        BY <1>3, <2>6 DEF CallStep, AnsweredBy, Answered, Throws
      <3> HIDE DEF old, new
      <3>2. CASE new = Emptied(old)
        BY <2>1, <2>6, <3>2, EmptiedFacts DEF old, new
      <3>3. CASE new = [old EXCEPT !.pc = "handoff"]
        BY <2>3, <2>6, <3>3 DEF old, new
      <3>4. CASE new = Ended(old, "threw", NoData)
        BY <2>2, <2>6, <3>4 DEF old, new
      <3>5. CASE \E data \in Data : /\ data.call = c \/ old.pc = "await"
                                    /\ new = Ended(old, "done", data)
        BY <2>2, <2>6, <3>5 DEF old, new
      <3> QED
        BY <3>1, <3>2, <3>3, <3>4, <3>5
    <2> QED
      BY <1>3, <2>4, <2>5, <2>6
  <1>4. CASE old.pc \in {"done", "threw"} /\ new # old
    BY <1>4 DEF CallStep
  <1>5. old.pc \in {"new", "init", "rpc", "compat", "await", "handoff", "done", "threw"}
    BY <1>1 DEF AnyCall, SomeCall, EndedCall, NotStarted
  <1> QED
    BY <1>2, <1>3, <1>4, <1>5

\* Whatever a step does, every call keeps its counts in order.
LEMMA CountStep ==
  ASSUME TypeOK, WaitingInv, CountInv, Next
  PROVE  CountInv'
  <1>1. \A c \in Calls :
          /\ call[c].pc # "new" => call[c].invoked <= 2
          /\ call[c].pc # "new" => (call[c].invoked = 2 => call[c].failed)
          /\ call[c].pc = "init" => call[c].invoked = 0
          /\ call[c].pc = "rpc" => call[c].invoked = 1
    BY DEF CountInv, RepeatedOnlyAfterFailure, Started
  <1>2. ASSUME NEW c \in Calls
        PROVE  /\ call'[c].pc # "new" => call'[c].invoked <= 2
               /\ call'[c].pc # "new" => (call'[c].invoked = 2 => call'[c].failed)
               /\ call'[c].pc = "init" => call'[c].invoked = 0
               /\ call'[c].pc = "rpc" => call'[c].invoked = 1
    <2> DEFINE old == call[c]
               new == call'[c]
    <2>1. CallStep(c)
      BY CallSteps
    <2>2. CASE new = old
      BY <1>1, <2>2
    <2>3. CASE /\ new.pc = "init" /\ new.invoked = 0
      BY <2>3
    <2>4. CASE /\ new.pc = "rpc" /\ new.invoked = 1
      BY <2>4
    <2>5. CASE /\ new.pc \in {"compat", "threw"} /\ new.invoked \in {0, 1}
      BY <2>5
    <2>6. CASE /\ new.pc \in {"compat", "threw"} /\ new.invoked \in {1, 2} /\ new.failed = TRUE
      BY <2>6
    <2>7. CASE /\ old.pc # "new" /\ new.pc \in {"await", "handoff", "done", "threw"}
               /\ new.invoked = old.invoked /\ new.failed = old.failed
      BY <1>1, <2>7
    <2>8. old.pc = "init" => old.invoked = 0
      BY <1>1
    <2>9. old.pc = "rpc" => old.invoked = 1
      BY <1>1
    <2> HIDE DEF old, new
    <2>10. CASE old.pc = "new" /\ new # old
      <3>1. \/ new.pc = "init" /\ new.invoked = 0
            \/ new.pc = "rpc" /\ new.invoked = 1
            \/ new.pc \in {"compat", "threw"} /\ new.invoked \in {0, 1}
        BY <2>1, <2>10, StepCounts DEF old, new
      <3> QED
        BY <2>3, <2>4, <2>5, <3>1
    <2>11. CASE old.pc = "init" /\ new # old
      <3>1. \/ new.pc = "rpc" /\ new.invoked = old.invoked + 1
            \/ new.pc \in {"compat", "threw"} /\ new.invoked \in {old.invoked, old.invoked + 1}
        BY <2>1, <2>11, StepCounts DEF old, new
      <3> QED
        BY <2>4, <2>5, <2>8, <2>11, <3>1
    <2>12. CASE old.pc = "rpc" /\ new # old
      <3>1. \/ /\ new.pc \in {"compat", "threw"} /\ new.failed = TRUE
               /\ new.invoked \in {old.invoked, old.invoked + 1}
            \/ /\ new.pc \in {"await", "handoff", "done", "threw"}
               /\ new.invoked = old.invoked /\ new.failed = old.failed
        BY <2>1, <2>12, StepCounts DEF old, new
      <3> QED
        <4>1. old.invoked + 1 = 2
          BY <2>9, <2>12
        <4> QED
          BY <2>6, <2>7, <2>9, <2>12, <3>1, <4>1
    <2>13. CASE old.pc \notin {"new", "init", "rpc"} /\ new # old
      <3>1. /\ new.pc \in {"await", "handoff", "done", "threw"}
            /\ new.invoked = old.invoked /\ new.failed = old.failed
        BY <2>1, <2>13, StepCounts DEF old, new
      <3> QED
        BY <2>7, <2>13, <3>1
    <2> QED
      BY <2>2, <2>10, <2>11, <2>12, <2>13
  <1>3. RepeatedOnlyAfterFailure'
    BY <1>2 DEF RepeatedOnlyAfterFailure, Started
  <1> QED
    BY <1>2, <1>3 DEF CountInv

\* No tool is asked for a third time, and a second time only when the first request
\* failed or timed out: the fallback of callTool never doubles an answered call.
THEOREM RepeatCorrect == Spec => []RepeatedOnlyAfterFailure
  <1>1. Init => CountInv
    <2> SUFFICES ASSUME Init PROVE CountInv
      OBVIOUS
    <2>1. \A c \in Calls : call[c].pc = "new"
      BY DEF Init, NotStarted
    <2> QED
      BY <2>1 DEF CountInv, RepeatedOnlyAfterFailure, Started
  <1>2. CountInv /\ UNCHANGED vars => CountInv'
    BY DEF vars, CountInv, RepeatedOnlyAfterFailure, Started
  <1>3. TypeOK /\ WaitingInv /\ CountInv /\ [Next]_vars => CountInv'
    BY <1>2, CountStep
  <1>4. CountInv => RepeatedOnlyAfterFailure
    BY DEF CountInv
  <1> QED
    BY <1>1, <1>3, <1>4, Waiting, PTL DEF Spec
\* A call only watches for other results after the host answered it without one.
OwnInv ==
  /\ OthersAnswerOnlyEmptyCalls
  /\ \A c \in Calls : call[c].pc = "await" => call[c].emptied

\* The result of another call is only taken for a call that the host answered without
\* a result: answers that are late, repeated or cross on the way are never mixed up.
THEOREM OwnCorrect == Spec => []OthersAnswerOnlyEmptyCalls
  <1>1. Init => OwnInv
    <2> SUFFICES ASSUME Init PROVE OwnInv
      OBVIOUS
    <2>1. \A c \in Calls : call[c].pc = "new"
      BY DEF Init, NotStarted
    <2> QED
      BY <2>1 DEF OwnInv, OthersAnswerOnlyEmptyCalls
  <1>2. OwnInv /\ UNCHANGED vars => OwnInv'
    BY DEF vars, OwnInv, OthersAnswerOnlyEmptyCalls
  <1>3. ASSUME TypeOK, WaitingInv, OwnInv, Next PROVE OwnInv'
    <2>1. ASSUME NEW c \in Calls
          PROVE  /\ call'[c].pc = "done" /\ call'[c].answer.call # c => call'[c].emptied
                 /\ call'[c].pc = "await" => call'[c].emptied
      <3> DEFINE old == call[c]
                 new == call'[c]
      <3>1. CallStep(c)
        BY <1>3, CallSteps
      <3>2. /\ old.pc = "done" /\ old.answer.call # c => old.emptied
            /\ old.pc = "await" => old.emptied
        BY <1>3 DEF OwnInv, OthersAnswerOnlyEmptyCalls
      <3> HIDE DEF old, new
      <3>3. \/ new = old
            \/ new.pc \notin {"done", "await"}
            \/ new.emptied = TRUE
            \/ new.pc = "done" /\ new.answer.call = c
            \/ old.pc = "await" /\ new.emptied = old.emptied
        BY <1>3, <3>1, StepCounts DEF old, new
      <3>4. CASE new = old
        BY <3>2, <3>4 DEF old, new
      <3>5. CASE new.pc \notin {"done", "await"}
        BY <3>5 DEF new
      <3>6. CASE new.emptied = TRUE
        BY <3>6 DEF new
      <3>7. CASE new.pc = "done" /\ new.answer.call = c
        BY <3>7 DEF new
      <3>8. CASE old.pc = "await" /\ new.emptied = old.emptied
        BY <3>2, <3>8 DEF new
      <3> QED
        BY <3>3, <3>4, <3>5, <3>6, <3>7, <3>8
    <2> QED
      BY <2>1 DEF OwnInv, OthersAnswerOnlyEmptyCalls
  <1>4. TypeOK /\ WaitingInv /\ OwnInv /\ [Next]_vars => OwnInv'
    BY <1>2, <1>3
  <1>5. OwnInv => OthersAnswerOnlyEmptyCalls
    BY DEF OwnInv
  <1> QED
    BY <1>1, <1>4, <1>5, Waiting, PTL DEF Spec

-----------------------------------------------------------------------------------
(* Pushed results and the filter for them.                                 *)

\* A call starts to watch only by way of an empty answer, and watches unchanged.
LEMMA WatchStep ==
  ASSUME TypeOK, NEW c \in Calls, CallStep(c), call'[c].pc = "await"
  PROVE  \/ call'[c] = call[c]
         \/ call[c] \in SomeCall /\ call'[c] = Emptied(call[c])
  <1>1. CASE call[c].pc = "init" /\ call'[c] # call[c]
    BY <1>1, StepFacts
  <1>2. CASE call[c].pc = "new" /\ call'[c] # call[c]
    BY <1>2, StepCounts
  <1>3. CASE call[c].pc \in {"rpc", "compat", "await", "handoff"} /\ call'[c] # call[c]
    <2>1. call[c] \in SomeCall
      BY <1>3, CallShape DEF TypeOK, AnyCall
    <2>2. call'[c] # Fallen(call[c])
      BY <2>1, FallenFacts
    <2>3. \A data \in Data \cup {NoData}, pc \in {"done", "threw"} :
            call'[c] # Ended(call[c], pc, data)
      BY <2>1, EndedFacts
    <2>4. call'[c] # [call[c] EXCEPT !.pc = "handoff"]
      BY <2>1 DEF SomeCall
    <2> QED
      BY <1>3, <2>1, <2>2, <2>3, <2>4 DEF CallStep, AnsweredBy, Answered, Throws
  <1>4. CASE call[c].pc \in {"done", "threw"}
    BY <1>4, StepFacts
  <1>5. call[c].pc \in {"new", "init", "rpc", "compat", "await", "handoff", "done", "threw"}
    BY DEF TypeOK, SomeCall, EndedCall, NotStarted
  <1> QED
    BY <1>1, <1>2, <1>3, <1>4, <1>5

\* No call watches for a result that was already pushed: whether the push comes before
\* or after the empty answer, it is found.
THEOREM PushCorrect == Spec => []NoPushIsMissed
  <1>1. Init => NoPushIsMissed
    BY DEF Init, NotStarted, NoPushIsMissed
  <1>2. NoPushIsMissed /\ UNCHANGED vars => NoPushIsMissed'
    BY DEF vars, NoPushIsMissed, Accepts
  <1>3. ASSUME TypeOK, WaitingInv, NoPushIsMissed, Next PROVE NoPushIsMissed'
    <2> SUFFICES ASSUME NEW c \in Calls, call'[c].pc = "await",
                        Accepts(call'[c].tool, lastPushed'.data)
                 PROVE  ~(lastPushed'.at >= call'[c].startedAt)
      BY DEF NoPushIsMissed, Accepts
    <2>1. CASE \E data \in HostData : Push(data)
      <3> PICK data \in HostData : Push(data)
        BY <2>1
      <3>1. lastPushed'.data = data
        BY DEF Push
      <3>2. call'[c] = IF call[c].pc = "await" /\ Accepts(call[c].tool, data)
                         THEN Answered(call[c], data) ELSE call[c]
        BY DEF Push
      <3>3. call[c].pc = "await" => call[c] \in SomeCall
        BY <1>3, CallShape DEF TypeOK, AnyCall
      <3>4. call[c].pc = "await" => Answered(call[c], data).pc = "done"
        BY <1>3, <3>3, EndedFacts, HostDataType DEF Answered
      <3> QED
        BY <3>1, <3>2, <3>4
    <2>2. CASE UNCHANGED lastPushed
      <3>1. \/ call'[c] = call[c]
            \/ call[c] \in SomeCall /\ call'[c] = Emptied(call[c])
        BY <1>3, CallSteps, WatchStep
      <3>2. CASE call'[c] = call[c]
        BY <1>3, <2>2, <3>2 DEF NoPushIsMissed
      <3>3. CASE call[c] \in SomeCall /\ call'[c] = Emptied(call[c])
        BY <1>3, <2>2, <3>3, EmptiedFacts
      <3> QED
        BY <3>1, <3>2, <3>3
    <2>3. Quiet \/ Asking \/ Hearing \/ Tick
            \/ (\E data \in HostData, s \in Slots : WriteSlot(s, data)) => UNCHANGED lastPushed
      BY DEF Quiet, Asking, Hearing, Tick, WriteSlot, Mount, Start, HandshakeAnswered, TimesOut,
             HandshakeFails, RequestFails, ResponseArrives, CompatSettles, Poll, GiveUp,
             HandoffSettles, UnchangedButCall
    <2> QED
      BY <1>3, <2>1, <2>2, <2>3, NextGroups
  <1>4. TypeOK /\ WaitingInv /\ NoPushIsMissed /\ [Next]_vars => NoPushIsMissed'
    BY <1>2, <1>3
  <1> QED
    BY <1>1, <1>4, Waiting, PTL DEF Spec

\* While a tool's name filters the pushed results, a call of that tool is on its way:
\* the filter outlives no call, whichever of several calls ends first.
THEOREM FilterCorrect == Spec => []FilterIsReleased
  <1>1. Init => FilterIsReleased
    BY DEF Init, FilterIsReleased
  <1>2. FilterIsReleased /\ UNCHANGED vars => FilterIsReleased'
    BY DEF vars, FilterIsReleased, Started, Over
  <1>3. ASSUME TypeOK, WaitingInv, FilterIsReleased, Next PROVE FilterIsReleased'
    <2> SUFFICES ASSUME activeTool' # NoTool
                 PROVE  \E c \in Calls : /\ call'[c].pc \notin {"new", "done", "threw"}
                                         /\ call'[c].tool = activeTool'
      BY DEF FilterIsReleased, Started, Over
    <2>1. \A c \in Calls :
            call[c].pc # "new" => call'[c].pc # "new" /\ call'[c].tool = call[c].tool
      BY <1>3, CallSteps, StepFacts
    <2>2. activeTool # NoTool => \E c \in Calls : /\ call[c].pc \notin {"new", "done", "threw"}
                                                  /\ call[c].tool = activeTool
      BY <1>3 DEF FilterIsReleased, Started, Over
    <2>3. CASE Release
      <3>1. /\ activeTool' = activeTool
            /\ \A c \in Calls : ~(/\ ~Over(c) /\ call'[c].pc \in {"done", "threw"}
                                  /\ call'[c].tool = activeTool)
        BY <2>3 DEF Release
      <3> QED
        BY <2>1, <2>2, <3>1 DEF Over
    <2>4. CASE UNCHANGED <<call, activeTool>>
      BY <2>2, <2>4
    <2>5. CASE \E w \in pending : HandshakeAnswered(w)
      <3> PICK w \in pending : HandshakeAnswered(w)
        BY <2>5
      <3>1. /\ UNCHANGED activeTool
            /\ \A c \in Calls : \/ call'[c] = call[c]
                                \/ call[c].pc = "init" /\ call'[c] = Requesting(call[c])
        BY DEF HandshakeAnswered, HandshakeWaiters
      <3>2. \A c \in Calls : call[c].pc = "init" => call[c] \in SomeCall
        BY <1>3, CallShape DEF TypeOK, AnyCall
      <3>3. \A c \in Calls : call'[c] = call[c] \/ call'[c].pc = "rpc"
        BY <3>1, <3>2, RequestingFacts
      <3> QED
        BY <2>1, <2>2, <3>1, <3>3
    <2>6. CASE \E c \in Calls, tool \in Tools : Start(c, tool)
      <3> PICK c \in Calls, tool \in Tools : Start(c, tool)
        BY <2>6
      <3> DEFINE r == [pc |-> "init", tool |-> tool, startedAt |-> now, before |-> slots,
                       invoked |-> 0, failed |-> FALSE, emptied |-> FALSE]
      <3>1. r \in SomeCall /\ r.pc = "init" /\ r.tool = tool
        BY <1>3 DEF SomeCall, TypeOK
      <3>2. call \in [Calls -> AnyCall]
        BY <1>3 DEF TypeOK, AnyCall
      <3>3. /\ activeTool' = tool
            /\ \/ call'[c] = Fallen(r) /\ host.compat
               \/ call'[c] = Requesting(r)
               \/ call'[c] = r
        BY <3>2 DEF Start
      <3> HIDE DEF r
      <3>4. call'[c].pc \in {"compat", "rpc", "init"} /\ call'[c].tool = tool
        BY <3>1, <3>3, FallenFacts, RequestingFacts
      <3> QED
        BY <3>3, <3>4
    <2>7. Quiet \/ Hearing \/ (\E data \in HostData : Push(data)) => Release
      BY DEF Quiet, Hearing, TimesOut, HandshakeFails, RequestFails, ResponseArrives,
             CompatSettles, Push, Poll, GiveUp, HandoffSettles
    <2>8. Tick \/ Mount \/ (\E data \in HostData, s \in Slots : WriteSlot(s, data))
            => UNCHANGED <<call, activeTool>>
      BY DEF Tick, Mount, WriteSlot
    <2> QED
      BY <1>3, <2>3, <2>4, <2>5, <2>6, <2>7, <2>8, NextGroups DEF Asking
  <1>4. TypeOK /\ WaitingInv /\ FilterIsReleased /\ [Next]_vars => FilterIsReleased'
    BY <1>2, <1>3
  <1> QED
    BY <1>1, <1>4, Waiting, PTL DEF Spec
===================================================================================
