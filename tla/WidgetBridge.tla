-------------------------------- MODULE WidgetBridge --------------------------------
(***************************************************************************)
(* McpAppsBridge: how the wallet widget calls a tool of the MCP server     *)
(* through the host that embeds it, and how it finds the answer.           *)
(*                                                                         *)
(* A call first uses the host's message channel (a handshake, then a       *)
(* request with an id and a timeout) and falls back to the host's          *)
(* compatibility API.  Hosts differ: an answer may come late, twice, empty *)
(* or never, and the result may arrive on another route, as a pushed       *)
(* notification or in one of the host's global slots.                      *)
(*                                                                         *)
(* A handler runs up to its next await; what its promise resolves runs     *)
(* before the next message or timer, so both are one step.  The views a    *)
(* result is drawn in belong to the application, not to this module.       *)
(***************************************************************************)
EXTENDS Naturals, FiniteSets

CONSTANTS
  MaxCalls,      \* calls the widget makes, numbered in the order they start
  Tools,
  WalletTools, PrepareTools, SubmitTools,   \* tools whose views are listed
  HandoffTools,  \* tools whose lost result the chat is asked to repeat
  Views,         \* views a result can have
  Emits,         \* the views the server's answer to a tool can have (external)
  Slots,         \* the host's global result slots, in the order they are read
  MaxTime,       \* bound on the clock
  NoTool, NoData

Calls == 1 .. MaxCalls
Time == 0 .. MaxTime

\* A result: the call it is the result of, 0 for one the chat asked for, and its view.
Data == [call : 0 .. MaxCalls, view : Views \cup {"error"}]

ASSUME ConstantsAssumption ==
  /\ MaxCalls \in Nat /\ MaxTime \in Nat /\ Slots \subseteq Nat
  /\ WalletTools \cup PrepareTools \cup SubmitTools \cup HandoffTools \subseteq Tools
  /\ Emits \in [Tools -> SUBSET Views]
  /\ NoTool \notin Tools /\ NoData \notin Data

VARIABLES
  now,         \* Date.now()
  host,        \* what this host offers (external): a frame, compat API, follow-ups
  ready,       \* the cached handshake: none, pending, ok or failed
  rpcId,       \* requests numbered so far
  pending,     \* requests waiting for their answer: [id, for], for 0 the handshake
  posted,      \* requests the host was sent
  call,        \* callTool, from its start to its answer
  activeTool,  \* the tool whose views may be pushed
  lastPushed,  \* the newest pushed result and its time
  slots        \* the host's result slots (external)

vars == <<now, host, ready, rpcId, pending, posted, call, activeTool, lastPushed,
          slots>>

NotStarted == [pc |-> "new"]

Init ==
  /\ now = 0
  /\ host \in {h \in [frame : BOOLEAN, compat : BOOLEAN, followUp : BOOLEAN] :
                 h.followUp => h.compat}
  /\ ready = "none"
  /\ rpcId = 0
  /\ pending = {}
  /\ posted = {}
  /\ call = [c \in Calls |-> NotStarted]
  /\ activeTool = NoTool
  /\ lastPushed = [data |-> NoData, at |-> 0]
  /\ slots = [s \in Slots |-> NoData]

-----------------------------------------------------------------------------------
(* Which results are taken.                                                *)

\* expectedViewsForTool; a tool that is not listed takes every view.
ExpectedViews(tool) ==
  IF tool \in WalletTools THEN {"wallet", "error", "not-connected"}
  ELSE IF tool \in PrepareTools
    THEN {"transfer-preview", "blocked", "error", "mainnet-signing-locked"}
  ELSE IF tool \in SubmitTools
    THEN {"transaction-status", "receipt", "pending", "error", "blocked"}
  ELSE Views \cup {"error"}

\* acceptsToolResult
Accepts(tool, data) == data # NoData /\ data.view \in ExpectedViews(tool)

\* A call that has asked the server, so that the host may have its result.
Invoked(c) == call[c].pc # "new" /\ call[c].invoked > 0

\* The results the host may hold.
HostData == [call : {0}, view : Views] \cup
  UNION {[call : {c}, view : Emits[call[c].tool]] : c \in {d \in Calls : Invoked(d)}}

-----------------------------------------------------------------------------------
(* Parts of callTool.                                                      *)

\* Mutant of NextId: requests are numbered by how many are waiting.
NextIdByWaiting(waiting, callers, c) ==
  Cardinality(waiting) + Cardinality({d \in callers : d <= c})

\* ++this.rpcId, by callers that send one after another.
NextId(waiting, callers, c) == rpcId + Cardinality({d \in callers : d <= c})

\* request: a new id, a timer, and a message to the host, for each of the callers.
Send(waiting, callers) ==
  LET new == {[id |-> NextId(waiting, callers, c), for |-> c] : c \in callers}
  IN /\ rpcId' = rpcId + Cardinality(callers)
     /\ pending' = {p \in waiting : \A q \in new : q.id # p.id} \cup new
     /\ posted' = posted \cup new

\* The request of a call whose handshake is done.
Requesting(r) == [r EXCEPT !.pc = "rpc", !.invoked = @ + 1]

\* What is left of a call once it returned or threw.
Ended(r, pc, answer) ==
  [pc |-> pc, tool |-> r.tool, invoked |-> r.invoked, failed |-> r.failed,
   emptied |-> r.emptied, answer |-> answer]

Answered(r, data) == Ended(r, "done", data)

\* The embedded bridge failed: the compatibility API, or an exception.
Fallen(r) == IF host.compat
               THEN [r EXCEPT !.pc = "compat", !.invoked = @ + 1, !.failed = TRUE]
               ELSE Ended([r EXCEPT !.failed = TRUE], "threw", NoData)

\* Mutant of Emptied: a pushed result is only waited for, not looked up.
EmptiedUnseen(r) == [r EXCEPT !.pc = "await", !.emptied = TRUE]

\* The answer to a call had no view: the newest push may have been it, if it came
\* after the call started.
Emptied(r) ==
  IF lastPushed.at >= r.startedAt /\ Accepts(r.tool, lastPushed.data)
    THEN Answered([r EXCEPT !.emptied = TRUE], lastPushed.data)
    ELSE [r EXCEPT !.pc = "await", !.emptied = TRUE]

Over(c) == call[c].pc \in {"done", "threw"}

\* finally: a call that ends takes its tool's name back, if it still stands.
Release ==
  activeTool' = IF \E c \in Calls : /\ ~Over(c) /\ call'[c].pc \in {"done", "threw"}
                                    /\ call'[c].tool = activeTool
                  THEN NoTool ELSE activeTool

-----------------------------------------------------------------------------------
(* The widget.                                                             *)

Tick ==
  /\ now < MaxTime
  /\ now' = now + 1
  /\ UNCHANGED <<host, ready, rpcId, pending, posted, call, activeTool, lastPushed,
                 slots>>

\* initialize when the application mounts: the handshake, at most once.
Mount ==
  /\ host.frame /\ ready = "none"
  /\ ready' = "pending"
  /\ Send(pending, {0})
  /\ UNCHANGED <<now, host, call, activeTool, lastPushed, slots>>

\* callTool up to its first await.
Start(c, tool) ==
  /\ call[c].pc = "new"
  /\ \A d \in Calls : d < c => call[d].pc # "new"
  /\ LET started == [pc |-> "init", tool |-> tool, startedAt |-> now, before |-> slots,
                     invoked |-> 0, failed |-> FALSE, emptied |-> FALSE]
     IN IF ~host.frame \/ ready = "failed"
          THEN /\ call' = [call EXCEPT ![c] = Fallen(started)]
               /\ activeTool' = IF host.compat THEN tool ELSE NoTool
               /\ UNCHANGED <<ready, rpcId, pending, posted>>
          ELSE /\ activeTool' = tool
               /\ \/ /\ ready = "ok"
                     /\ Send(pending, {c})
                     /\ call' = [call EXCEPT ![c] = Requesting(started)]
                     /\ UNCHANGED ready
                  \/ /\ ready = "none"
                     /\ Send(pending, {0})
                     /\ call' = [call EXCEPT ![c] = started]
                     /\ ready' = "pending"
                  \/ /\ ready = "pending"
                     /\ call' = [call EXCEPT ![c] = started]
                     /\ UNCHANGED <<ready, rpcId, pending, posted>>
  /\ UNCHANGED <<now, host, lastPushed, slots>>

-----------------------------------------------------------------------------------
(* Answers and timers of the message channel.                              *)

HandshakeWaiters == {c \in Calls : call[c].pc = "init"}

\* The handshake is answered: every call that waited for it sends its request.
HandshakeAnswered(w) ==
  /\ w \in pending /\ w.for = 0
  /\ ready' = "ok"
  /\ Send(pending \ {w}, HandshakeWaiters)
  /\ call' = [c \in Calls |-> IF c \in HandshakeWaiters THEN Requesting(call[c])
                              ELSE call[c]]
  /\ UNCHANGED <<now, host, activeTool, lastPushed, slots>>

\* The handshake is refused or times out, once and for all.
HandshakeFails(w) ==
  /\ w \in pending /\ w.for = 0
  /\ ready' = "failed"
  /\ pending' = pending \ {w}
  /\ call' = [c \in Calls |-> IF c \in HandshakeWaiters THEN Fallen(call[c])
                              ELSE call[c]]
  /\ Release
  /\ UNCHANGED <<now, host, rpcId, posted, lastPushed, slots>>

\* Mutant of ResponseArrives: an empty answer sends the call to the other API.
ResponseArrivesOrRetries(w, data) ==
  /\ w \in pending /\ w.for # 0
  /\ \E p \in posted : p.id = w.id /\ (data # NoData => data.call = p.for)
  /\ pending' = pending \ {w}
  /\ call' = [call EXCEPT ![w.for] =
                IF data # NoData THEN Answered(@, data)
                ELSE IF host.compat THEN [@ EXCEPT !.pc = "compat", !.invoked = @ + 1]
                ELSE Emptied(@)]
  /\ Release
  /\ UNCHANGED <<now, host, ready, rpcId, posted, lastPushed, slots>>

\* The host answers a request it was sent, with the result or with nothing. An
\* answer whose request is no longer waiting is ignored.
ResponseArrives(w, data) ==
  /\ w \in pending /\ w.for # 0
  /\ \E p \in posted : p.id = w.id /\ (data # NoData => data.call = p.for)
  /\ pending' = pending \ {w}
  /\ call' = [call EXCEPT ![w.for] = IF data = NoData THEN Emptied(@)
                                     ELSE Answered(@, data)]
  /\ Release
  /\ UNCHANGED <<now, host, ready, rpcId, posted, lastPushed, slots>>

\* The host answers with an error, or the timer runs out while it still works.
RequestFails(w) ==
  /\ w \in pending /\ w.for # 0
  /\ pending' = pending \ {w}
  /\ call' = [call EXCEPT ![w.for] = Fallen(@)]
  /\ Release
  /\ UNCHANGED <<now, host, ready, rpcId, posted, lastPushed, slots>>

-----------------------------------------------------------------------------------
(* The compatibility API and the other routes.                             *)

UnchangedButCall == UNCHANGED <<now, host, ready, rpcId, pending, posted, lastPushed,
                                slots>>

\* window.openai.callTool settles; nothing limits how long it takes.
CompatSettles(c, data) ==
  /\ call[c].pc = "compat"
  /\ \/ data # NoData /\ data.call = c /\ call' = [call EXCEPT ![c] = Answered(@, data)]
     \/ data = NoData /\ call' = [call EXCEPT ![c] = Emptied(@)]
     \/ data = NoData /\ call' = [call EXCEPT ![c] = Ended(@, "threw", NoData)]
  /\ Release
  /\ UnchangedButCall

\* A pushed result answers every call that watches for it and takes its view.
Push(data) ==
  /\ lastPushed' = [data |-> data, at |-> now]
  /\ call' = [c \in Calls |-> IF call[c].pc = "await" /\ Accepts(call[c].tool, data)
                              THEN Answered(call[c], data) ELSE call[c]]
  /\ Release
  /\ UNCHANGED <<now, host, ready, rpcId, pending, posted, slots>>

\* The host writes a slot.
WriteSlot(s, data) ==
  /\ slots' = [slots EXCEPT ![s] = data]
  /\ UNCHANGED <<now, host, ready, rpcId, pending, posted, call, activeTool, lastPushed>>

\* A call that watches sees the slots changed since it started and takes the first
\* one with a view its tool can have.
Poll(c) ==
  /\ call[c].pc = "await"
  /\ slots # call[c].before
  /\ \E s \in Slots :
       /\ Accepts(call[c].tool, slots[s])
       /\ \A t \in Slots : t < s => ~Accepts(call[c].tool, slots[t])
       /\ call' = [call EXCEPT ![c] = Answered(@, slots[s])]
  /\ Release
  /\ UnchangedButCall

\* Mutant of GiveUp: only a transfer's wait for a pushed result has a timer.
GiveUpTransfers(c) ==
  /\ call[c].pc = "await" /\ call[c].tool \in HandoffTools
  /\ call' = [call EXCEPT ![c] = [@ EXCEPT !.pc = "handoff"]]
  /\ Release
  /\ UnchangedButCall

\* Nothing came: the chat is asked to repeat a transfer whose result was lost on
\* the way through the compatibility API; any other call is answered with an error.
GiveUp(c) ==
  /\ call[c].pc = "await"
  /\ call' = [call EXCEPT ![c] =
                IF @.failed /\ @.tool \in HandoffTools /\ host.followUp
                  THEN [@ EXCEPT !.pc = "handoff"]
                  ELSE Answered(@, [call |-> c, view |-> "error"])]
  /\ Release
  /\ UnchangedButCall

\* sendFollowUpMessage settles.
HandoffSettles(c) ==
  /\ call[c].pc = "handoff"
  /\ \/ call' = [call EXCEPT ![c] = Answered(@, [call |-> c, view |-> "error"])]
     \/ call' = [call EXCEPT ![c] = Ended(@, "threw", NoData)]
  /\ Release
  /\ UnchangedButCall

\* What a timer of the bridge brings about.
TimesOut(w) == HandshakeFails(w) \/ RequestFails(w)

Next ==
  \/ Tick
  \/ Mount
  \/ \E c \in Calls, tool \in Tools : Start(c, tool)
  \/ \E w \in pending : HandshakeAnswered(w) \/ TimesOut(w)
  \/ \E w \in pending : \E data \in HostData \cup {NoData} : ResponseArrives(w, data)
  \/ \E c \in Calls : \E data \in HostData \cup {NoData} : CompatSettles(c, data)
  \/ \E data \in HostData : Push(data)
  \/ \E data \in HostData, s \in Slots : WriteSlot(s, data)
  \/ \E c \in Calls : Poll(c) \/ GiveUp(c) \/ HandoffSettles(c)

Spec == Init /\ [][Next]_vars

\* The browser's timers fire.
FairSpec ==
  /\ Spec
  /\ \A o \in 0 .. MaxCalls : WF_vars(\E w \in pending : w.for = o /\ TimesOut(w))
  /\ \A c \in Calls : WF_vars(GiveUp(c))

-----------------------------------------------------------------------------------
(* Properties.                                                             *)

SomeCall == [pc : {"init", "rpc", "compat", "await", "handoff"},
             tool : Tools, startedAt : Time, before : [Slots -> Data \cup {NoData}],
             invoked : Nat, failed : BOOLEAN, emptied : BOOLEAN]

EndedCall == [pc : {"done", "threw"}, tool : Tools, invoked : Nat,
              failed : BOOLEAN, emptied : BOOLEAN, answer : Data \cup {NoData}]

TypeOK ==
  /\ now \in Time
  /\ host \in [frame : BOOLEAN, compat : BOOLEAN, followUp : BOOLEAN]
  /\ ready \in {"none", "pending", "ok", "failed"}
  /\ rpcId \in Nat
  /\ pending \subseteq posted
  /\ posted \subseteq [id : Nat, for : 0 .. MaxCalls]
  /\ call \in [Calls -> SomeCall \cup EndedCall \cup {NotStarted}]
  /\ activeTool \in Tools \cup {NoTool}
  /\ lastPushed \in [data : Data \cup {NoData}, at : Time]
  /\ slots \in [Slots -> Data \cup {NoData}]

Started(c) == call[c].pc # "new"

\* The result of another call is only ever taken for a call that the host answered
\* without a result; late, repeated and crossing answers are never mixed up.
OthersAnswerOnlyEmptyCalls ==
  \A c \in Calls : call[c].pc = "done" /\ call[c].answer.call # c => call[c].emptied

\* A tool is asked for again only when its first request failed or timed out, never
\* because the answer had no view, and never a third time.
RepeatedOnlyAfterFailure ==
  \A c \in Calls : Started(c) =>
    /\ call[c].invoked <= 2
    /\ call[c].invoked = 2 => call[c].failed

\* No call watches for a result that was already pushed: whether a push comes before
\* or after the empty answer, it is found.
NoPushIsMissed ==
  \A c \in Calls : call[c].pc = "await" =>
    ~(lastPushed.at >= call[c].startedAt /\ Accepts(call[c].tool, lastPushed.data))

\* Nobody waits for an answer that cannot come: a call in the handshake or in a
\* request has the one waiting entry that its answer or its timer will find.
WaitersCanBeReached ==
  \A c \in Calls :
    /\ call[c].pc = "init" => \E w \in pending : w.for = 0
    /\ call[c].pc = "rpc" => \E w \in pending : w.for = c /\
                                \A v \in pending : v.id = w.id => v = w

\* The filter for pushed results is never left behind: while a tool's name stands, a
\* call of that tool is on its way.
FilterIsReleased ==
  activeTool # NoTool => \E c \in Calls : Started(c) /\ ~Over(c) /\ call[c].tool = activeTool

\* The bridge holds no call for ever; only the host's own promises can.
BridgeLetsGo ==
  \A c \in Calls : call[c].pc \in {"init", "rpc", "await"}
                     ~> call[c].pc \in {"compat", "handoff", "done", "threw"}

-----------------------------------------------------------------------------------
(* What makes the properties above inductive.                              *)

\* Ids name requests, and exactly the calls that wait have an entry in pending.
WaitingInv ==
  /\ \A p \in posted : p.id <= rpcId
  /\ \A p, q \in posted : p.id = q.id => p = q
  /\ \A v, w \in pending : v.for = w.for => v = w
  /\ \A w \in pending : IF w.for = 0 THEN ready = "pending" ELSE call[w.for].pc = "rpc"
  /\ \A c \in Calls : call[c].pc = "rpc" => \E w \in pending : w.for = c
  /\ \A c \in Calls : call[c].pc = "init" => ready = "pending"
  /\ ready = "pending" => \E w \in pending : w.for = 0

CountInv ==
  /\ RepeatedOnlyAfterFailure
  /\ \A c \in Calls : call[c].pc = "init" => call[c].invoked = 0
  /\ \A c \in Calls : call[c].pc = "rpc" => call[c].invoked = 1
=====================================================================================
