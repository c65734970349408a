------------------------------- MODULE PeripheryProofs --------------------------------
(***************************************************************************)
(* Proofs about what stands around the payments: what the widget shows     *)
(* (WalletView), and how the server counts requests, users and events      *)
(* (HttpShell).  No step of one is a step of the other; the module holds   *)
(* the theorems of both.                                                   *)
(***************************************************************************)
EXTENDS WalletView, HttpShell, SequenceTheorems, FiniteSetTheorems, WellFoundedInduction,
        TLAPS

---------------------------------------------------------------------------------------
(* WalletView                                                                        *)

\* The screens that show a wallet show one with a summary.
LEMMA ShownFacts ==
  ASSUME NEW d \in Shown
  PROVE  /\ d.view = "wallet" => d \in Wallets \cup {Demo}
         /\ d # Damaged
         /\ d \in Wallets => d.view = "wallet" /\ d.network \in Networks
BY ConstantsAssumption DEF Shown, Results, Wallets, WalletOf, Plain, Demo, Damaged, Loading

\* A network a wallet is of.
LEMMA WalletFacts ==
  ASSUME NEW w \in Wallets \cup {Demo}
  PROVE  /\ w.view = "wallet" /\ w.network \in Networks \cup {Amoy} /\ w \in Shown
         /\ StartsWith(w) \subseteq Networks
BY DEF Shown, Results, Wallets, WalletOf, Demo, StartsWith

\* Only a transfer is ever asked for on the demonstration's network.
NamesNoDemo(q) == q.by # "submit" => q.network # Amoy

\* The types of what a screen shows and waits for.
ScreenTypes ==
  /\ linked \in BOOLEAN /\ switching \in BOOLEAN /\ viaPairing \in BOOLEAN
  /\ data \in Shown /\ wallet \in Wallets \cup {Demo}
  /\ selected \in Networks \cup {NotMounted}
  /\ call \in [Calls -> CallTypes] /\ faults \in 0 .. MaxFaults

ViewTypes == ScreenTypes /\ \A c \in Calls : NamesNoDemo(call[c])

\* A free slot has the type of a call.
LEMMA NoCallFacts ==
  NoCall \in CallTypes /\ NoCall.by = "none" /\ NamesNoDemo(NoCall)
BY ConstantsAssumption DEF NoCall, CallTypes, NoAnswer, NamesNoDemo

\* What is asked has the type of a call.
LEMMA AskedFacts ==
  ASSUME ViewTypes, NEW c \in Calls,
         NEW by \in {"open", "back", "select", "submit", "ask", "check", "opened"},
         NEW n \in Networks \cup {Amoy, NoNetwork}, NEW alive \in BOOLEAN,
         by # "submit" => n # Amoy
  PROVE  /\ Asked(c, by, n, alive) \in [Calls -> CallTypes]
         /\ \A d \in Calls : NamesNoDemo(Asked(c, by, n, alive)[d])
<1> PICK q : q = [by |-> by, network |-> n, alive |-> alive, answer |-> NoAnswer]
  OBVIOUS
<1>1. q \in CallTypes /\ q.by = by /\ q.network = n
  BY DEF CallTypes
<1>2. NamesNoDemo(q)
  BY <1>1 DEF NamesNoDemo
<1>3. Asked(c, by, n, alive) = [call EXCEPT ![c] = q]
  BY DEF Asked
<1> QED
  BY <1>1, <1>2, <1>3 DEF ViewTypes, ScreenTypes

\* Another screen shows a wallet with a summary, or none, and keeps the calls.
LEMMA ShowFacts ==
  ASSUME ViewTypes, NEW d \in Shown,
         NEW cs \in [Calls -> CallTypes], \A c \in Calls : NamesNoDemo(cs[c]),
         NEW loads \in BOOLEAN, Show(d, cs, loads)
  PROVE  /\ data' = d /\ data' \in Shown
         /\ selected' \in Networks \cup {NotMounted} /\ switching' \in BOOLEAN
         /\ call' \in [Calls -> CallTypes] /\ \A c \in Calls : NamesNoDemo(call'[c])
<1>1. data' = d
  BY DEF Show
<1>2. selected' \in Networks \cup {NotMounted}
  <2>1. d.view = "wallet" => StartsWith(d) \subseteq Networks
    BY ShownFacts, WalletFacts
  <2> QED
    BY <2>1 DEF Show, ViewTypes, ScreenTypes
<1>3. switching' \in BOOLEAN
  BY DEF Show
<1>4. call' \in [Calls -> CallTypes] /\ \A c \in Calls : NamesNoDemo(call'[c])
  <2>1. CASE call' = cs
    BY <2>1
  <2>2. CASE call' = [c \in Calls |-> [cs[c] EXCEPT !.alive = FALSE]]
    <3>1. ASSUME NEW c \in Calls
          PROVE  /\ [cs[c] EXCEPT !.alive = FALSE] \in CallTypes
                 /\ NamesNoDemo([cs[c] EXCEPT !.alive = FALSE])
      BY DEF CallTypes, NamesNoDemo
    <3> QED
      BY <2>2, <3>1
  <2> QED
    BY <2>1, <2>2 DEF Show, Orphaned
<1> QED
  BY <1>1, <1>2, <1>3, <1>4

\* A result that is received is shown and, when it is a wallet, becomes the snapshot.
LEMMA ReceiveFacts ==
  ASSUME ViewTypes, NEW d \in Results \cup {Damaged},
         NEW cs \in [Calls -> CallTypes], \A c \in Calls : NamesNoDemo(cs[c]),
         NEW loads \in BOOLEAN, Receive(d, cs, loads)
  PROVE  /\ data' \in Shown /\ wallet' \in Wallets \cup {Demo}
         /\ viaPairing' \in BOOLEAN
         /\ selected' \in Networks \cup {NotMounted} /\ switching' \in BOOLEAN
         /\ call' \in [Calls -> CallTypes] /\ \A c \in Calls : NamesNoDemo(call'[c])
<1>1. CASE d = Damaged
  BY <1>1 DEF Receive, Renderable, ViewTypes, ScreenTypes
<1>2. CASE d # Damaged
  <2>1. d \in Shown
    BY <1>2 DEF Shown
  <2>2. Show(d, cs, loads) /\ wallet' = Snapshot(d) /\ viaPairing' = FALSE
    BY <1>2 DEF Receive, Renderable
  <2>3. Snapshot(d) \in Wallets \cup {Demo}
    BY <2>1, ShownFacts DEF Snapshot, ViewTypes, ScreenTypes
  <2> QED
    BY <2>1, <2>2, <2>3, ShowFacts
<1> QED
  BY <1>1, <1>2

\* What the server answers, an application can show.
LEMMA AnswerFacts ==
  ASSUME ViewTypes, NEW q \in CallTypes, NamesNoDemo(q)
  PROVE  Answers(q) \subseteq Results
<1>1. \A n \in Networks : WalletState(n) \subseteq Results
  BY DEF WalletState, Results, Wallets
<1>2. ResolveNetwork(NoNetwork) = Default /\ Default \in Networks
  BY ConstantsAssumption DEF ResolveNetwork
<1>3. q.by \in {"back", "fetch", "opened", "select"} => ResolveNetwork(q.network) \in Networks
  BY <1>2 DEF ResolveNetwork, NamesNoDemo, CallTypes
<1>4. \A v \in {"not-connected", "wallet-connected", "transfer-preview", "error", "other"} :
        Plain(v) \in Results
  BY DEF Results
<1>5. OpenWalletTool \subseteq Results
  BY <1>1, <1>2, <1>4 DEF OpenWalletTool
<1>6. PrepareTransfer(q.network) \subseteq Results
  BY <1>4 DEF PrepareTransfer
<1>7. GetWalletConnection \subseteq Results
  BY <1>4 DEF GetWalletConnection
<1> QED
  BY <1>1, <1>3, <1>4, <1>5, <1>6, <1>7
     DEF Answers, RenderWallet, GetWalletSummary

\* Every step keeps the types.
LEMMA NextViewTypes ==
  ASSUME ViewTypes, [Next]_vars
  PROVE  ViewTypes'
<1> USE DEF ScreenTypes
<1>0. /\ linked \in BOOLEAN /\ switching \in BOOLEAN /\ viaPairing \in BOOLEAN
      /\ data \in Shown /\ wallet \in Wallets \cup {Demo}
      /\ selected \in Networks \cup {NotMounted} /\ call \in [Calls -> CallTypes]
      /\ faults \in 0 .. MaxFaults /\ MaxFaults \in Nat
      /\ \A c \in Calls : NamesNoDemo(call[c])
  BY ConstantsAssumption DEF ViewTypes
<1>a. ASSUME NEW c \in Calls
      PROVE  /\ Ended(c) \in [Calls -> CallTypes]
             /\ \A d \in Calls : NamesNoDemo(Ended(c)[d])
  BY <1>0, NoCallFacts DEF Ended
<1>b. ASSUME call' \in [Calls -> CallTypes], \A d \in Calls : NamesNoDemo(call'[d]),
             UNCHANGED <<linked, data, wallet, selected, switching, viaPairing, faults>>
      PROVE  ViewTypes'
  BY <1>0, <1>b DEF ViewTypes, NamesNoDemo
<1>1. ASSUME NEW c \in Calls, Back(c)
      PROVE  ViewTypes'
  <2>1. wallet \in Shown
    BY <1>0, WalletFacts
  <2> PICK cs : cs = Asked(c, "back", NoNetwork, FALSE)
    OBVIOUS
  <2>2. cs \in [Calls -> CallTypes] /\ \A d \in Calls : NamesNoDemo(cs[d])
    BY AskedFacts, ConstantsAssumption
  <2>3. Show(wallet, cs, FALSE) /\ viaPairing' = FALSE /\ UNCHANGED <<linked, wallet, faults>>
    BY <1>1 DEF Back
  <2> QED
    BY <1>0, <2>1, <2>2, <2>3, ShowFacts DEF ViewTypes, NamesNoDemo
<1>2. ASSUME NEW c \in Calls, OpenWallet(c) \/ Submit(c) \/ Ask(c) \/ Check(c)
      PROVE  ViewTypes'
  <2>1. PICK by \in {"open", "submit", "ask", "check"}, n \in Networks \cup {Amoy, NoNetwork},
             alive \in BOOLEAN :
          call' = Asked(c, by, n, alive) /\ (by # "submit" => n # Amoy)
    BY <1>0, <1>2, WalletFacts, ConstantsAssumption DEF OpenWallet, Submit, Ask, Check
  <2>2. call' \in [Calls -> CallTypes] /\ \A d \in Calls : NamesNoDemo(call'[d])
    BY <2>1, AskedFacts
  <2> QED
    BY <1>2, <1>b, <2>2 DEF OpenWallet, Submit, Ask, Check
<1>3. ASSUME NEW c \in Calls, SelectNetwork(c)
      PROVE  ViewTypes'
  <2>1. PICK n \in Networks :
          /\ selected' = n
          /\ \/ UNCHANGED <<switching, call>>
             \/ switching' = TRUE /\ call' = Asked(c, "select", n, TRUE)
    BY <1>3 DEF SelectNetwork
  <2>2. n # Amoy
    BY ConstantsAssumption
  <2>3. /\ Asked(c, "select", n, TRUE) \in [Calls -> CallTypes]
        /\ \A d \in Calls : NamesNoDemo(Asked(c, "select", n, TRUE)[d])
    BY <2>2, AskedFacts
  <2>4. /\ call' \in [Calls -> CallTypes] /\ \A d \in Calls : NamesNoDemo(call'[d])
        /\ switching' \in BOOLEAN
    BY <1>0, <2>1, <2>3
  <2>5. UNCHANGED <<linked, data, wallet, viaPairing, faults>>
    BY <1>3 DEF SelectNetwork
  <2> QED
    BY <1>0, <2>1, <2>4, <2>5 DEF ViewTypes, NamesNoDemo
<1>4. CASE Navigate
  <2>1. PICK view \in {"transfer-form", "receive", "other"} :
          Show(Plain(view), call, FALSE)
    BY <1>4 DEF Navigate
  <2>2. Plain(view) \in Shown
    BY DEF Shown, Results
  <2>3. viaPairing' = FALSE /\ UNCHANGED <<linked, wallet, faults>>
    BY <1>4 DEF Navigate
  <2> QED
    BY <1>0, <2>1, <2>2, <2>3, ShowFacts DEF ViewTypes, NamesNoDemo
<1>5. ASSUME NEW c \in Calls, Open(c)
      PROVE  ViewTypes'
  <2> PICK q : q = [by |-> "opened", network |-> NoNetwork, alive |-> TRUE,
                    answer |-> NoAnswer]
    OBVIOUS
  <2>1. q \in CallTypes /\ NamesNoDemo(q)
    BY ConstantsAssumption DEF CallTypes, NamesNoDemo
  <2>2. \A d \in Calls : /\ [call[d] EXCEPT !.alive = FALSE] \in CallTypes
                         /\ NamesNoDemo([call[d] EXCEPT !.alive = FALSE])
    BY <1>0 DEF CallTypes, NamesNoDemo
  <2>3. call' = [d \in Calls |-> IF d = c THEN q ELSE [call[d] EXCEPT !.alive = FALSE]]
    BY <1>5 DEF Open
  <2>4. call' \in [Calls -> CallTypes] /\ \A d \in Calls : NamesNoDemo(call'[d])
    BY <2>1, <2>2, <2>3
  <2> QED
    BY <1>5, <1>b, <2>4 DEF Open
<1>6. ASSUME NEW c \in Calls, ServerAnswers(c) \/ CallFails(c)
      PROVE  ViewTypes'
  <2>1. PICK a \in Results \cup {Lost} : call' = [call EXCEPT ![c].answer = a]
    <3>1. CASE ServerAnswers(c)
      <4>1. Answers(call[c]) \subseteq Results
        BY <1>0, AnswerFacts
      <4> QED
        BY <3>1, <4>1 DEF ServerAnswers
    <3>2. CASE CallFails(c)
      <4>1. Plain("error") \in Results
        BY DEF Results
      <4> QED
        BY <3>2, <4>1 DEF CallFails
    <3> QED
      BY <1>6, <3>1, <3>2
  <2> PICK q : q = [call[c] EXCEPT !.answer = a]
    OBVIOUS
  <2>2. q \in CallTypes /\ NamesNoDemo(q)
    BY <1>0 DEF CallTypes, NamesNoDemo
  <2>3. call' = [call EXCEPT ![c] = q]
    BY <1>0, <2>1
  <2>4. call' \in [Calls -> CallTypes] /\ \A d \in Calls : NamesNoDemo(call'[d])
    BY <1>0, <2>2, <2>3
  <2>5. faults' \in 0 .. MaxFaults
    BY <1>0, <1>6 DEF ServerAnswers, CallFails
  <2>6. UNCHANGED <<linked, data, wallet, selected, switching, viaPairing>>
    BY <1>6 DEF ServerAnswers, CallFails
  <2> QED
    BY <1>0, <2>4, <2>5, <2>6 DEF ViewTypes, NamesNoDemo
<1>7. CASE Link
  BY <1>0, <1>7 DEF Link, ViewTypes, NamesNoDemo
<1>8. CASE Push
  <2>1. PICK d \in Results \cup {Damaged} : Receive(d, call, switching)
    BY <1>8 DEF Push
  <2>2. faults' \in 0 .. MaxFaults /\ linked' = linked
    BY <1>0, <1>8 DEF Push
  <2> QED
    BY <1>0, <2>1, <2>2, ReceiveFacts DEF ViewTypes, NamesNoDemo
<1>9. ASSUME NEW c \in Calls, SettleEmitted(c)
      PROVE  ViewTypes'
  <2> PICK loads, given : loads = Loads(call[c]) /\ given = call[c].answer
    OBVIOUS
  <2>1. loads \in BOOLEAN
    BY <1>0 DEF Loads, CallTypes
  <2>2. /\ \/ given \in Results /\ Receive(given, Ended(c), loads)
           \/ /\ call' = Ended(c) /\ switching' = loads
              /\ UNCHANGED <<data, wallet, selected, viaPairing>>
        /\ UNCHANGED <<linked, faults>>
    BY <1>0, <1>9 DEF SettleEmitted, CallTypes
  <2> QED
    BY <1>0, <1>a, <2>1, <2>2, ReceiveFacts DEF ViewTypes, NamesNoDemo
<1>10. ASSUME NEW shown, NEW cs, SettleQuietly(shown, cs),
              shown \subseteq Shown, cs \in [Calls -> CallTypes],
              \A d \in Calls : NamesNoDemo(cs[d])
       PROVE  ViewTypes'
  <2>1. UNCHANGED <<linked, wallet, faults>>
    BY <1>10 DEF SettleQuietly
  <2>2. CASE \E d \in shown : Show(d, cs, switching) /\ viaPairing' = TRUE
    BY <1>0, <1>10, <2>1, <2>2, ShowFacts DEF ViewTypes, NamesNoDemo
  <2>3. CASE call' = cs /\ UNCHANGED <<data, selected, switching, viaPairing>>
    BY <1>0, <1>10, <2>1, <2>3 DEF ViewTypes, NamesNoDemo
  <2> QED
    BY <1>10, <2>2, <2>3 DEF SettleQuietly
<1>11. ASSUME NEW c \in Calls, SettleCheck(c)
       PROVE  ViewTypes'
  <2>1. CASE call[c].by = "check" /\ call[c].answer.view = "wallet-connected"
    <3> PICK q : q = [call[c] EXCEPT !.by = "fetch", !.answer = NoAnswer]
      OBVIOUS
    <3>1. q \in CallTypes
      BY <1>0 DEF CallTypes
    <3>2. NamesNoDemo(q)
      BY <1>0, <2>1 DEF ViewTypes, NamesNoDemo, CallTypes
    <3> PICK cs : cs = [call EXCEPT ![c].by = "fetch", ![c].answer = NoAnswer]
      OBVIOUS
    <3>3. cs = [call EXCEPT ![c] = q]
      BY <1>0
    <3>4. cs \in [Calls -> CallTypes] /\ \A d \in Calls : NamesNoDemo(cs[d])
      BY <1>0, <3>1, <3>2, <3>3
    <3> PICK shown : shown = {}
      OBVIOUS
    <3>5. SettleQuietly(shown, cs) /\ shown \subseteq Shown
      BY <1>11, <2>1 DEF SettleCheck
    <3> QED
      BY <1>10, <3>4, <3>5
  <2>2. CASE ~(call[c].by = "check" /\ call[c].answer.view = "wallet-connected")
    <3>1. SettleQuietly(CheckShows(call[c]), Ended(c))
      BY <1>11, <2>2 DEF SettleCheck, CheckEnds
    <3>2. CheckShows(call[c]) \subseteq Shown
      <4>1. call[c].answer \in Results \cup {Lost}
        BY <1>0, <1>11 DEF SettleCheck, CallTypes
      <4> QED
        BY <4>1 DEF CheckShows, Shown, Results
    <3> QED
      BY <1>10, <1>a, <3>1, <3>2
  <2> QED
    BY <2>1, <2>2
<1>12. ASSUME NEW c \in Calls, SettleOpen(c)
       PROVE  ViewTypes'
  <2> PICK shown : shown = IF Active(call[c]) THEN {call[c].answer} ELSE {}
    OBVIOUS
  <2>1. SettleQuietly(shown, Ended(c))
    BY <1>12 DEF SettleOpen
  <2>2. shown \subseteq Shown
    <3>1. Lost.view # "wallet" /\ NoAnswer.view # "wallet"
      BY DEF Lost, NoAnswer, Plain
    <3> QED
      BY <1>0, <3>1 DEF Active, CallTypes, Shown
  <2> QED
    BY <1>10, <1>a, <2>1, <2>2
<1>13. CASE UNCHANGED vars \/ Visibility
  BY <1>0, <1>13 DEF vars, Visibility, ViewTypes, NamesNoDemo
<1>14. ASSUME NEW c \in Calls, HostKeeps(c)
       PROVE  ViewTypes'
  <2>1. /\ call' = Ended(c) /\ faults' \in 0 .. MaxFaults
        /\ UNCHANGED <<linked, data, wallet, selected, switching, viaPairing>>
    BY <1>0, <1>14 DEF HostKeeps, Ended
  <2> QED
    BY <1>0, <1>a, <2>1 DEF ViewTypes, NamesNoDemo
<1> QED
  BY <1>1, <1>2, <1>3, <1>4, <1>5, <1>6, <1>7, <1>8, <1>9, <1>11, <1>12, <1>13, <1>14
     DEF Next, Step


\* ViewTypes holds at first.
LEMMA InitViewTypes == Init => ViewTypes
<1> SUFFICES ASSUME Init PROVE ViewTypes
  OBVIOUS
<1>1. PICK restored \in Results \cup {Damaged, Loading} :
        data = IF Renderable(restored) THEN restored ELSE Loading
  BY DEF Init
<1>2. data \in Shown
  BY <1>1 DEF Renderable, Shown
<1>3. data.view = "wallet" => data \in Wallets
  <2>1. Loading.view # "wallet" /\ Damaged \notin Shown
    BY ShownFacts DEF Loading, Plain
  <2>2. data \in Results \cup {Loading}
    BY <1>1 DEF Renderable
  <2>3. \A r \in Results : r.view = "wallet" => r \in Wallets
    BY DEF Results, Plain
  <2> QED
    BY <2>1, <2>2, <2>3
<1>4. /\ wallet \in Wallets \cup {Demo}
      /\ selected \in Networks \cup {NotMounted}
  BY <1>2, <1>3, ShownFacts DEF Init
<1>5. call = [c \in Calls |-> NoCall]
  BY DEF Init
<1>6. call \in [Calls -> CallTypes] /\ \A c \in Calls : NamesNoDemo(call[c])
  BY <1>5, NoCallFacts
<1>7. linked \in BOOLEAN /\ switching \in BOOLEAN /\ viaPairing \in BOOLEAN
  <2>1. linked \in BOOLEAN /\ switching = FALSE /\ viaPairing = FALSE
    BY DEF Init
  <2> QED
    BY <2>1, Zenon
<1>8. faults \in 0 .. MaxFaults
  BY ConstantsAssumption DEF Init
<1> QED
  BY <1>2, <1>4, <1>6, <1>7, <1>8 DEF ViewTypes, ScreenTypes

\* The widget's state keeps its types: whatever is pushed or answered, and when, a wallet
\* that is shown or kept has a summary.
THEOREM ViewTypesCorrect == Spec => []TypeOK
<1> DEFINE HostTypes == hostKeeps \subseteq {"select", "check"} /\ visible \in BOOLEAN
<1>1. ViewTypes /\ [Next]_vars => ViewTypes'
  BY NextViewTypes
<1>2. Init => HostTypes
  BY DEF Init
<1>3. HostTypes /\ [Next]_vars => HostTypes'
  <2> SUFFICES ASSUME HostTypes, [Next]_vars PROVE HostTypes'
    OBVIOUS
  <2>1. CASE WaitsOn
    BY <2>1 DEF WaitsOn
  <2>2. ASSUME NEW c \in Calls, HostKeeps(c)
        PROVE  HostTypes'
    BY <2>2 DEF HostKeeps
  <2>3. CASE Visibility \/ UNCHANGED vars
    BY <2>3 DEF Visibility, vars
  <2> QED
    BY <2>1, <2>2, <2>3 DEF Next
<1>4. ViewTypes /\ HostTypes => TypeOK
  BY DEF ViewTypes, ScreenTypes, TypeOK
<1> QED
  BY <1>1, <1>2, <1>3, <1>4, InitViewTypes, PTL DEF Spec

\* What the wallet screen shows, and its snapshot, part only where a pairing screen shows it.
THEOREM SnapshotCorrect == Spec => []SnapshotIsWhatIsShown
<1> DEFINE Inv == SnapshotIsWhatIsShown
<1>1. Init => Inv
  BY DEF Init, SnapshotIsWhatIsShown
<1>2. Inv /\ [Next]_vars => Inv'
  <2> SUFFICES ASSUME Inv, [Next]_vars PROVE Inv'
    OBVIOUS
  <2>1. ASSUME NEW d, NEW cs, NEW loads, Receive(d, cs, loads)
        PROVE  Inv'
    BY <2>1 DEF Receive, Show, Snapshot, SnapshotIsWhatIsShown
  <2>2. ASSUME NEW c \in Calls, Back(c)
        PROVE  Inv'
    BY <2>2 DEF Back, Show, SnapshotIsWhatIsShown
  <2>3. CASE Navigate
    BY <2>3 DEF Navigate, Show, Plain, SnapshotIsWhatIsShown
  <2>4. ASSUME NEW shown, NEW cs, SettleQuietly(shown, cs)
        PROVE  Inv'
    BY <2>4 DEF SettleQuietly, SnapshotIsWhatIsShown
  <2>5. ASSUME NEW c \in Calls, SettleEmitted(c)
        PROVE  Inv'
    <3>1. CASE Receive(call[c].answer, Ended(c), Loads(call[c]))
      BY <2>1, <3>1
    <3>2. CASE UNCHANGED <<data, wallet, viaPairing>>
      BY <3>2 DEF SnapshotIsWhatIsShown
    <3> QED
      BY <2>5, <3>1, <3>2 DEF SettleEmitted
  <2>6. ASSUME NEW c \in Calls, SettleCheck(c) \/ SettleOpen(c)
        PROVE  Inv'
    <3>1. PICK shown, cs : SettleQuietly(shown, cs)
      BY <2>6, Zenon DEF SettleCheck, SettleOpen
    <3> QED
      BY <2>4, <3>1
  <2>7. CASE Push
    <3>1. PICK d : Receive(d, call, switching)
      BY <2>7 DEF Push
    <3> QED
      BY <2>1, <3>1
  <2>8. CASE UNCHANGED <<data, wallet, viaPairing>>
    BY <2>8 DEF SnapshotIsWhatIsShown
  <2> QED
    BY <2>2, <2>3, <2>5, <2>6, <2>7, <2>8
       DEF Next, Step, vars, OpenWallet, SelectNetwork, Submit, Ask,
           Check, Open, ServerAnswers, CallFails, Link, HostKeeps, Visibility
<1> QED
  BY <1>1, <1>2, PTL DEF Spec


\* An attempt that still has its screen to come back to finds it shown.
OpenedOnItsScreen ==
  \A c \in Calls : call[c].by = "opened" /\ call[c].alive => data.view = "wallet-connected"

\* No attempt to open the wallet is among these calls that was not before.
NoNewAttempt(cs) ==
  \A c \in Calls :
    cs[c].by = "opened" /\ cs[c].alive => call[c].by = "opened" /\ call[c].alive

\* And none ended but one that has its screen to come back to.
Carries(cs) ==
  /\ cs \in [Calls -> CallTypes] /\ NoNewAttempt(cs)
  /\ \A c \in Calls : call[c].by = "opened" => cs[c].by = "opened" \/ call[c].alive

\* Another screen is shown, with the calls it carries over, or none is.
LEMMA ViewSteps ==
  ASSUME ViewTypes, [Next]_vars
  PROVE  \/ \E d, cs, loads : Show(d, cs, loads) /\ Carries(cs)
         \/ data' = data /\ (data.view = "wallet-connected" \/ NoNewAttempt(call'))
<1> DEFINE Goal == \/ \E d, cs, loads : Show(d, cs, loads) /\ Carries(cs)
                   \/ data' = data /\ (data.view = "wallet-connected" \/ NoNewAttempt(call'))
<1>0. call \in [Calls -> CallTypes]
  BY DEF ViewTypes, ScreenTypes
<1>1. Carries(call)
  BY <1>0 DEF Carries, NoNewAttempt
<1>2. ASSUME NEW c \in Calls, call[c].by # "opened"
      PROVE  Carries(Ended(c))
  BY <1>0, <1>2, NoCallFacts DEF Carries, NoNewAttempt, Ended
<1>3. ASSUME NEW c \in Calls
      PROVE  NoNewAttempt(Ended(c))
  BY <1>0, NoCallFacts DEF NoNewAttempt, Ended
<1>4. ASSUME NEW c \in Calls, call[c] = NoCall, NEW alive \in BOOLEAN,
             NEW by \in {"open", "back", "select", "submit", "ask", "check"},
             NEW n \in Networks \cup {Amoy, NoNetwork}, by # "submit" => n # Amoy
      PROVE  Carries(Asked(c, by, n, alive))
  <2>1. Asked(c, by, n, alive) \in [Calls -> CallTypes]
    BY <1>4, AskedFacts
  <2>2. /\ Asked(c, by, n, alive)[c].by = by /\ call[c].by = "none"
        /\ \A d \in Calls \ {c} : Asked(c, by, n, alive)[d] = call[d]
    BY <1>0, <1>4, NoCallFacts DEF Asked
  <2> QED
    BY <2>1, <2>2 DEF Carries, NoNewAttempt
<1>5. ASSUME NEW d, NEW cs, NEW loads, Receive(d, cs, loads), Carries(cs)
      PROVE  Goal
  BY <1>5 DEF Receive, Carries
<1>6. ASSUME NEW c \in Calls, Back(c)
      PROVE  Goal
  BY <1>4, <1>6, ConstantsAssumption DEF Back
<1>7. CASE Navigate
  BY <1>1, <1>7 DEF Navigate
<1>8. CASE Push
  BY <1>1, <1>5, <1>8 DEF Push
<1>9. ASSUME NEW c \in Calls, SettleEmitted(c)
      PROVE  Goal
  <2>1. Carries(Ended(c))
    BY <1>2, <1>9 DEF SettleEmitted
  <2>2. \/ Receive(call[c].answer, Ended(c), Loads(call[c]))
        \/ data' = data /\ call' = Ended(c)
    BY <1>9 DEF SettleEmitted
  <2> QED
    BY <1>5, <2>1, <2>2 DEF Carries
<1>10. ASSUME NEW c \in Calls, SettleCheck(c)
       PROVE  Goal
  <2>1. CASE call[c].by = "check" /\ call[c].answer.view = "wallet-connected"
    <3>1. call' = [call EXCEPT ![c].by = "fetch", ![c].answer = NoAnswer] /\ data' = data
      BY <1>10, <2>1 DEF SettleCheck, SettleQuietly
    <3>2. /\ call'[c].by = "fetch"
          /\ \A d \in Calls \ {c} : call'[d] = call[d]
      BY <1>0, <3>1 DEF CallTypes
    <3>3. NoNewAttempt(call')
      BY <3>2 DEF NoNewAttempt
    <3> QED
      BY <3>1, <3>3
  <2>2. CASE ~(call[c].by = "check" /\ call[c].answer.view = "wallet-connected")
    <3>1. SettleQuietly(CheckShows(call[c]), Ended(c)) /\ call[c].by # "opened"
      BY <1>10, <2>2 DEF SettleCheck, CheckEnds
    <3>2. Carries(Ended(c))
      BY <1>2, <3>1
    <3> QED
      BY <3>1, <3>2 DEF SettleQuietly, Carries
  <2> QED
    BY <2>1, <2>2
<1>11. ASSUME NEW c \in Calls, SettleOpen(c)
       PROVE  Goal
  <2>1. CASE Active(call[c])
    <3>1. call[c].alive
      BY <2>1 DEF Active
    <3>2. Carries(Ended(c))
      BY <1>0, <1>3, <3>1, NoCallFacts DEF Carries, Ended
    <3> QED
      BY <1>11, <2>1, <3>2 DEF SettleOpen, SettleQuietly
  <2>2. CASE ~Active(call[c])
    <3>1. call' = Ended(c) /\ data' = data
      BY <1>11, <2>2 DEF SettleOpen, SettleQuietly
    <3> QED
      BY <1>3, <3>1
  <2> QED
    BY <2>1, <2>2
<1>12. ASSUME NEW c \in Calls, ServerAnswers(c) \/ CallFails(c)
       PROVE  Goal
  <2>1. PICK a : call' = [call EXCEPT ![c].answer = a]
    BY <1>12 DEF ServerAnswers, CallFails
  <2>2. \A d \in Calls : call'[d].by = call[d].by /\ call'[d].alive = call[d].alive
    BY <1>0, <2>1 DEF CallTypes
  <2>3. data' = data
    BY <1>12 DEF ServerAnswers, CallFails
  <2> QED
    BY <2>2, <2>3 DEF NoNewAttempt
<1>13. ASSUME NEW c \in Calls, OpenWallet(c) \/ Submit(c) \/ Ask(c) \/ Check(c)
       PROVE  Goal
  <2>1. PICK by \in {"open", "submit", "ask", "check"}, n \in Networks \cup {Amoy, NoNetwork},
             alive \in BOOLEAN :
          call' = Asked(c, by, n, alive) /\ (by # "submit" => n # Amoy)
    BY <1>13, WalletFacts, ConstantsAssumption DEF OpenWallet, Submit, Ask, Check,
       ViewTypes, ScreenTypes
  <2>2. call[c] = NoCall /\ data' = data
    BY <1>13 DEF OpenWallet, Submit, Ask, Check
  <2>3. Carries(Asked(c, by, n, alive))
    BY <1>4, <2>1, <2>2
  <2> QED
    BY <2>1, <2>2, <2>3 DEF Carries
<1>14. ASSUME NEW c \in Calls, SelectNetwork(c)
       PROVE  Goal
  <2>1. CASE call' = call
    BY <1>1, <1>14, <2>1 DEF SelectNetwork, Carries
  <2>2. CASE call' # call
    <3>1. PICK n \in Networks : /\ call[c] = NoCall
                                /\ call' = Asked(c, "select", n, TRUE)
      BY <1>14, <2>2 DEF SelectNetwork
    <3>2. Carries(Asked(c, "select", n, TRUE))
      BY <1>4, <3>1, ConstantsAssumption
    <3> QED
      BY <1>14, <3>1, <3>2 DEF SelectNetwork, Carries
  <2> QED
    BY <2>1, <2>2
<1>15. ASSUME NEW c \in Calls, Open(c)
       PROVE  Goal
  BY <1>15 DEF Open
<1>16. CASE Link \/ Visibility \/ UNCHANGED vars
  BY <1>1, <1>16 DEF Link, Visibility, vars, Carries
<1>17. ASSUME NEW c \in Calls, HostKeeps(c)
       PROVE  Goal
  BY <1>3, <1>17 DEF HostKeeps, Ended
<1> QED
  BY <1>6, <1>7, <1>8, <1>9, <1>10, <1>11, <1>12, <1>13, <1>14, <1>15, <1>16, <1>17
     DEF Next, Step

\* What takes the attempts of the last screen out of action is that another one is shown.
LEMMA ShownAttempts ==
  ASSUME NEW d, NEW cs, NEW loads, Show(d, cs, loads), Carries(cs)
  PROVE  /\ \A c \in Calls : call'[c].by = cs[c].by
         /\ OpenedOnItsScreen => OpenedOnItsScreen'
<1>1. data' = d /\ call' = Orphaned(cs, d.view)
  BY DEF Show
<1>2. CASE Component(d.view) = Component(data.view)
  <2>1. call' = cs
    BY <1>1, <1>2 DEF Orphaned
  <2>2. ASSUME OpenedOnItsScreen, NEW c \in Calls, cs[c].by = "opened", cs[c].alive
        PROVE  d.view = "wallet-connected"
    <3>1. data.view = "wallet-connected"
      BY <2>2 DEF OpenedOnItsScreen, Carries, NoNewAttempt
    <3> QED
      BY <1>2, <3>1 DEF Component
  <2> QED
    BY <1>1, <2>1, <2>2 DEF OpenedOnItsScreen
<1>3. CASE Component(d.view) # Component(data.view)
  <2>1. call' = [e \in Calls |-> [cs[e] EXCEPT !.alive = FALSE]]
    BY <1>1, <1>3 DEF Orphaned
  <2>2. \A c \in Calls : call'[c].by = cs[c].by /\ ~call'[c].alive
    BY <2>1 DEF Carries, CallTypes
  <2> QED
    BY <2>2 DEF OpenedOnItsScreen
<1> QED
  BY <1>2, <1>3

\* What was fetched for the screen of a new connection replaces that screen only.
THEOREM OpenedCorrect == Spec => OpenedReplacesOnlyItsScreen
<1>1. Init => OpenedOnItsScreen
  BY NoCallFacts DEF Init, OpenedOnItsScreen
<1>2. ViewTypes /\ OpenedOnItsScreen /\ [Next]_vars
        => OpenedOnItsScreen'
  BY ViewSteps, ShownAttempts DEF OpenedOnItsScreen, NoNewAttempt
<1>3. ASSUME ViewTypes, OpenedOnItsScreen, [Next]_vars,
             NEW c \in Calls, call[c].by = "opened", call'[c] = NoCall, data' # data
      PROVE  data.view = "wallet-connected"
  <2>1. PICK d, cs, loads : Show(d, cs, loads) /\ Carries(cs)
    BY <1>3, ViewSteps
  <2>2. cs[c].by # "opened"
    BY <1>3, <2>1, ShownAttempts, NoCallFacts
  <2> QED
    BY <1>3, <2>1, <2>2 DEF Carries, OpenedOnItsScreen
<1>4. ViewTypes /\ [Next]_vars => ViewTypes'
  BY NextViewTypes
<1>5. ViewTypes /\ OpenedOnItsScreen /\ [Next]_vars =>
        \A c \in Calls : call[c].by = "opened" /\ call'[c] = NoCall /\ data' # data
          => data.view = "wallet-connected"
  BY <1>3
<1> QED
  BY <1>1, <1>2, <1>4, <1>5, InitViewTypes, PTL
     DEF Spec, OpenedReplacesOnlyItsScreen

\* A transfer form keeps the network and the asset it was opened with, whatever comes in.
THEOREM FormCorrect == Spec => FormKeepsItsTerms
<1>1. [Next]_vars =>
        (data.view = "transfer-form" /\ data'.view = "transfer-form" => wallet' = wallet)
  <2> SUFFICES ASSUME [Next]_vars, data'.view = "transfer-form"
               PROVE  wallet' = wallet
    OBVIOUS
  <2>1. ASSUME NEW d, NEW cs, NEW loads, Receive(d, cs, loads)
        PROVE  wallet' = wallet
    BY <2>1 DEF Receive, Show, Snapshot
  <2>2. ASSUME NEW c \in Calls, SettleEmitted(c)
        PROVE  wallet' = wallet
    BY <2>1, <2>2 DEF SettleEmitted
  <2>3. CASE Push
    BY <2>1, <2>3 DEF Push
  <2>4. ASSUME NEW c \in Calls, SettleCheck(c) \/ SettleOpen(c)
        PROVE  wallet' = wallet
    BY <2>4 DEF SettleCheck, SettleOpen, SettleQuietly
  <2> QED
    BY <2>2, <2>3, <2>4
       DEF Next, Step, vars, Back, OpenWallet, SelectNetwork, Submit,
           Ask, Check, Open, ServerAnswers, CallFails, Link,
           Navigate, HostKeeps, Visibility
<1> QED
  BY <1>1, PTL DEF Spec, FormKeepsItsTerms

---------------------------------------------------------------------------------------
(* HttpShell                                                                         *)

\* A set of numbers that is not empty has a least one.
LEMMA Least ==
  ASSUME NEW T \in SUBSET Nat, T # {}
  PROVE  \E x \in T : \A y \in T : x <= y
<1> DEFINE R == {ss \in Nat \X Nat : ss[1] < ss[2]}
<1>1. IsWellFoundedOn(R, Nat)
  BY NatLessThanWellFounded, Zenon DEF OpToRel
<1>2. \A x, y \in Nat : y < x => <<y, x>> \in R
  OBVIOUS
<1> HIDE DEF R
<1>3. PICK x \in T : \A y \in T : ~(<<y, x>> \in R)
  BY <1>1, WFMin
<1>4. ASSUME NEW y \in T PROVE x <= y
  <2>1. ~(y < x)
    BY <1>2, <1>3
  <2> QED
    BY <2>1
<1> QED
  BY <1>4

-----------------------------------------------------------------------------
\* The rate limiter.

\* The constants, one by one.
LEMMA ShellConstants ==
  /\ Window \in Nat /\ Window > 0 /\ CookieTtl \in Nat /\ Retention \in Nat
  /\ PruneEvery \in Nat /\ PruneEvery > 0 /\ MaxTime \in Nat /\ NoBucket \notin Bucket
  /\ \A r \in Routes : Max[r] \in Nat /\ Max[r] >= 1
  /\ NoCampaign \notin Campaigns
BY ShellAssumption

\* Times that come in order.
InOrder(times) ==
  /\ times \in Seq(Nat)
  /\ \A i \in 1 .. Len(times), j \in 1 .. Len(times) : i <= j => times[i] <= times[j]

\* What is left of a sequence without its head.
LEMMA Suffix ==
  ASSUME NEW s \in Seq(Nat), NEW first \in 1 .. Len(s) + 1
  PROVE  /\ SubSeq(s, first, Len(s)) \in Seq(Nat)
         /\ Len(SubSeq(s, first, Len(s))) = Len(s) - (first - 1)
         /\ \A i \in 1 .. Len(s) - (first - 1) :
              SubSeq(s, first, Len(s))[i] = s[i + (first - 1)]
OBVIOUS

\* The times that are a window old are the first ones, and they go.
LEMMA RecentFacts ==
  ASSUME NEW times, InOrder(times), NEW at \in Nat, Window \in Nat
  PROVE  \E d \in 0 .. Len(times) :
           /\ Recent(times, at) \in Seq(Nat)
           /\ Len(Recent(times, at)) = Len(times) - d
           /\ \A i \in 1 .. Len(times) - d : Recent(times, at)[i] = times[i + d]
           /\ \A i \in 1 .. Len(times) : times[i] + Window <= at <=> i <= d
<1>0. /\ Len(times) \in Nat /\ DOMAIN times = 1 .. Len(times)
      /\ \A i \in 1 .. Len(times) : times[i] \in Nat
  BY DEF InOrder
<1> DEFINE T == {i \in Nat : i >= 1 /\ (i \in 1 .. Len(times) => times[i] + Window > at)}
           First(i) == \A j \in DOMAIN times : j < i <=> times[j] + Window <= at
<1>1. PICK x \in T : \A y \in T : x <= y
  <2>1. Len(times) + 1 \in T /\ T \subseteq Nat
    BY <1>0
  <2> HIDE DEF T
  <2> QED
    BY <2>1, Least
<1>2. x \in 1 .. Len(times) + 1 /\ First(x)
  <2>1. x \in Nat /\ x >= 1 /\ (x \in 1 .. Len(times) => times[x] + Window > at)
    BY <1>1
  <2>2. x <= Len(times) + 1
    <3>1. Len(times) + 1 \in T
      BY <1>0
    <3> HIDE DEF T
    <3> QED
      BY <1>1, <3>1
  <2> SUFFICES ASSUME NEW j \in 1 .. Len(times)
               PROVE  j < x <=> times[j] + Window <= at
    BY <1>0, <2>1, <2>2
  <2>3. CASE j < x
    <3>1. j \notin T
      BY <1>1, <2>3
    <3> QED
      BY <1>0, <2>3, <3>1
  <2>4. CASE ~(j < x)
    <3>1. x \in 1 .. Len(times) /\ times[x] <= times[j]
      BY <1>0, <2>1, <2>4 DEF InOrder
    <3> QED
      BY <1>0, <2>1, <2>4, <3>1
  <2> QED
    BY <2>3, <2>4
<1> PICK first : first = CHOOSE i \in 1 .. Len(times) + 1 : First(i)
  OBVIOUS
<1>3. first \in 1 .. Len(times) + 1 /\ First(first)
  <2> HIDE DEF First
  <2> QED
    BY <1>2
<1> PICK s : s = SubSeq(times, first, Len(times))
  OBVIOUS
<1>4. Recent(times, at) = s
  BY DEF Recent
<1>5. /\ s \in Seq(Nat) /\ Len(s) = Len(times) - (first - 1)
      /\ \A i \in 1 .. Len(times) - (first - 1) : s[i] = times[i + (first - 1)]
  BY <1>3, Suffix DEF InOrder
<1>6. \A i \in 1 .. Len(times) : times[i] + Window <= at <=> i <= first - 1
  BY <1>0, <1>3
<1>7. first - 1 \in 0 .. Len(times)
  BY <1>0, <1>3
<1> QED
  BY <1>4, <1>5, <1>6, <1>7

\* A route and an address.
Keys == Routes \X Browsers

\* The bucket's window lasts.
Lasts(bucket, at) == bucket # NoBucket /\ at < bucket.resetAt

\* The first m of the times may be those of the window before: the bucket counted the rest.
Splits(times, bucket, max, m) ==
  /\ m <= max /\ Len(times) - m <= bucket.count - 1 /\ Len(times) - m <= max - 1
  /\ \A i \in 1 .. m : times[i] + Window <= bucket.resetAt

\* While a window lasts, the requests of the last window are those that came before it or
\* opened it, and those it counted since.  Later they are those that came after the one
\* that opened it: one less than a window admits.
RateHolds(times, bucket, max, at) ==
  /\ InOrder(times) /\ \A i \in 1 .. Len(times) : times[i] <= at
  /\ Lasts(bucket, at) => \E m \in 0 .. Len(times) : Splits(times, bucket, max, m)
  /\ ~Lasts(bucket, at) => Len(times) <= max - 1

RateInv == \A k \in Keys : RateHolds(admitted[k], rateBuckets[k], Max[k[1]], now)

\* A request that is admitted now comes last.
LEMMA AppendFacts ==
  ASSUME NEW times, InOrder(times), NEW at \in Nat, \A i \in 1 .. Len(times) : times[i] <= at
  PROVE  /\ InOrder(Append(times, at)) /\ Len(Append(times, at)) = Len(times) + 1
         /\ \A i \in 1 .. Len(times) + 1 : Append(times, at)[i] <= at
         /\ \A i \in 1 .. Len(times) : Append(times, at)[i] = times[i]
BY DEF InOrder

\* A request that the bucket's window admits keeps the counter right.
LEMMA RateAdmits ==
  ASSUME NEW times, NEW more, NEW old, NEW new, NEW max \in Nat, NEW at \in Nat,
         Window \in Nat, max >= 1, RateHolds(times, old, max, at),
         more = Append(times, at), new # NoBucket, at < new.resetAt,
         new.count \in Nat, new.resetAt \in Nat, new.count <= max,
         Lasts(old, at) => /\ old.count \in Nat /\ new.count = old.count + 1
                           /\ new.resetAt = old.resetAt,
         ~Lasts(old, at) => new.count = 1 /\ new.resetAt = at + Window
  PROVE  RateHolds(more, new, max, at)
<1>1. /\ InOrder(times) /\ Len(times) \in Nat
      /\ \A i \in 1 .. Len(times) : times[i] <= at /\ times[i] \in Nat
  BY DEF RateHolds, InOrder
<1>2. /\ InOrder(more) /\ Len(more) = Len(times) + 1
      /\ \A i \in 1 .. Len(times) + 1 : more[i] <= at
      /\ \A i \in 1 .. Len(times) : more[i] = times[i]
  BY <1>1, AppendFacts
<1>3. \A i \in 1 .. Len(more) : more[i] \in Nat
  BY <1>2 DEF InOrder
<1>4. \E m \in 0 .. Len(more) : Splits(more, new, max, m)
  <2>1. CASE Lasts(old, at)
    <3>1. PICK m \in 0 .. Len(times) : Splits(times, old, max, m)
      BY <2>1 DEF RateHolds
    <3>2. old.count \in Nat /\ new.count = old.count + 1 /\ new.resetAt = old.resetAt
      BY <2>1
    <3>3. m \in 0 .. Len(more) /\ Splits(more, new, max, m)
      BY <1>1, <1>2, <3>1, <3>2 DEF Splits
    <3> QED
      BY <3>3
  <2>2. CASE ~Lasts(old, at)
    <3>1. Len(times) <= max - 1 /\ new.count = 1 /\ new.resetAt = at + Window
      BY <2>2 DEF RateHolds
    <3>2. Len(more) \in 0 .. Len(more) /\ Splits(more, new, max, Len(more))
      BY <1>1, <1>2, <1>3, <3>1 DEF Splits
    <3> QED
      BY <3>2
  <2> QED
    BY <2>1, <2>2
<1> QED
  BY <1>2, <1>4 DEF RateHolds, Lasts

\* A refused request only raises the count of a window that lasts.
LEMMA RateRefuses ==
  ASSUME NEW times, NEW old, NEW new, NEW max \in Nat, NEW at \in Nat,
         max >= 1, RateHolds(times, old, max, at), new # NoBucket, at < new.resetAt,
         new.count = max + 1,
         Lasts(old, at) => /\ old.count \in Nat /\ new.count = old.count + 1
                           /\ new.resetAt = old.resetAt,
         ~Lasts(old, at) => new.count = 1
  PROVE  RateHolds(times, new, max, at)
<1>1. Lasts(old, at)
  OBVIOUS
<1>2. PICK m \in 0 .. Len(times) : Splits(times, old, max, m)
  BY <1>1 DEF RateHolds
<1>3. Len(times) \in Nat
  BY DEF RateHolds, InOrder
<1>4. Splits(times, new, max, m)
  BY <1>1, <1>2, <1>3 DEF Splits
<1> QED
  BY <1>4 DEF RateHolds, Lasts

\* A window that is over can be forgotten.
LEMMA RateForgets ==
  ASSUME NEW times, NEW old, NEW max, NEW at, RateHolds(times, old, max, at), ~Lasts(old, at)
  PROVE  RateHolds(times, NoBucket, max, at)
BY DEF RateHolds, Lasts

\* As time passes the oldest requests leave the last window.
LEMMA RatePasses ==
  ASSUME NEW times, NEW left, NEW bucket, NEW max \in Nat, NEW at \in Nat, NEW next \in Nat,
         Window \in Nat, max >= 1, RateHolds(times, bucket, max, at),
         next = at + 1, left = Recent(times, next),
         bucket # NoBucket => bucket.count \in Nat /\ bucket.resetAt \in Nat
  PROVE  RateHolds(left, bucket, max, next)
<1>1. /\ InOrder(times) /\ Len(times) \in Nat
      /\ \A i \in 1 .. Len(times) : times[i] <= at /\ times[i] \in Nat
  BY DEF RateHolds, InOrder
<1>2. PICK d \in 0 .. Len(times) :
        /\ left \in Seq(Nat) /\ Len(left) = Len(times) - d
        /\ \A i \in 1 .. Len(times) - d : left[i] = times[i + d]
        /\ \A i \in 1 .. Len(times) : times[i] + Window <= next <=> i <= d
  BY <1>1, RecentFacts
<1>3. \A i \in 1 .. Len(left) : i + d \in 1 .. Len(times) /\ left[i] = times[i + d]
  BY <1>1, <1>2
<1>4. InOrder(left) /\ \A i \in 1 .. Len(left) : left[i] <= next
  <2>1. ASSUME NEW i \in 1 .. Len(left), NEW j \in 1 .. Len(left), i <= j
        PROVE  left[i] <= left[j]
    <3>1. i + d \in 1 .. Len(times) /\ j + d \in 1 .. Len(times) /\ i + d <= j + d
      BY <1>2, <1>3, <2>1
    <3>2. times[i + d] <= times[j + d]
      BY <1>1, <3>1 DEF InOrder
    <3> QED
      BY <1>3, <3>2
  <2>2. ASSUME NEW i \in 1 .. Len(left)
        PROVE  left[i] <= next
    <3>1. i + d \in 1 .. Len(times) /\ left[i] = times[i + d]
      BY <1>3
    <3> QED
      BY <1>1, <3>1
  <2> QED
    BY <1>2, <2>1, <2>2 DEF InOrder
<1>5. CASE ~Lasts(bucket, at)
  <2>1. ~Lasts(bucket, next)
    BY <1>5 DEF Lasts
  <2>2. Len(left) <= max - 1
    BY <1>1, <1>2, <1>5 DEF RateHolds
  <2> QED
    BY <1>4, <2>1, <2>2 DEF RateHolds
<1>6. CASE Lasts(bucket, at)
  <2>1. PICK m \in 0 .. Len(times) : Splits(times, bucket, max, m)
    BY <1>6 DEF RateHolds
  <2>2. bucket.count \in Nat /\ bucket.resetAt \in Nat
    BY <1>6 DEF Lasts
  <2>3. CASE Lasts(bucket, next)
    <3>1. CASE d <= m
      <4>1. m - d \in 0 .. Len(left) /\ Len(left) - (m - d) = Len(times) - m /\ m - d <= m
        BY <1>1, <1>2, <3>1
      <4>2. ASSUME NEW i \in 1 .. m - d
            PROVE  left[i] + Window <= bucket.resetAt
        <5>1. i \in 1 .. Len(left) /\ i + d \in 1 .. m
          BY <1>1, <1>2, <3>1
        <5> QED
          BY <1>3, <2>1, <5>1 DEF Splits
      <4> PICK k : k = m - d
        OBVIOUS
      <4>3. k <= max /\ Len(left) - k <= bucket.count - 1 /\ Len(left) - k <= max - 1
        <5>1. Len(left) - k = Len(times) - m /\ k \in Int /\ m \in Int /\ k <= m
          BY <1>1, <4>1
        <5>2. m <= max /\ Len(times) - m <= bucket.count - 1 /\ Len(times) - m <= max - 1
          BY <2>1 DEF Splits
        <5> QED
          BY <5>1, <5>2
      <4>4. k \in 0 .. Len(left) /\ Splits(left, bucket, max, k)
        BY <4>1, <4>2, <4>3 DEF Splits
      <4> QED
        BY <1>4, <2>3, <4>4 DEF RateHolds
    <3>2. CASE ~(d <= m)
      <4>1. /\ 0 <= max /\ Len(left) - 0 <= bucket.count - 1 /\ Len(left) - 0 <= max - 1
            /\ \A i \in 1 .. 0 : left[i] + Window <= bucket.resetAt
        <5> PICK n, l \in Nat : n = Len(times) /\ l = Len(left)
          BY <1>1, <1>2
        <5>1. l = n - d /\ n - m <= bucket.count - 1 /\ n - m <= max - 1
          BY <1>2, <2>1 DEF Splits
        <5>2. l <= n - m
          BY <3>2, <5>1
        <5> QED
          BY <2>2, <5>1, <5>2
      <4>2. Splits(left, bucket, max, 0)
        BY <4>1 DEF Splits
      <4> QED
        BY <1>1, <1>2, <1>4, <2>3, <4>2 DEF RateHolds
    <3> QED
      BY <3>1, <3>2
  <2>4. CASE ~Lasts(bucket, next)
    <3>1. bucket.resetAt <= next
      BY <1>6, <2>2, <2>4 DEF Lasts
    <3>2. m <= d
      <4>1. CASE m = 0
        BY <4>1
      <4>2. CASE m # 0
        <5>1. m \in 1 .. m /\ m \in 1 .. Len(times)
          BY <1>1, <4>2
        <5>2. times[m] + Window <= bucket.resetAt
          BY <2>1, <5>1 DEF Splits
        <5>3. times[m] + Window <= next
          BY <1>1, <2>2, <3>1, <5>1, <5>2
        <5> QED
          BY <1>2, <5>1, <5>3
      <4> QED
        BY <4>1, <4>2
    <3>3. Len(left) <= max - 1
      BY <1>1, <1>2, <2>1, <3>2 DEF Splits
    <3> QED
      BY <1>4, <2>4, <3>3 DEF RateHolds
  <2> QED
    BY <2>3, <2>4
<1> QED
  BY <1>5, <1>6

\* What a counter that is right promises.
LEMMA RateBounds ==
  ASSUME NEW times, NEW bucket, NEW max \in Nat, NEW at, max >= 1,
         RateHolds(times, bucket, max, at)
  PROVE  Len(times) < 2 * max
<1>1. Len(times) \in Nat
  BY DEF RateHolds, InOrder
<1>2. CASE Lasts(bucket, at)
  <2>1. PICK m \in 0 .. Len(times) : Splits(times, bucket, max, m)
    BY <1>2 DEF RateHolds
  <2> QED
    BY <1>1, <2>1 DEF Splits
<1>3. CASE ~Lasts(bucket, at)
  BY <1>1, <1>3 DEF RateHolds
<1> QED
  BY <1>2, <1>3

\* Nothing was admitted yet.
LEMMA RateBegins ==
  ASSUME NEW max \in Nat, NEW at, max >= 1
  PROVE  RateHolds(<< >>, NoBucket, max, at)
BY DEF RateHolds, InOrder, Lasts

\* What the next request is counted in.
LEMMA CountedFacts ==
  ASSUME ShellTypeOK, NEW r \in Routes, NEW b \in Browsers
  PROVE  LET old == rateBuckets[<<r, b>>]
             new == Counted(r, b)
         IN /\ new \in Bucket /\ new # NoBucket /\ now < new.resetAt
            /\ Lasts(old, now) => /\ old \in Bucket /\ new.count = old.count + 1
                                  /\ new.resetAt = old.resetAt
            /\ ~Lasts(old, now) => new.count = 1 /\ new.resetAt = now + Window
<1> PICK old : old = rateBuckets[<<r, b>>]
  OBVIOUS
<1>1. now \in Nat /\ Window \in Nat /\ Window > 0 /\ NoBucket \notin Bucket
  BY ShellConstants DEF ShellTypeOK
<1>2. old \in Bucket \cup {NoBucket}
  BY DEF ShellTypeOK
<1>3. Current(r, b)
        = IF Lasts(old, now) THEN old ELSE [count |-> 0, resetAt |-> now + Window]
  BY <1>1, <1>2 DEF Current, Lasts, Bucket
<1> PICK current : current = Current(r, b)
  OBVIOUS
<1>4. current \in Bucket /\ now < current.resetAt
  BY <1>1, <1>2, <1>3 DEF Lasts, Bucket
<1> PICK new : new = [current EXCEPT !.count = @ + 1]
  OBVIOUS
<1>5. /\ new \in Bucket /\ new.count = current.count + 1
      /\ new.resetAt = current.resetAt
  BY <1>4 DEF Bucket
<1>6. Counted(r, b) = new
  BY DEF Counted
<1>7. Lasts(old, now) => old \in Bucket /\ current = old
  BY <1>2, <1>3 DEF Lasts
<1>8. ~Lasts(old, now) => current.count = 0 /\ current.resetAt = now + Window
  BY <1>3
<1> QED
  BY <1>1, <1>4, <1>5, <1>6, <1>7, <1>8

\* Admitting a request counts it, and no window that lasts is swept.
LEMMA AdmitFacts ==
  ASSUME ShellTypeOK, NEW r \in Routes, NEW b \in Browsers,
         Admit(r, b)
  PROVE  /\ rateBuckets' \in [Keys -> Bucket \cup {NoBucket}]
         /\ admitted' \in [Keys -> Seq(0 .. MaxTime)]
         /\ rateBuckets'[<<r, b>>] = Counted(r, b)
         /\ admitted'[<<r, b>>] = Append(admitted[<<r, b>>], now)
         /\ \A k \in Keys : k # <<r, b>> =>
              /\ admitted'[k] = admitted[k]
              /\ \/ rateBuckets'[k] = rateBuckets[k]
                 \/ rateBuckets'[k] = NoBucket /\ ~Lasts(rateBuckets[k], now)
<1>1. /\ rateBuckets \in [Keys -> Bucket \cup {NoBucket}]
      /\ admitted \in [Keys -> Seq(0 .. MaxTime)] /\ now \in 0 .. MaxTime
      /\ <<r, b>> \in Keys
  BY DEF ShellTypeOK, Keys
<1> PICK new : new = Counted(r, b)
  OBVIOUS
<1>2. new \in Bucket /\ new # NoBucket /\ now < new.resetAt
  BY CountedFacts
<1> PICK counted : counted = [rateBuckets EXCEPT ![<<r, b>>] = new]
  OBVIOUS
<1>3. /\ counted \in [Keys -> Bucket \cup {NoBucket}] /\ counted[<<r, b>>] = new
      /\ \A k \in Keys : k # <<r, b>> => counted[k] = rateBuckets[k]
  BY <1>1, <1>2
<1>4. \/ rateBuckets' = counted
      \/ rateBuckets' = [k \in DOMAIN counted |->
           IF counted[k] # NoBucket /\ counted[k].resetAt <= now THEN NoBucket ELSE counted[k]]
  BY DEF Admit, Swept
<1>5. /\ rateBuckets' \in [Keys -> Bucket \cup {NoBucket}]
      /\ \A k \in Keys : \/ rateBuckets'[k] = counted[k]
                         \/ /\ rateBuckets'[k] = NoBucket
                            /\ counted[k] # NoBucket /\ counted[k].resetAt <= now
  BY <1>3, <1>4
<1>6. rateBuckets'[<<r, b>>] = new
  BY <1>1, <1>2, <1>3, <1>5 DEF Bucket
<1>7. admitted' = [admitted EXCEPT ![<<r, b>>] = Append(admitted[<<r, b>>], now)]
  BY DEF Admit
<1>8. /\ admitted' \in [Keys -> Seq(0 .. MaxTime)]
      /\ admitted'[<<r, b>>] = Append(admitted[<<r, b>>], now)
      /\ \A k \in Keys : k # <<r, b>> => admitted'[k] = admitted[k]
  BY <1>1, <1>7
<1>9. \A k \in Keys : k # <<r, b>> =>
        \/ rateBuckets'[k] = rateBuckets[k]
        \/ rateBuckets'[k] = NoBucket /\ ~Lasts(rateBuckets[k], now)
  BY <1>1, <1>3, <1>5 DEF Lasts, Bucket
<1> QED
  BY <1>5, <1>6, <1>8, <1>9

\* Admitting a request keeps its counter right, and every other.
LEMMA AdmitKeepsRate ==
  ASSUME ShellTypeOK, RateInv, NEW r \in Routes,
         NEW b \in Browsers, Admit(r, b)
  PROVE  RateInv'
<1>1. now \in Nat /\ Window \in Nat /\ Max[r] \in Nat /\ Max[r] >= 1 /\ now' = now
      /\ <<r, b>> \in Keys /\ <<r, b>>[1] = r
  BY ShellConstants DEF ShellTypeOK, Admit, Keys
<1>2. RateHolds(admitted[<<r, b>>], rateBuckets[<<r, b>>], Max[r], now)
  BY <1>1 DEF RateInv
<1> PICK old, new : old = rateBuckets[<<r, b>>] /\ new = Counted(r, b)
  OBVIOUS
<1>3. /\ new \in Bucket /\ new # NoBucket /\ now < new.resetAt
      /\ Lasts(old, now) => /\ old \in Bucket /\ new.count = old.count + 1
                            /\ new.resetAt = old.resetAt
      /\ ~Lasts(old, now) => new.count = 1 /\ new.resetAt = now + Window
  BY CountedFacts
<1>4. /\ new.count \in Nat /\ new.resetAt \in Nat /\ new.count <= Max[r]
      /\ Lasts(old, now) => old.count \in Nat
  BY <1>3 DEF Bucket, Admit
<1>5. /\ rateBuckets'[<<r, b>>] = new /\ admitted'[<<r, b>>] = Append(admitted[<<r, b>>], now)
      /\ \A k \in Keys : k # <<r, b>> =>
           /\ admitted'[k] = admitted[k]
           /\ \/ rateBuckets'[k] = rateBuckets[k]
              \/ rateBuckets'[k] = NoBucket /\ ~Lasts(rateBuckets[k], now)
  BY AdmitFacts
<1>6. RateHolds(Append(admitted[<<r, b>>], now), new, Max[r], now)
  <2> PICK times, more, max : /\ times = admitted[<<r, b>>] /\ more = Append(times, now)
                              /\ max = Max[r]
    OBVIOUS
  <2>1. RateHolds(times, old, max, now)
    BY <1>2, Zenon
  <2>2. RateHolds(more, new, max, now)
    BY <1>1, <1>3, <1>4, <2>1, RateAdmits
  <2> QED
    BY <2>2, Zenon
<1>7. ASSUME NEW k \in Keys
      PROVE  RateHolds(admitted'[k], rateBuckets'[k], Max[k[1]], now')
  <2>1. RateHolds(admitted[k], rateBuckets[k], Max[k[1]], now)
    BY DEF RateInv
  <2>2. CASE k = <<r, b>>
    BY <1>1, <1>5, <1>6, <2>2, Zenon
  <2>3. CASE k # <<r, b>> /\ rateBuckets'[k] = rateBuckets[k]
    BY <1>1, <1>5, <2>1, <2>3, Zenon
  <2>4. CASE k # <<r, b>> /\ rateBuckets'[k] = NoBucket /\ ~Lasts(rateBuckets[k], now)
    <3>1. RateHolds(admitted[k], NoBucket, Max[k[1]], now)
      BY <2>1, <2>4, RateForgets
    <3> QED
      BY <1>1, <1>5, <2>4, <3>1, Zenon
  <2> QED
    BY <1>5, <2>2, <2>3, <2>4
<1> QED
  BY <1>7, Zenon DEF RateInv

\* Nor does refusing one.
LEMMA RefuseKeepsRate ==
  ASSUME ShellTypeOK, RateInv, NEW r \in Routes,
         NEW b \in Browsers, Refuse(r, b)
  PROVE  RateInv'
<1>1. now \in Nat /\ Max[r] \in Nat /\ Max[r] >= 1 /\ now' = now /\ admitted' = admitted
      /\ <<r, b>> \in Keys /\ <<r, b>>[1] = r
  BY ShellConstants DEF ShellTypeOK, Refuse, Keys
<1> PICK old, new : old = rateBuckets[<<r, b>>] /\ new = Counted(r, b)
  OBVIOUS
<1>2. /\ new \in Bucket /\ new # NoBucket /\ now < new.resetAt /\ new.count = Max[r] + 1
      /\ Lasts(old, now) => /\ old \in Bucket /\ new.count = old.count + 1
                            /\ new.resetAt = old.resetAt
      /\ ~Lasts(old, now) => new.count = 1
  BY CountedFacts DEF Refuse
<1>3. Lasts(old, now) => old.count \in Nat
  BY <1>2 DEF Bucket
<1>4. RateHolds(admitted[<<r, b>>], new, Max[r], now)
  <2> PICK times, max : times = admitted[<<r, b>>] /\ max = Max[r]
    OBVIOUS
  <2>1. RateHolds(times, old, max, now)
    BY <1>1, Zenon DEF RateInv
  <2>2. RateHolds(times, new, max, now)
    BY <1>1, <1>2, <1>3, <2>1, RateRefuses
  <2> QED
    BY <2>2, Zenon
<1>5. /\ rateBuckets \in [Keys -> Bucket \cup {NoBucket}]
      /\ rateBuckets' = [rateBuckets EXCEPT ![<<r, b>>] = new]
  BY DEF ShellTypeOK, Refuse, Keys
<1>6. /\ rateBuckets'[<<r, b>>] = new
      /\ \A k \in Keys : k # <<r, b>> => rateBuckets'[k] = rateBuckets[k]
  BY <1>1, <1>5
<1>7. ASSUME NEW k \in Keys
      PROVE  RateHolds(admitted'[k], rateBuckets'[k], Max[k[1]], now')
  <2>1. RateHolds(admitted[k], rateBuckets[k], Max[k[1]], now)
    BY DEF RateInv
  <2>2. CASE k = <<r, b>>
    BY <1>1, <1>4, <1>6, <2>2, Zenon
  <2>3. CASE k # <<r, b>>
    BY <1>1, <1>6, <2>1, <2>3, Zenon
  <2> QED
    BY <2>2, <2>3
<1> QED
  BY <1>7, Zenon DEF RateInv

\* Nor does time.
LEMMA TickKeepsRate ==
  ASSUME ShellTypeOK, RateInv, Tick
  PROVE  RateInv'
<1>1. /\ now \in Nat /\ now' \in Nat /\ now' = now + 1 /\ Window \in Nat
      /\ rateBuckets' = rateBuckets
      /\ \A k \in Keys : /\ Max[k[1]] \in Nat /\ Max[k[1]] >= 1
                         /\ rateBuckets[k] \in Bucket \cup {NoBucket}
      /\ \A k \in Keys : admitted'[k] = Recent(admitted[k], now')
  BY ShellConstants DEF ShellTypeOK, Tick, Keys
<1>2. ASSUME NEW k \in Keys
      PROVE  RateHolds(admitted'[k], rateBuckets'[k], Max[k[1]], now')
  <2> PICK times, left, bucket, next, max :
        /\ times = admitted[k] /\ left = admitted'[k] /\ bucket = rateBuckets[k]
        /\ next = now' /\ max = Max[k[1]]
    OBVIOUS
  <2>1. bucket # NoBucket => bucket.count \in Nat /\ bucket.resetAt \in Nat
    BY <1>1 DEF Bucket
  <2>2. RateHolds(times, bucket, max, now)
    BY Zenon DEF RateInv
  <2>3. left = Recent(times, next)
    BY <1>1, Zenon
  <2>4. max \in Nat /\ max >= 1 /\ next \in Nat /\ next = now + 1
    BY <1>1
  <2>5. RateHolds(left, bucket, max, next)
    BY <1>1, <2>1, <2>2, <2>3, <2>4, RatePasses
  <2> QED
    BY <1>1, <2>5, Zenon
<1> QED
  BY <1>2, Zenon DEF RateInv

\* A new process begins with neither requests nor buckets.
LEMMA StartKeepsRate ==
  ASSUME ShellTypeOK, Start
  PROVE  RateInv'
<1>1. \A k \in Keys : /\ Max[k[1]] \in Nat /\ Max[k[1]] >= 1
                      /\ admitted'[k] = << >> /\ rateBuckets'[k] = NoBucket
  BY ShellConstants DEF ShellTypeOK, Start, Keys
<1>2. \A k \in Keys : RateHolds(admitted'[k], rateBuckets'[k], Max[k[1]], now')
  <2>1. \A k \in Keys : RateHolds(<< >>, NoBucket, Max[k[1]], now')
    BY <1>1, RateBegins
  <2> QED
    BY <1>1, <2>1, Zenon
<1> QED
  BY <1>2, Zenon DEF RateInv

---------------------------------------------------------------------------------------
\* Types.

\* A sequence whose elements are in a set.
LEMMA SeqOver ==
  ASSUME NEW S, NEW s \in Seq(Nat), \A i \in 1 .. Len(s) : s[i] \in S
  PROVE  s \in Seq(S)
<1>1. s \in [1 .. Len(s) -> Nat] /\ Len(s) \in Nat
  OBVIOUS
<1>2. s \in [1 .. Len(s) -> S]
  BY <1>1
<1> QED
  <2> PICK n \in Nat : n = Len(s)
    BY <1>1
  <2>1. s \in [1 .. n -> S]
    BY <1>2, Zenon
  <2> QED
    BY <2>1, SeqDef

\* The last window's requests were admitted at times of the clock.
LEMMA RecentTypes ==
  ASSUME NEW times \in Seq(0 .. MaxTime), InOrder(times), NEW at \in Nat, Window \in Nat
  PROVE  Recent(times, at) \in Seq(0 .. MaxTime)
<1> PICK left : left = Recent(times, at)
  OBVIOUS
<1>1. PICK d \in 0 .. Len(times) :
        /\ left \in Seq(Nat) /\ Len(left) = Len(times) - d
        /\ \A i \in 1 .. Len(times) - d : left[i] = times[i + d]
  BY RecentFacts
<1>2. ASSUME NEW i \in 1 .. Len(left)
      PROVE  i + d \in 1 .. Len(times) /\ left[i] = times[i + d]
  <2>1. Len(times) \in Nat
    OBVIOUS
  <2>2. i \in 1 .. Len(times) - d
    BY <1>1, Zenon
  <2>3. i + d \in 1 .. Len(times)
    <3> PICK n : n = Len(times)
      OBVIOUS
    <3>1. n \in Nat /\ d \in 0 .. n /\ i \in 1 .. n - d
      BY <2>1, <2>2, <1>1, Zenon
    <3>2. i + d \in 1 .. n
      BY <3>1
    <3> QED
      BY <3>2, Zenon
  <2> QED
    BY <1>1, <2>2, <2>3, Zenon
<1>3. \A i \in 1 .. Len(left) : left[i] \in 0 .. MaxTime
  <2>1. \A i \in 1 .. Len(times) : times[i] \in 0 .. MaxTime
    BY ElementOfSeq, Zenon
  <2> QED
    BY <1>2, <2>1
<1> QED
  BY <1>1, <1>3, SeqOver

\* What a browser sends is a campaign or nothing.
LEMMA ReferralType ==
  ASSUME ShellTypeOK, NEW b \in Browsers
  PROVE  ReferralFromCookie(b) \in Campaigns \cup {NoCampaign}
BY DEF ShellTypeOK, Cookie, ReferralFromCookie

\* A function that changes at one argument.
LEMMA OneChanges ==
  ASSUME NEW A, NEW B, NEW f \in [A -> B], NEW x \in A, NEW y \in B
  PROVE  /\ [f EXCEPT ![x] = y] \in [A -> B] /\ [f EXCEPT ![x] = y][x] = y
         /\ \A z \in A : z # x => [f EXCEPT ![x] = y][z] = f[z]
OBVIOUS

\* A referral that a request leaves behind is its own user's.
LEMMA RecordUsers ==
  ASSUME NEW names, NEW source, NEW u \in Users \cup {NoUser},
         NEW referral \in Campaigns \cup {NoCampaign}, ShellTypeOK, Record(names, source, u, referral)
  PROVE  /\ users' \in [Users -> User \cup {NoUser}]
         /\ \A v \in Users : \/ users'[v] = users[v]
                             \/ (v = u /\ users'[v].referral = referral)
<1>1. users \in [Users -> User \cup {NoUser}]
  BY DEF ShellTypeOK
<1> PICK user : user = [referral |-> referral]
  OBVIOUS
<1>2. users' = users \/ (u \in Users /\ users' = [users EXCEPT ![u] = user])
  BY DEF Record, Touched
<1>3. user \in User /\ user.referral = referral
  BY DEF User
<1>4. CASE users' = users
  BY <1>1, <1>4
<1>5. CASE u \in Users /\ users' = [users EXCEPT ![u] = user]
  <2>1. /\ users' \in [Users -> User \cup {NoUser}] /\ users'[u] = user
        /\ \A v \in Users : v # u => users'[v] = users[v]
    BY <1>1, <1>3, <1>5, OneChanges, Zenon
  <2> QED
    BY <1>3, <2>1
<1> QED
  BY <1>2, <1>4, <1>5

\* The events that a request leaves behind are its own, of now.
LEMMA RecordEvents ==
  ASSUME NEW names \in SUBSET (ServerEvents \cup UiEvents),
         NEW source \in {"server", "ui"}, NEW u \in Users \cup {NoUser}, NEW referral,
         now \in Nat,
         Record(names, source, u, referral)
  PROVE  \/ events' = events /\ recorded' = recorded
         \/ \E new \in SUBSET Event :
              /\ \A e \in new : e.ts = now
              /\ events' = events \cup new /\ recorded' = recorded \cup new
<1> PICK new : new = [ts: {now}, event: names, source: {source}, user: {u}]
  OBVIOUS
<1>1. new \in SUBSET Event /\ \A e \in new : e.ts = now
  BY DEF Event
<1>2. \/ events' = events /\ recorded' = recorded
      \/ events' = events \cup new /\ recorded' = recorded \cup new
  BY DEF Record
<1> QED
  BY <1>1, <1>2, Zenon

\* A request that credits no campaign, when it comes or later, whatever else it does.
Request ==
  /\ \/ \E r \in Routes, b \in Browsers : Admit(r, b)
     \/ UNCHANGED <<now, rateBuckets, nextPrune, admitted>>
  /\ \/ UNCHANGED <<users, events, recorded>>
     \/ \E names \in SUBSET (ServerEvents \cup UiEvents),
           source \in {"server", "ui"}, u \in Users \cup {NoUser} :
          Record(names, source, u, NoCampaign)
  /\ waiting' \in SUBSET Waits
  /\ UNCHANGED <<cookie, clicks, earned>>

\* One that connects a user.
Connection(b, u) ==
  \E r \in Routes, names \in SUBSET (ServerEvents \cup UiEvents) : Connect(r, names, b, u)

\* The steps of the server, with the requests that share their shape taken together.
LEMMA ShellSteps ==
  ASSUME ShellTypeOK, ShellNext
  PROVE  \/ Tick \/ Prune \/ Start
         \/ \E b \in Browsers, c \in Campaigns : Landing(b, c)
         \/ \E b \in Browsers, u \in Users : Connection(b, u)
         \/ Request
         \/ \E b \in Browsers, r \in Routes : Refuse(r, b)
<1> PICK names : names = ServerEvents \cup UiEvents
  OBVIOUS
<1>1. /\ {"wallet_opened"} \in SUBSET names /\ {"stage_error"} \in SUBSET names
      /\ {"signing_request_opened"} \in SUBSET names
      /\ {"transaction_signed"} \in SUBSET names
      /\ {"transaction_broadcast"} \in SUBSET names
      /\ {"vault_connected"} \in SUBSET names
      /\ {"connector_connected", "vault_connected"} \in SUBSET names
      /\ \A name \in UiEvents : {name} \in SUBSET names
  BY DEF ServerEvents
<1>2. waiting \subseteq Waits
  BY DEF ShellTypeOK
<1>3. ASSUME NEW b \in Browsers, NEW u \in Users, OpenWalletCall(b, u)
      PROVE  Request
  <2>1. Admit("mcp", b) /\ "mcp" \in Routes
    BY <1>3 DEF OpenWalletCall, Admit
  <2>2. Record({"wallet_opened"}, "server", u, NoCampaign) /\ waiting' = waiting
    BY <1>3 DEF OpenWalletCall
  <2> QED
    BY <1>1, <1>2, <1>3, <2>1, <2>2 DEF OpenWalletCall, Request
<1>4. ASSUME NEW b \in Browsers, NEW u \in Users, TrackUiEvent(b, u)
      PROVE  Request
  <2>1. Admit("mcp", b) /\ "mcp" \in Routes
    BY <1>4 DEF TrackUiEvent, Admit
  <2>2. (\E name \in UiEvents : Record({name}, "ui", u, NoCampaign)) /\ waiting' = waiting
    BY <1>4 DEF TrackUiEvent
  <2> QED
    BY <1>1, <1>2, <1>4, <2>1, <2>2 DEF TrackUiEvent, Request
<1>5. ASSUME NEW r \in Routes, NEW b \in Browsers, AnswerOnly(r, b)
      PROVE  Request
  BY <1>2, <1>5 DEF AnswerOnly, Request
<1>6. ASSUME NEW b \in Browsers, NEW u \in Users, SigningRequest(b, u)
      PROVE  Request
  <2>1. \E r \in Routes : Admit(r, b)
    BY <1>6 DEF SigningRequest, Admit
  <2>2. waiting' \in SUBSET Waits
    BY <1>2, <1>6 DEF SigningRequest, Waits
  <2> QED
    BY <1>6, <2>1, <2>2 DEF SigningRequest, Request
<1>7. ASSUME NEW w \in Waits, SigningStage(w[1], w[2])
      PROVE  Request
  <2> PICK stage, u : stage = w[1] /\ u = w[2]
    OBVIOUS
  <2>1. u \in Users
    BY DEF Waits
  <2>2. /\ UNCHANGED <<now, rateBuckets, cookie, nextPrune, admitted, clicks, earned>>
        /\ \/ waiting' = waiting \ {<<stage, u>>}
           \/ waiting' = (waiting \ {<<stage, u>>}) \cup {<<"broadcast", u>>}
        /\ \/ Record({"signing_request_opened"}, "server", u, NoCampaign)
           \/ Record({"transaction_signed"}, "server", u, NoCampaign)
           \/ Record({"transaction_broadcast"}, "server", u, NoCampaign)
           \/ Record({"stage_error"}, "server", NoUser, NoCampaign)
    BY <1>7 DEF SigningStage
  <2>3. waiting' \in SUBSET Waits
    BY <1>2, <2>1, <2>2 DEF Waits
  <2>4. \E set \in SUBSET names, source \in {"server", "ui"}, v \in Users \cup {NoUser} :
          Record(set, source, v, NoCampaign)
    BY <1>1, <2>1, <2>2
  <2> QED
    BY <2>2, <2>3, <2>4 DEF Request
<1>8. ASSUME NEW b \in Browsers, NEW u \in Users, ApproveConnection(b, u)
      PROVE  Connection(b, u)
  <2>1. "oauth-approve" \in Routes
    BY <1>8 DEF ApproveConnection, Connect, Admit
  <2> QED
    BY <1>1, <1>8, <2>1 DEF ApproveConnection, Connection
<1>9. ASSUME NEW b \in Browsers, NEW u \in Users, PairVault(b, u)
      PROVE  Connection(b, u)
  <2>1. "vault-pair" \in Routes
    BY <1>9 DEF PairVault, Connect, Admit
  <2> QED
    BY <1>1, <1>9, <2>1 DEF PairVault, Connection
<1> QED
  BY <1>3, <1>4, <1>5, <1>6, <1>7, <1>8, <1>9, Zenon DEF ShellNext

\* Every step keeps the types; that the times of a route and address are in order is what
\* keeps those of its last window among them.
LEMMA ShellTypesKept ==
  ASSUME ShellTypeOK, RateInv, [ShellNext]_shellVars
  PROVE  ShellTypeOK'
<1>1. /\ now \in 0 .. MaxTime /\ MaxTime \in Nat /\ nextPrune \in Nat
      /\ Window \in Nat /\ PruneEvery \in Nat /\ CookieTtl \in Nat
  BY ShellConstants DEF ShellTypeOK
<1>2. ASSUME NEW r \in Routes, NEW b \in Browsers, Admit(r, b)
      PROVE  /\ now' \in 0 .. MaxTime /\ nextPrune' \in Nat
             /\ rateBuckets' \in [Routes \X Browsers -> Bucket \cup {NoBucket}]
             /\ admitted' \in [Routes \X Browsers -> Seq(0 .. MaxTime)]
  BY <1>1, <1>2, AdmitFacts DEF Admit, Keys
<1>3. CASE Tick
  <2>1. ASSUME NEW k \in Routes \X Browsers
        PROVE  Recent(admitted[k], now') \in Seq(0 .. MaxTime)
    <3>1. InOrder(admitted[k])
      BY DEF RateInv, RateHolds, Keys
    <3>2. admitted[k] \in Seq(0 .. MaxTime) /\ now' \in Nat
      BY <1>1, <1>3 DEF ShellTypeOK, Tick
    <3> QED
      BY <1>1, <3>1, <3>2, RecentTypes
  <2>2. admitted' \in [Routes \X Browsers -> Seq(0 .. MaxTime)]
    BY <1>3, <2>1 DEF ShellTypeOK, Tick
  <2>3. now' \in 0 .. MaxTime /\ recorded' \subseteq recorded
    BY <1>1, <1>3 DEF Tick, StillDue
  <2> QED
    BY <1>3, <2>2, <2>3 DEF ShellTypeOK, Tick
<1>4. CASE Prune
  BY <1>1, <1>4 DEF ShellTypeOK, Prune, Unexpired, histories
<1>5. CASE Start
  <2>1. /\ now' \in 0 .. MaxTime /\ nextPrune' \in Nat
        /\ recorded' \subseteq recorded /\ events' \subseteq events
    BY <1>1, <1>5 DEF Start, StillDue, Unexpired
  <2>2. /\ admitted' \in [Routes \X Browsers -> Seq(0 .. MaxTime)]
        /\ rateBuckets' \in [Routes \X Browsers -> Bucket \cup {NoBucket}]
    BY <1>5 DEF ShellTypeOK, Start
  <2> QED
    BY <1>5, <2>1, <2>2 DEF ShellTypeOK, Start
<1>6. ASSUME NEW b \in Browsers, NEW c \in Campaigns, Landing(b, c)
      PROVE  ShellTypeOK'
  <2>1. [src |-> c, exp |-> now + CookieTtl] \in Cookie \cup {NoCookie} /\ now + 1 \in Nat
    BY <1>1 DEF Cookie
  <2>2. /\ cookie' \in [Browsers -> Cookie \cup {NoCookie}]
        /\ clicks' \in [Browsers \X Campaigns -> Nat]
    BY <1>6, <2>1 DEF ShellTypeOK, Landing
  <2> QED
    BY <1>6, <2>2 DEF ShellTypeOK, Landing
<1>7. ASSUME NEW b \in Browsers, NEW u \in Users, Connection(b, u)
      PROVE  ShellTypeOK'
  <2>1. PICK r \in Routes, names \in SUBSET (ServerEvents \cup UiEvents) :
          Connect(r, names, b, u)
    BY <1>7 DEF Connection
  <2>2. Admit(r, b) /\ UNCHANGED <<cookie, waiting, clicks>>
    BY <2>1 DEF Connect
  <2>3. /\ users' \in [Users -> User \cup {NoUser}]
        /\ events' \subseteq Event /\ recorded' \subseteq Event
    <3> PICK referral : referral = ReferralFromCookie(b)
      OBVIOUS
    <3>1. Record(names, "server", u, referral)
      BY <2>1 DEF Connect
    <3>2. referral \in Campaigns \cup {NoCampaign} /\ now \in Nat
      BY <1>1, ReferralType
    <3>3. /\ users' \in [Users -> User \cup {NoUser}]
          /\ \/ events' = events /\ recorded' = recorded
             \/ \E new \in SUBSET Event :
                  events' = events \cup new /\ recorded' = recorded \cup new
      BY <3>1, <3>2, RecordUsers, RecordEvents
    <3> QED
      BY <3>3 DEF ShellTypeOK
  <2>4. earned' \subseteq Users \X Campaigns
    <3>1. earned \subseteq Users \X Campaigns
      BY DEF ShellTypeOK
    <3>2. earned' = earned \cup {<<u, c>> : c \in Recalled(b)} /\ Recalled(b) \subseteq Campaigns
      BY <2>1 DEF Connect, Recalled
    <3> QED
      BY <3>1, <3>2
  <2> QED
    BY <1>2, <2>2, <2>3, <2>4 DEF ShellTypeOK
<1>8. CASE Request
  <2>1. /\ now' \in 0 .. MaxTime /\ nextPrune' \in Nat
        /\ rateBuckets' \in [Routes \X Browsers -> Bucket \cup {NoBucket}]
        /\ admitted' \in [Routes \X Browsers -> Seq(0 .. MaxTime)]
    <3>1. CASE \E r \in Routes, b \in Browsers : Admit(r, b)
      BY <1>2, <3>1
    <3>2. CASE UNCHANGED <<now, rateBuckets, nextPrune, admitted>>
      BY <3>2 DEF ShellTypeOK
    <3> QED
      BY <1>8, <3>1, <3>2 DEF Request
  <2>2. /\ users' \in [Users -> User \cup {NoUser}]
        /\ events' \subseteq Event /\ recorded' \subseteq Event
    <3>1. CASE UNCHANGED <<users, events, recorded>>
      BY <3>1 DEF ShellTypeOK
    <3>2. ASSUME NEW names \in SUBSET (ServerEvents \cup UiEvents),
                 NEW source \in {"server", "ui"}, NEW u \in Users \cup {NoUser},
                 Record(names, source, u, NoCampaign)
          PROVE  /\ users' \in [Users -> User \cup {NoUser}]
                 /\ events' \subseteq Event /\ recorded' \subseteq Event
      <4>1. /\ users' \in [Users -> User \cup {NoUser}]
            /\ \/ events' = events /\ recorded' = recorded
               \/ \E new \in SUBSET Event :
                    events' = events \cup new /\ recorded' = recorded \cup new
        <5> PICK referral \in Campaigns \cup {NoCampaign} : referral = NoCampaign
          OBVIOUS
        <5>1. Record(names, source, u, referral)
          BY <3>2, Zenon
        <5>2. now \in Nat
          BY <1>1
        <5> QED
          BY <5>1, <5>2, RecordUsers, RecordEvents
      <4> QED
        BY <4>1 DEF ShellTypeOK
    <3> QED
      BY <1>8, <3>1, <3>2 DEF Request
  <2> QED
    BY <1>8, <2>1, <2>2 DEF ShellTypeOK, Request
<1>9. ASSUME NEW r \in Routes, NEW b \in Browsers, Refuse(r, b)
      PROVE  ShellTypeOK'
  <2>1. Counted(r, b) \in Bucket \cup {NoBucket}
    BY CountedFacts
  <2>2. rateBuckets' \in [Routes \X Browsers -> Bucket \cup {NoBucket}]
    BY <1>9, <2>1 DEF ShellTypeOK, Refuse
  <2> QED
    BY <1>9, <2>2 DEF ShellTypeOK, Refuse
<1>10. CASE UNCHANGED shellVars
  BY <1>10 DEF ShellTypeOK, shellVars, histories
<1> QED
  BY <1>3, <1>4, <1>5, <1>6, <1>7, <1>8, <1>9, <1>10, ShellSteps

\* Every step keeps the counters right.
LEMMA ShellRateKept ==
  ASSUME ShellTypeOK, RateInv, [ShellNext]_shellVars
  PROVE  RateInv'
<1>1. CASE admitted' = admitted /\ rateBuckets' = rateBuckets /\ now' = now
  BY <1>1, Zenon DEF RateInv
<1>2. CASE Prune
  BY <1>1, <1>2 DEF Prune, histories
<1>3. ASSUME NEW b \in Browsers, NEW c \in Campaigns, Landing(b, c)
      PROVE  RateInv'
  BY <1>1, <1>3 DEF Landing
<1>4. ASSUME NEW b \in Browsers, NEW u \in Users, Connection(b, u)
      PROVE  RateInv'
  <2>1. \E r \in Routes : Admit(r, b)
    BY <1>4 DEF Connection, Connect
  <2> QED
    BY <2>1, AdmitKeepsRate
<1>5. CASE Request
  <2>1. \/ \E r \in Routes, b \in Browsers : Admit(r, b)
        \/ UNCHANGED <<now, rateBuckets, nextPrune, admitted>>
    BY <1>5 DEF Request
  <2> QED
    BY <1>1, <2>1, AdmitKeepsRate
<1>6. CASE UNCHANGED shellVars
  BY <1>1, <1>6 DEF shellVars, histories
<1> QED
  BY <1>2, <1>3, <1>4, <1>5, <1>6, ShellSteps, TickKeepsRate, StartKeepsRate, RefuseKeepsRate

\* The beginning.
LEMMA ShellBegins ==
  ASSUME ShellInit
  PROVE  ShellTypeOK /\ RateInv
<1>1. ShellTypeOK
  BY ShellConstants DEF ShellInit, ShellTypeOK
<1>2. \A k \in Keys : /\ Max[k[1]] \in Nat /\ Max[k[1]] >= 1
                      /\ admitted[k] = << >> /\ rateBuckets[k] = NoBucket
  BY ShellConstants DEF ShellInit, Keys
<1>3. \A k \in Keys : RateHolds(<< >>, NoBucket, Max[k[1]], now)
  BY <1>2, RateBegins
<1>4. RateInv
  BY <1>2, <1>3, Zenon DEF RateInv
<1> QED
  BY <1>1, <1>4

---------------------------------------------------------------------------------------
\* Referrals.

\* A cookie is as old as the last visit by its campaign's link, and whoever has a referral
\* earned it.
ReferralInv ==
  /\ \A b \in Browsers : cookie[b] # NoCookie =>
       /\ clicks[<<b, cookie[b].src>>] > 0
       /\ cookie[b].exp = clicks[<<b, cookie[b].src>>] - 1 + CookieTtl
  /\ \A u \in Users : users[u] # NoUser /\ users[u].referral # NoCampaign =>
       <<u, users[u].referral>> \in earned

\* Opening a campaign's link renews the browser's cookie and the history of its visits.
LEMMA LandingKeepsReferrals ==
  ASSUME ShellTypeOK, ReferralInv,
         NEW b \in Browsers, NEW c \in Campaigns, Landing(b, c)
  PROVE  ReferralInv'
<1>1. now \in Nat /\ CookieTtl \in Nat /\ users' = users /\ earned' = earned
  BY ShellConstants DEF ShellTypeOK, Landing
<1> PICK new : new = [src |-> c, exp |-> now + CookieTtl]
  OBVIOUS
<1>2. /\ cookie' = [cookie EXCEPT ![b] = new] /\ new.src = c /\ new.exp = now + CookieTtl
      /\ clicks' = [clicks EXCEPT ![<<b, c>>] = now + 1]
  BY DEF Landing
<1>3. /\ cookie'[b] = new /\ \A x \in Browsers : x # b => cookie'[x] = cookie[x]
      /\ clicks'[<<b, c>>] = now + 1
      /\ \A x \in Browsers, y \in Campaigns : x # b => clicks'[<<x, y>>] = clicks[<<x, y>>]
  BY <1>2 DEF ShellTypeOK
<1>4. ASSUME NEW x \in Browsers, cookie'[x] # NoCookie
      PROVE  /\ clicks'[<<x, cookie'[x].src>>] > 0
             /\ cookie'[x].exp = clicks'[<<x, cookie'[x].src>>] - 1 + CookieTtl
  <2>1. CASE x = b
    BY <1>1, <1>2, <1>3, <2>1
  <2>2. CASE x # b
    <3>1. cookie[x] # NoCookie /\ cookie'[x] = cookie[x]
      BY <1>3, <1>4, <2>2
    <3>2. cookie[x].src \in Campaigns
      BY <3>1 DEF ShellTypeOK, Cookie
    <3> QED
      BY <1>3, <2>2, <3>1, <3>2 DEF ReferralInv
  <2> QED
    BY <2>1, <2>2
<1> QED
  BY <1>1, <1>4 DEF ReferralInv

\* The campaign whose cookie a browser sends is one whose link it opened not long ago.
LEMMA SentIsEarned ==
  ASSUME ShellTypeOK, ReferralInv, NEW b \in Browsers,
         ReferralFromCookie(b) # NoCampaign
  PROVE  ReferralFromCookie(b) \in Recalled(b)
<1>1. /\ cookie[b] # NoCookie /\ now < cookie[b].exp
      /\ ReferralFromCookie(b) = cookie[b].src
  BY DEF ReferralFromCookie
<1> PICK c : c = cookie[b].src
  OBVIOUS
<1>2. c \in Campaigns
  BY <1>1 DEF ShellTypeOK, Cookie
<1>3. clicks[<<b, c>>] > 0 /\ now < clicks[<<b, c>>] - 1 + CookieTtl
  BY <1>1 DEF ReferralInv
<1> QED
  BY <1>1, <1>2, <1>3 DEF Recalled

\* Every step keeps the referrals earned.
LEMMA ShellReferralsKept ==
  ASSUME ShellTypeOK, ReferralInv, [ShellNext]_shellVars
  PROVE  ReferralInv'
<1>1. CASE UNCHANGED <<cookie, users, clicks, earned>>
  BY <1>1 DEF ReferralInv
<1>2. CASE Tick \/ Prune \/ Start
  BY <1>1, <1>2 DEF Tick, Prune, Start, histories
<1>3. ASSUME UNCHANGED <<cookie, clicks>>, earned \subseteq earned',
             NEW u \in Users \cup {NoUser},
             NEW referral \in Campaigns \cup {NoCampaign},
             referral # NoCampaign => <<u, referral>> \in earned',
             \A v \in Users : \/ users'[v] = users[v]
                              \/ (v = u /\ users'[v].referral = referral)
      PROVE  ReferralInv'
  <2>1. ASSUME NEW v \in Users, users'[v] # NoUser, users'[v].referral # NoCampaign
        PROVE  <<v, users'[v].referral>> \in earned'
    BY <1>3, <2>1 DEF ReferralInv
  <2> QED
    BY <1>3, <2>1 DEF ReferralInv
<1>4. ASSUME NEW b \in Browsers, NEW u \in Users, Connection(b, u)
      PROVE  ReferralInv'
  <2>1. PICK r \in Routes, names \in SUBSET (ServerEvents \cup UiEvents) :
          Connect(r, names, b, u)
    BY <1>4 DEF Connection
  <2> PICK referral : referral = ReferralFromCookie(b)
    OBVIOUS
  <2>2. Record(names, "server", u, referral)
    BY <2>1 DEF Connect
  <2>3. referral \in Campaigns \cup {NoCampaign} /\ now \in Nat
    BY ReferralType DEF ShellTypeOK
  <2>4. \A v \in Users : \/ users'[v] = users[v]
                         \/ (v = u /\ users'[v].referral = referral)
    BY <2>2, <2>3, RecordUsers
  <2>5. /\ UNCHANGED <<cookie, clicks>>
        /\ earned' = earned \cup {<<u, c>> : c \in Recalled(b)}
    BY <2>1 DEF Connect
  <2>6. referral # NoCampaign => <<u, referral>> \in earned'
    BY <2>5, SentIsEarned
  <2> QED
    BY <1>3, <2>3, <2>4, <2>5, <2>6
<1>5. CASE Request
  <2>1. UNCHANGED <<cookie, clicks, earned>>
    BY <1>5 DEF Request
  <2>2. ASSUME NEW names \in SUBSET (ServerEvents \cup UiEvents),
               NEW source \in {"server", "ui"}, NEW u \in Users \cup {NoUser},
               Record(names, source, u, NoCampaign)
        PROVE  ReferralInv'
    <3> PICK referral \in Campaigns \cup {NoCampaign} : referral = NoCampaign
      OBVIOUS
    <3>1. Record(names, source, u, referral)
      BY <2>2, Zenon
    <3>2. now \in Nat
      BY DEF ShellTypeOK
    <3>3. \A v \in Users : \/ users'[v] = users[v]
                           \/ (v = u /\ users'[v].referral = referral)
      BY <3>1, <3>2, RecordUsers
    <3> QED
      BY <1>3, <2>1, <3>3
  <2> QED
    BY <1>1, <1>5, <2>1, <2>2 DEF Request
<1>6. ASSUME NEW r \in Routes, NEW b \in Browsers, Refuse(r, b)
      PROVE  ReferralInv'
  BY <1>1, <1>6 DEF Refuse
<1>7. CASE UNCHANGED shellVars
  BY <1>1, <1>7 DEF shellVars, histories
<1> QED
  BY <1>2, <1>4, <1>5, <1>6, <1>7, ShellSteps, LandingKeepsReferrals

---------------------------------------------------------------------------------------
\* Events.

\* The timer fires within its period; no event outlives the firing that finds it too old,
\* and the events that are still due are there.
EventsInv ==
  /\ now <= nextPrune /\ nextPrune <= now + PruneEvery
  /\ \A e \in events : nextPrune <= e.ts + Retention + PruneEvery
  /\ recorded \subseteq events /\ \A e \in recorded : now <= e.ts + Retention

\* Every step keeps the events as long as promised.
LEMMA ShellEventsKept ==
  ASSUME ShellTypeOK, EventsInv, [ShellNext]_shellVars
  PROVE  EventsInv'
<1>1. /\ now \in Nat /\ nextPrune \in Nat /\ Retention \in Nat
      /\ PruneEvery \in Nat /\ PruneEvery > 0
      /\ \A e \in events \cup recorded : e.ts \in Nat
  BY ShellConstants DEF ShellTypeOK, Event
<1>2. CASE UNCHANGED <<now, nextPrune, events, recorded>>
  BY <1>2 DEF EventsInv
<1>3. CASE Tick
  <2>1. /\ now' = now + 1 /\ now < nextPrune /\ nextPrune' = nextPrune /\ events' = events
        /\ recorded' = {e \in recorded : now' - e.ts <= Retention}
    BY <1>3 DEF Tick, StillDue
  <2> QED
    BY <1>1, <2>1 DEF EventsInv
<1>4. CASE Prune
  <2>1. /\ now = nextPrune /\ nextPrune' = now + PruneEvery /\ now' = now
        /\ events' = {e \in events : e.ts + Retention >= now} /\ recorded' = recorded
    BY <1>4 DEF Prune, Unexpired, histories
  <2> QED
    BY <1>1, <2>1 DEF EventsInv
<1>5. CASE Start
  <2>1. /\ now' = now + 1 /\ nextPrune' = now' + PruneEvery
        /\ events' = {e \in events : e.ts + Retention >= now'}
        /\ recorded' = {e \in recorded : now' - e.ts <= Retention}
    BY <1>5 DEF Start, StillDue, Unexpired
  <2> QED
    BY <1>1, <2>1 DEF EventsInv
<1>6. ASSUME NEW b \in Browsers, NEW c \in Campaigns, Landing(b, c)
      PROVE  EventsInv'
  BY <1>2, <1>6 DEF Landing
<1>7. ASSUME NEW new \in SUBSET Event, \A e \in new : e.ts = now,
             now' = now, nextPrune' = nextPrune,
             events' = events \cup new, recorded' = recorded \cup new
      PROVE  EventsInv'
  BY <1>1, <1>7 DEF EventsInv
<1>8. ASSUME NEW b \in Browsers, NEW u \in Users, Connection(b, u)
      PROVE  EventsInv'
  <2>1. PICK r \in Routes, names \in SUBSET (ServerEvents \cup UiEvents) :
          Connect(r, names, b, u)
    BY <1>8 DEF Connection
  <2> PICK referral : referral = ReferralFromCookie(b)
    OBVIOUS
  <2>2. Record(names, "server", u, referral)
    BY <2>1 DEF Connect
  <2>3. \/ events' = events /\ recorded' = recorded
        \/ \E new \in SUBSET Event :
             /\ \A e \in new : e.ts = now
             /\ events' = events \cup new /\ recorded' = recorded \cup new
    BY <1>1, <2>2, RecordEvents
  <2>4. now' = now /\ nextPrune' = nextPrune
    BY <2>1 DEF Connect, Admit
  <2> QED
    BY <1>2, <1>7, <2>3, <2>4
<1>9. CASE Request
  <2>1. now' = now /\ nextPrune' = nextPrune
    BY <1>9 DEF Request, Admit
  <2>2. ASSUME NEW names \in SUBSET (ServerEvents \cup UiEvents),
               NEW source \in {"server", "ui"}, NEW u \in Users \cup {NoUser},
               Record(names, source, u, NoCampaign)
        PROVE  EventsInv'
    <3> PICK referral \in Campaigns \cup {NoCampaign} : referral = NoCampaign
      OBVIOUS
    <3>1. Record(names, source, u, referral)
      BY <2>2, Zenon
    <3>2. now \in Nat
      BY <1>1
    <3>3. \/ events' = events /\ recorded' = recorded
          \/ \E new \in SUBSET Event :
               /\ \A e \in new : e.ts = now
               /\ events' = events \cup new /\ recorded' = recorded \cup new
      BY <3>1, <3>2, RecordUsers, RecordEvents
    <3> QED
      BY <1>2, <1>7, <2>1, <3>3
  <2> QED
    BY <1>2, <1>9, <2>1, <2>2 DEF Request
<1>10. ASSUME NEW r \in Routes, NEW b \in Browsers, Refuse(r, b)
       PROVE  EventsInv'
  BY <1>2, <1>10 DEF Refuse
<1>11. CASE UNCHANGED shellVars
  BY <1>2, <1>11 DEF shellVars, histories
<1> QED
  BY <1>3, <1>4, <1>5, <1>6, <1>8, <1>9, <1>10, <1>11, ShellSteps

---------------------------------------------------------------------------------------
\* The theorems.

\* What is kept of the shell's state.
ShellInv == ShellTypeOK /\ RateInv /\ ReferralInv /\ EventsInv

\* The shell's invariant is one: it holds at first and every step keeps it.
LEMMA ShellInvCorrect == ShellSpec => []ShellInv
<1>1. ASSUME ShellInit PROVE ShellInv
  <2>1. ShellTypeOK /\ RateInv
    BY <1>1, ShellBegins
  <2>2. ReferralInv
    BY <1>1, <2>1 DEF ShellInit, ReferralInv
  <2>3. EventsInv
    BY <1>1, ShellConstants DEF ShellInit, EventsInv
  <2> QED
    BY <2>1, <2>2, <2>3 DEF ShellInv
<1>2. ASSUME ShellInv, [ShellNext]_shellVars PROVE ShellInv'
  BY <1>2, ShellTypesKept, ShellRateKept, ShellReferralsKept, ShellEventsKept DEF ShellInv
<1> QED
  BY <1>1, <1>2, PTL DEF ShellSpec

\* The types of the shell's state: rateLimit's buckets, the cookies, the tables of the
\* analytics.
THEOREM ShellTypesCorrect == ShellSpec => []ShellTypeOK
<1>1. ShellInv => ShellTypeOK
  BY DEF ShellInv
<1> QED
  BY <1>1, ShellInvCorrect, PTL

\* rateLimit: in no stretch of a window's length, across two windows and whatever is swept
\* between, is twice the limit admitted, for every limit, window and sweep threshold.
THEOREM RateLimitCorrect == ShellSpec => []LessThanTwiceTheLimit
<1>1. ASSUME ShellInv PROVE LessThanTwiceTheLimit
  <2>1. ASSUME NEW r \in Routes, NEW b \in Browsers
        PROVE  Len(admitted[<<r, b>>]) < 2 * Max[r]
    <3>1. <<r, b>> \in Keys /\ <<r, b>>[1] = r /\ Max[r] \in Nat /\ Max[r] >= 1
      BY <1>1, ShellConstants DEF Keys
    <3> PICK times, bucket, max : /\ times = admitted[<<r, b>>]
                                  /\ bucket = rateBuckets[<<r, b>>] /\ max = Max[r]
      OBVIOUS
    <3>2. RateHolds(times, bucket, max, now)
      BY <1>1, <3>1, Zenon DEF ShellInv, RateInv
    <3>3. Len(times) < 2 * max
      BY <3>1, <3>2, RateBounds
    <3> QED
      BY <3>3
  <2> QED
    BY <2>1 DEF LessThanTwiceTheLimit
<1> QED
  BY <1>1, ShellInvCorrect, PTL

\* The dashboard attributes to a community only users who approved a connection or paired a
\* Vault in a browser that had opened the campaign's link within the cookie's life.
THEOREM AttributionCorrect == ShellSpec => []AttributionIsEarned
<1>1. ASSUME ShellInv PROVE AttributionIsEarned
  BY <1>1, ShellConstants DEF ShellInv, ReferralInv, AttributionIsEarned,
     CommunitySlice, Referred
<1> QED
  BY <1>1, ShellInvCorrect, PTL

\* record and pruneOldEvents: no event within the retention is lost, none outlives the
\* retention and a period of the timer, whatever restarts come between.
THEOREM EventsCorrect == ShellSpec => []EventsLiveAsLongAsPromised
<1>1. ASSUME ShellInv PROVE EventsLiveAsLongAsPromised
  <2>1. /\ now \in Nat /\ nextPrune \in Nat /\ Retention \in Nat /\ PruneEvery \in Nat
        /\ \A e \in events : e.ts \in Nat
    BY <1>1, ShellConstants DEF ShellInv, ShellTypeOK, Event
  <2> QED
    BY <1>1, <2>1 DEF ShellInv, EventsInv, EventsLiveAsLongAsPromised
<1> QED
  BY <1>1, ShellInvCorrect, PTL
=======================================================================================
