--------------------------------- MODULE WalletView ---------------------------------
(***************************************************************************)
(* The wallet widget's application (WalletApp): which screen it shows,     *)
(* the snapshot of the wallet its Back buttons and forms use, and the tool *)
(* calls whose answers arrive while the user, the chat and the Vault go    *)
(* on.                                                                     *)
(*                                                                         *)
(* The widget runs inside a host.  How one call finds its own answer is    *)
(* WidgetBridge; here a call is asked, answered by the server and settled, *)
(* in any order with every other step, or fails, or is kept by the host    *)
(* for ever.  A component's state lives as long as its screen: React       *)
(* discards it when another component takes its place, while the calls it  *)
(* started go on.                                                          *)
(***************************************************************************)
EXTENDS Naturals, FiniteSets

CONSTANTS
  Networks,    \* the mainnets of the wallet
  Default,     \* the network the server takes when it is not told one
  Signing,     \* the networks on which sending is enabled
  Calls,       \* slots for outstanding calls: an artificial bound
  MaxFaults,   \* bound on failed and kept calls and damaged payloads
  Amoy,        \* the network of the built-in demonstration data
  NoNetwork, NotMounted

ASSUME ConstantsAssumption ==
  /\ Default \in Networks /\ Signing \subseteq Networks /\ MaxFaults \in Nat
  /\ Amoy \notin Networks /\ NoNetwork \notin Networks \cup {Amoy}
  /\ NotMounted \notin Networks

Plain(view) == [view |-> view, network |-> NoNetwork, live |-> FALSE]
WalletOf(n, live) == [view |-> "wallet", network |-> n, live |-> live]

Loading == Plain("loading")
Demo == WalletOf(Amoy, TRUE)     \* browserDemoData
Damaged == Plain("wallet")       \* a wallet whose summary was lost on the way
Wallets == {WalletOf(n, live) : n \in Networks, live \in BOOLEAN}

\* What a tool can answer; "other" is every view with nothing but a way back.
Results == Wallets \cup {Plain(v) : v \in {"wallet-connect", "not-connected",
             "wallet-connected", "transfer-preview", "error", "other"}}
Shown == Results \cup {Loading, Demo, Plain("receive"), Plain("transfer-form")}

NoAnswer == Plain("none")
Lost == Plain("lost")            \* the call's promise is rejected
NoCall == [by |-> "none", network |-> NoNetwork, alive |-> FALSE, answer |-> NoAnswer]
CallTypes ==
  [by : {"none", "open", "back", "select", "submit", "ask", "check", "fetch", "opened"},
   network : Networks \cup {Amoy, NoNetwork}, alive : BOOLEAN,
   answer : Results \cup {NoAnswer, Lost}]

VARIABLES
  linked,      \* the server has a wallet connection for the user (external)
  data,        \* what is shown
  wallet,      \* the snapshot Back returns to and the forms are filled from
  selected,    \* the wallet screen's chosen network, while it is mounted
  switching,   \* the wallet screen says it is loading another network
  call,        \* outstanding calls; alive while what started them is mounted
  viaPairing,  \* history: what is shown was set by the pairing screens
  faults,      \* failures so far
  hostKeeps,   \* what the mounted screen waits for that the host will never settle
  visible      \* the document is visible

vars == <<linked, data, wallet, selected, switching, call, viaPairing, faults,
          hostKeeps, visible>>

\* Mutant of Renderable: a view is enough.
RenderableView(d) == d.view \in {"loading"} \cup {r.view : r \in Results}

\* isRenderable: the wallet screen needs a summary.
Renderable(d) == d # Damaged

Init ==
  \E restored \in Results \cup {Damaged, Loading} :
    /\ data = IF Renderable(restored) THEN restored ELSE Loading
    /\ linked \in {l \in BOOLEAN : data.view \in {"wallet", "wallet-connected"} => l}
    /\ wallet = IF data.view = "wallet" THEN data ELSE Demo
    /\ selected = IF data.view = "wallet" THEN data.network ELSE NotMounted
    /\ switching = FALSE /\ viaPairing = FALSE /\ faults = 0
    /\ call = [c \in Calls |-> NoCall]
    /\ hostKeeps = {} /\ visible \in BOOLEAN

-----------------------------------------------------------------------------
\* Screens and their lifetime.

Component(view) == IF view \in {"wallet-connect", "not-connected"} THEN "connect" ELSE view

\* The calls after the screen changes to view: what an unmounted screen started
\* no longer has that screen to come back to.
Orphaned(cs, view) ==
  IF Component(view) = Component(data.view) THEN cs
  ELSE [c \in Calls |-> [cs[c] EXCEPT !.alive = FALSE]]

\* The network a wallet screen starts with: that of the summary it is mounted
\* with, or whichever the host saved when it is the demonstration's.
StartsWith(d) == IF d = Demo THEN Networks ELSE {d.network}

\* setData(d), with the calls outstanding afterwards; loads: the wallet screen
\* says it is loading.
Show(d, cs, loads) ==
  /\ data' = d
  /\ call' = Orphaned(cs, d.view)
  /\ IF d.view # "wallet" THEN selected' = NotMounted /\ switching' = FALSE
     ELSE IF data.view # "wallet" THEN selected' \in StartsWith(d) /\ switching' = FALSE
     ELSE UNCHANGED selected /\ switching' = loads

\* Mutant of Snapshot: only of a wallet with balances.
SnapshotLive(d) == IF d.view = "wallet" /\ d.live THEN d ELSE wallet

\* The snapshot after d was received.
Snapshot(d) == IF d.view = "wallet" THEN d ELSE wallet

\* Mutant of Receive: a new wallet does not take an open form down.
ReceiveBehindForm(d, cs, loads) ==
  IF Renderable(d)
  THEN /\ IF data.view = "transfer-form" THEN Show(data, cs, loads) ELSE Show(d, cs, loads)
       /\ wallet' = Snapshot(d)
       /\ viaPairing' = FALSE
  ELSE /\ call' = cs /\ switching' = loads
       /\ UNCHANGED <<data, wallet, selected, viaPairing>>

\* A listener of the bridge receives d, with the calls outstanding afterwards.
Receive(d, cs, loads) ==
  IF Renderable(d)
  THEN /\ Show(d, cs, loads)
       /\ wallet' = Snapshot(d)
       /\ viaPairing' = FALSE
  ELSE /\ call' = cs /\ switching' = loads
       /\ UNCHANGED <<data, wallet, selected, viaPairing>>

-----------------------------------------------------------------------------
\* What the user and the screens start.

Asked(c, by, n, alive) ==
  [call EXCEPT ![c] = [by |-> by, network |-> n, alive |-> alive, answer |-> NoAnswer]]

\* back: the snapshot at once, then a fresh wallet; the server picks the network.
Back(c) ==
  /\ call[c] = NoCall
  /\ data.view \in {"receive", "transfer-form", "transfer-preview", "error", "other"}
  /\ Show(wallet, Asked(c, "back", NoNetwork, FALSE), FALSE)
  /\ viaPairing' = FALSE
  /\ UNCHANGED <<linked, wallet, faults>>

\* The Wallet button in the header of every screen but the loading one.
OpenWallet(c) ==
  /\ call[c] = NoCall /\ data # Loading
  /\ call' = Asked(c, "open", NoNetwork, FALSE)
  /\ UNCHANGED <<linked, data, wallet, selected, switching, viaPairing, faults>>

\* selectNetwork: only a connected wallet has another network to fetch.
SelectNetwork(c) ==
  /\ data.view = "wallet"
  /\ \E n \in Networks \ {selected} :
       /\ selected' = n
       /\ IF data = Demo THEN UNCHANGED <<switching, call>>
          ELSE /\ call[c] = NoCall
               /\ switching' = TRUE /\ call' = Asked(c, "select", n, TRUE)
  /\ UNCHANGED <<linked, data, wallet, viaPairing, faults>>

\* Send, Receive, and Swap or the notice that sending is not enabled.
Navigate ==
  /\ data.view = "wallet"
  /\ \E view \in {"transfer-form", "receive", "other"} :
       /\ view = "transfer-form" => data = Demo \/ selected \in Signing
       /\ Show(Plain(view), call, FALSE)
  /\ viaPairing' = FALSE
  /\ UNCHANGED <<linked, wallet, faults>>

\* The transfer form asks for a transfer on the snapshot's network.
Submit(c) ==
  /\ call[c] = NoCall /\ data.view = "transfer-form"
  /\ call' = Asked(c, "submit", wallet.network, FALSE)
  /\ UNCHANGED <<linked, data, wallet, selected, switching, viaPairing, faults>>

\* Agent limits, audit log and history of the wallet; Cancel and Confirm of a preview.
Ask(c) ==
  /\ call[c] = NoCall /\ data.view \in {"wallet", "transfer-preview"}
  /\ call' = Asked(c, "ask", NoNetwork, FALSE)
  /\ UNCHANGED <<linked, data, wallet, selected, switching, viaPairing, faults>>

\* checkConnection, by the timer of a screen with a pairing link, by its focus or by
\* its button, while it is visible, unless this screen is checking already (checkingRef).
Check(c) ==
  /\ call[c] = NoCall /\ Component(data.view) = "connect"
  /\ visible /\ "check" \notin hostKeeps
  /\ ~ \E d \in Calls : call[d].by \in {"check", "fetch"} /\ call[d].alive
  /\ call' = Asked(c, "check", NoNetwork, TRUE)
  /\ UNCHANGED <<linked, data, wallet, selected, switching, viaPairing, faults>>

\* The screen of a new connection opens the wallet when it is mounted and at every
\* retry, which makes the earlier attempt inactive.
Open(c) ==
  /\ call[c] = NoCall /\ data.view = "wallet-connected"
  /\ call' = [d \in Calls |->
       IF d = c THEN [by |-> "opened", network |-> NoNetwork, alive |-> TRUE,
                      answer |-> NoAnswer]
       ELSE [call[d] EXCEPT !.alive = FALSE]]
  /\ UNCHANGED <<linked, data, wallet, selected, switching, viaPairing, faults>>

-----------------------------------------------------------------------------
\* The server and the host.

\* resolveNetwork, in mainnet mode.
ResolveNetwork(n) == IF n = NoNetwork THEN Default ELSE n

\* walletState: without its balances when the network's node cannot be reached, and an
\* error without a connection.
WalletState(n) ==
  IF linked THEN {WalletOf(n, live) : live \in BOOLEAN} ELSE {Plain("error")}

OpenWalletTool == IF linked THEN WalletState(ResolveNetwork(NoNetwork)) ELSE {Plain("error")}

RenderWallet(n) == WalletState(ResolveNetwork(n))

GetWalletSummary(n) == WalletState(ResolveNetwork(n))

GetWalletConnection == {Plain(IF linked THEN "wallet-connected" ELSE "not-connected")}

\* A transfer to preview, one the policy engine blocked or an error; always an error
\* without a connection and on a network sending is not enabled on.
PrepareTransfer(n) ==
  {Plain("error")} \cup
  (IF linked /\ n \in Signing THEN {Plain("transfer-preview"), Plain("other")} ELSE {})

Answers(q) ==
  CASE q.by = "open" -> OpenWalletTool
    [] q.by \in {"back", "fetch", "opened"} -> RenderWallet(q.network)
    [] q.by = "select" -> GetWalletSummary(q.network)
    [] q.by = "check" -> GetWalletConnection
    [] q.by = "submit" -> PrepareTransfer(q.network)
    [] OTHER -> {Plain("other"), Plain("error")}

\* The server handles call c.
ServerAnswers(c) ==
  /\ call[c].by # "none" /\ call[c].answer = NoAnswer
  /\ \E a \in Answers(call[c]) : call' = [call EXCEPT ![c].answer = a]
  /\ UNCHANGED <<linked, data, wallet, selected, switching, viaPairing, faults>>

\* The server fails, or the host loses the answer and the call's timer ends it.
CallFails(c) ==
  /\ call[c].by # "none" /\ call[c].answer = NoAnswer /\ faults < MaxFaults
  /\ \E a \in {Plain("error"), Lost} : call' = [call EXCEPT ![c].answer = a]
  /\ faults' = faults + 1
  /\ UNCHANGED <<linked, data, wallet, selected, switching, viaPairing>>

\* The host keeps the promise of a call for ever: the bridge awaits its callTool and its
\* sendFollowUpMessage without a timer.  What is left of the call is what its screen waits for.
HostKeeps(c) ==
  /\ call[c].by # "none" /\ call[c].answer = NoAnswer /\ faults < MaxFaults
  /\ faults' = faults + 1
  /\ call' = [call EXCEPT ![c] = NoCall]
  /\ hostKeeps' = hostKeeps \cup
       {wait \in {"select", "check"} :
          call[c].alive /\ call[c].by \in IF wait = "select" THEN {"select"}
                                         ELSE {"check", "fetch"}}
  /\ UNCHANGED <<linked, data, wallet, selected, switching, viaPairing, visible>>

\* The user hides the document, or looks at it again.
Visibility ==
  /\ visible' = ~visible
  /\ UNCHANGED <<linked, data, wallet, selected, switching, call, viaPairing, faults, hostKeeps>>

\* The user creates or connects a wallet in the Vault.
Link ==
  /\ ~linked /\ linked' = TRUE
  /\ UNCHANGED <<data, wallet, selected, switching, call, viaPairing, faults>>

\* The host pushes the result of a tool the chat called, or a damaged copy of one.
Push ==
  /\ \/ \E d \in Results \ {Plain("wallet-connect")} :
          /\ d.view \in {"wallet", "wallet-connected"} => linked
          /\ d.view = "not-connected" => ~linked
          /\ Receive(d, call, switching)
          /\ UNCHANGED faults
     \/ faults < MaxFaults /\ faults' = faults + 1 /\ Receive(Damaged, call, switching)
  /\ UNCHANGED linked

-----------------------------------------------------------------------------
\* How a call ends for what started it.

Ended(c) == [call EXCEPT ![c] = NoCall]

\* Mutant of Loads: the notice is only taken down on success.
LoadsUnlessAnswered(q) ==
  switching /\ ~(q.by = "select" /\ q.alive /\ q.answer # Lost)

\* Whether the wallet screen still says it is loading once call q ended: it stops when
\* one of its own selections ends, whichever it was.
Loads(q) == switching /\ ~(q.by = "select" /\ q.alive)

\* A call whose result the bridge emits; a rejected one shows nothing.
SettleEmitted(c) ==
  /\ call[c].by \in {"open", "back", "select", "submit", "ask"} /\ call[c].answer # NoAnswer
  /\ IF call[c].answer # Lost THEN Receive(call[c].answer, Ended(c), Loads(call[c]))
     ELSE /\ call' = Ended(c) /\ switching' = Loads(call[c])
          /\ UNCHANGED <<data, wallet, selected, viaPairing>>
  /\ UNCHANGED <<linked, faults>>

\* Calls of the pairing screens end: some show a screen, the others change nothing.
SettleQuietly(shown, cs) ==
  /\ \/ \E d \in shown : Show(d, cs, switching) /\ viaPairing' = TRUE
     \/ shown = {} /\ call' = cs /\ UNCHANGED <<data, selected, switching, viaPairing>>
  /\ UNCHANGED <<linked, wallet, faults>>

\* What checkConnection shows at its end (onConnected), by a screen that may be gone.
CheckShows(q) ==
  IF q.by = "check" \/ q.answer = Lost THEN {}
  ELSE {IF q.answer.view = "wallet" THEN q.answer ELSE Plain("wallet-connected")}

\* Mutant of CheckEnds: a failed check stays the one under way.
CheckEndsOnSuccess(c) == IF call[c].answer = Lost THEN call ELSE Ended(c)

\* The finally of checkConnection.
CheckEnds(c) == Ended(c)

\* The rest of checkConnection: once the server reports a connection the wallet is
\* asked for.
SettleCheck(c) ==
  /\ call[c].by \in {"check", "fetch"} /\ call[c].answer # NoAnswer
  /\ IF call[c].by = "check" /\ call[c].answer.view = "wallet-connected"
     THEN SettleQuietly({}, [call EXCEPT ![c].by = "fetch", ![c].answer = NoAnswer])
     ELSE SettleQuietly(CheckShows(call[c]), CheckEnds(c))

\* Mutant of Active: an attempt does not look whether its screen is still there.
ActiveAlways(q) == q.answer.view = "wallet"

\* An attempt to open the wallet that has something to show, on its own screen.
Active(q) == q.alive /\ q.answer.view = "wallet"

\* The rest of WalletConnected (onOpened).
SettleOpen(c) ==
  /\ call[c].by = "opened" /\ call[c].answer # NoAnswer
  /\ SettleQuietly(IF Active(call[c]) THEN {call[c].answer} ELSE {}, Ended(c))

Settle(c) == SettleEmitted(c) \/ SettleCheck(c) \/ SettleOpen(c)

\* What the screen still waits for: nothing of a screen that is gone, and no selection once
\* the notice is taken down.
WaitsOn ==
  /\ hostKeeps' = IF Component(data'.view) # Component(data.view) THEN {}
                  ELSE {wait \in hostKeeps : wait = "select" => switching'}
  /\ UNCHANGED visible

Step ==
  \/ \E c \in Calls :
       \/ Back(c) \/ OpenWallet(c) \/ SelectNetwork(c) \/ Submit(c) \/ Ask(c)
       \/ Check(c) \/ Open(c)
       \/ ServerAnswers(c) \/ CallFails(c)
       \/ SettleEmitted(c) \/ SettleCheck(c) \/ SettleOpen(c)
  \/ Navigate \/ Link \/ Push

Next ==
  \/ Step /\ WaitsOn
  \/ \E c \in Calls : HostKeeps(c)
  \/ Visibility

\* A call the host does not keep is answered, or ended by a timer of the bridge, and its
\* promise settled (WidgetBridge).  The timer of the pairing screen fires while the document
\* is visible, and its coming back checks at once; a check needs a slot of this model's free
\* again and again, which is the model's bound and not the program's.
Fairness ==
  \A c \in Calls :
    /\ WF_vars((ServerAnswers(c) \/ CallFails(c)) /\ WaitsOn)
    /\ WF_vars(Settle(c) /\ WaitsOn)
    /\ SF_vars(data.view = "wallet-connect" /\ Check(c) /\ WaitsOn)

Spec == Init /\ [][Next]_vars /\ Fairness

-----------------------------------------------------------------------------
\* Properties.

\* Types of the application's state.
TypeOK ==
  /\ linked \in BOOLEAN /\ switching \in BOOLEAN /\ viaPairing \in BOOLEAN
  /\ data \in Shown /\ wallet \in Wallets \cup {Demo}
  /\ selected \in Networks \cup {NotMounted}
  /\ call \in [Calls -> CallTypes] /\ faults \in 0 .. MaxFaults
  /\ hostKeeps \subseteq {"select", "check"} /\ visible \in BOOLEAN

\* The wallet that is shown is the snapshot the Send form, Receive and Back will use,
\* unless a pairing screen put it there: onConnected and onOpened set what is shown
\* and not the snapshot.
SnapshotIsWhatIsShown == data.view = "wallet" /\ ~viaPairing => wallet = data

\* What the screen of a new connection fetched replaces that screen and no other, also
\* when the chat or the user moved on meanwhile.
OpenedReplacesOnlyItsScreen ==
  [][\A c \in Calls : call[c].by = "opened" /\ call'[c] = NoCall /\ data' # data
       => data.view = "wallet-connected"]_vars

\* The network and asset a transfer form was opened with stay the same as long as it is
\* open, whatever answers come in: a new snapshot always takes the form down.
FormKeepsItsTerms ==
  [][data.view = "transfer-form" /\ data'.view = "transfer-form" => wallet' = wallet]_vars

\* "Loading live balance" ends, however the selections overlap and fail, unless the host
\* keeps the promise of one of them.
SwitchingEnds == switching ~> ~switching \/ "select" \in hostKeeps

\* A pairing screen with a link that is looked at again and again notices the new connection
\* without the user's help, although some checks fail, answer late or were asked too early,
\* unless the host keeps the promise of one of them.
ConnectionIsNoticed ==
  []<>visible => (linked /\ data.view = "wallet-connect"
                    ~> data.view # "wallet-connect" \/ "check" \in hostKeeps)
=======================================================================================
