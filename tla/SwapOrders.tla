----------------------------------- MODULE SwapOrders -----------------------------------
(***************************************************************************)
(* Swaps through an exchange (SwapService, the swap tools and the swap     *)
(* screens): a quote is a token the server signs and does not keep, an     *)
(* order is the provider's, and its deposit is an ordinary transfer that   *)
(* the widget asks for.                                                    *)
(*                                                                         *)
(* Calls of the tools overlap while the provider is asked.  It lists and   *)
(* delists assets at any time; an answer is lost, refused or given up      *)
(* after RequestTimeout; the server restarts.  What becomes of a prepared  *)
(* transfer is PaymentIntents.                                             *)
(***************************************************************************)
EXTENDS Naturals, FiniteSets

CONSTANTS
  Users, Wallets,
  Assets,           \* records of a ticker and the provider's name of a network
  Pairs,            \* the pairs of assets quotes are asked for
  Fickle,           \* those the provider may stop offering
  OrderIds, Calls,  \* bounds: the provider's orders, and tool calls under way
  RequestTimeout, AssetCacheTtl, QuoteTtl, ReferenceTtl,
  MaxTime, MaxQuotes,   \* bounds
  NoWallet, NoAsset, NoOrder, NoCall, NoCache, NaN

ASSUME ConstantsAssumption ==
  /\ \A a \in Assets : DOMAIN a = {"ticker", "network"}
  /\ Pairs \subseteq Assets \X Assets /\ Fickle \subseteq Assets
  /\ RequestTimeout \in Nat /\ AssetCacheTtl \in Nat \ {0} /\ QuoteTtl \in Nat
  /\ ReferenceTtl \in Nat /\ MaxTime \in Nat /\ MaxQuotes \in Nat
  /\ NoWallet \notin Wallets /\ NoAsset \notin Assets /\ NoOrder \notin OrderIds
  /\ NaN \notin Nat

-----------------------------------------------------------------------------
\* The tables.

\* Mutant of SwapAddressField: Polygon's entry is its neighbour's.
SwapAddressFieldShifted ==
  [cspr |-> "casper", matic |-> "casper", avaxc |-> "evm", arbitrum |-> "evm",
   bsc |-> "evm", base |-> "evm", unichain |-> "evm", op |-> "evm", sol |-> "solana",
   near |-> "near", apt |-> "aptos"]

\* The provider's networks whose addresses the Vault has.
SwapAddressField ==
  [cspr |-> "casper", matic |-> "evm", avaxc |-> "evm", arbitrum |-> "evm", bsc |-> "evm",
   base |-> "evm", unichain |-> "evm", op |-> "evm", sol |-> "solana", near |-> "near",
   apt |-> "aptos"]

\* The wallet's networks: address family, tickers of the native asset, and USDC.
LiveNetworks ==
  [CASPER |-> [field |-> "casper", native |-> {"cspr"}, usdc |-> FALSE],
   POLYGON |-> [field |-> "evm", native |-> {"pol", "matic"}, usdc |-> TRUE],
   AVALANCHE |-> [field |-> "evm", native |-> {"avax"}, usdc |-> TRUE],
   ARBITRUM |-> [field |-> "evm", native |-> {"eth"}, usdc |-> TRUE],
   BNB |-> [field |-> "evm", native |-> {"bnb"}, usdc |-> TRUE],
   BASE |-> [field |-> "evm", native |-> {"eth"}, usdc |-> TRUE],
   OPTIMISM |-> [field |-> "evm", native |-> {"eth"}, usdc |-> TRUE],
   SOLANA |-> [field |-> "solana", native |-> {"sol"}, usdc |-> FALSE],
   NEAR |-> [field |-> "near", native |-> {"near"}, usdc |-> FALSE],
   APTOS |-> [field |-> "aptos", native |-> {"apt"}, usdc |-> FALSE]]

\* The widget's table of the networks a deposit can be made on.
SwapFundingNetworks ==
  [cspr |-> [network |-> "CASPER", tool |-> "prepare_casper_transfer"],
   sol |-> [network |-> "SOLANA", tool |-> "prepare_solana_transfer"],
   near |-> [network |-> "NEAR", tool |-> "prepare_near_transfer"],
   aptos |-> [network |-> "APTOS", tool |-> "prepare_aptos_transfer"],
   matic |-> [network |-> "POLYGON", tool |-> "prepare_transfer"],
   arbitrum |-> [network |-> "ARBITRUM", tool |-> "prepare_transfer"],
   base |-> [network |-> "BASE", tool |-> "prepare_transfer"],
   op |-> [network |-> "OPTIMISM", tool |-> "prepare_transfer"],
   bsc |-> [network |-> "BNB", tool |-> "prepare_transfer"],
   avaxc |-> [network |-> "AVALANCHE", tool |-> "prepare_transfer"]]

NativeTickers ==
  [cspr |-> {"cspr"}, sol |-> {"sol"}, near |-> {"near"}, aptos |-> {"apt"},
   matic |-> {"pol", "matic"}, arbitrum |-> {"eth"}, base |-> {"eth"}, op |-> {"eth"},
   bsc |-> {"bnb"}, avaxc |-> {"avax"}]

Mapped(asset) == asset.network \in DOMAIN SwapAddressField
SwapAddress(wallet, asset) == <<wallet, SwapAddressField[asset.network]>>

\* What a deposit in this asset is sent as: the native asset, or USDC by the tool that takes
\* a token.
FundingTokens(asset, tool) ==
  {token \in {"NATIVE", "USDC"} :
     CASE token = "NATIVE" -> asset.ticker \in NativeTickers[asset.network]
       [] token = "USDC" -> asset.ticker = "usdc" /\ tool = "prepare_transfer"}

\* swapFundingRoute: at most one route.
FundingRoutes(asset) ==
  IF asset.network \notin DOMAIN SwapFundingNetworks THEN {}
  ELSE LET chain == SwapFundingNetworks[asset.network]
       IN {[network |-> chain.network, token |-> token, tool |-> chain.tool] :
             token \in FundingTokens(asset, chain.tool)}

-----------------------------------------------------------------------------
Time == 0..MaxTime

SwapAddresses == {<<w, SwapAddressField[n]>> : w \in Wallets, n \in DOMAIN SwapAddressField}

\* A signed token: a quote, or the reference of an order.  Both are signed alike.
Tokens == [kind : {"quote", "reference"}, user : Users, from : Assets \cup {NoAsset},
           to : Assets \cup {NoAsset}, order : OrderIds \cup {NoOrder}, issued : Time,
           until : Nat]

Orders == [id : OrderIds, user : Users, from : Assets, to : Assets,
           payout : SwapAddresses, refund : SwapAddresses]

Stages == {"list", "second", "relist", "estimate", "order", "ordered", "status"}
CallTypes == [user : Users, stage : Stages, deadline : Nat,
              from : Assets \cup {NoAsset}, to : Assets \cup {NoAsset},
              seen : SUBSET Assets,            \* the list the provider answered
              wallet : Wallets \cup {NoWallet},
              began : Time,                    \* history: when its quote was checked
              order : OrderIds \cup {NoOrder}]

VARIABLES
  now,
  active, lastActive,   \* the provider's assets; history: when each last was one
  assetCache,
  connection,           \* the users' connected wallets
  calls,
  tokens,               \* history: all tokens the server signed
  orders,               \* the provider's orders
  shown,                \* history: the orders answered to users
  intents               \* the transfers prepared as deposits

\* A moment from now; all those after MaxTime are one.
Later(delay) == IF now + delay > MaxTime THEN MaxTime + 1 ELSE now + delay

provider == <<active, lastActive, orders>>
answers == <<tokens, shown>>
vars == <<now, provider, assetCache, connection, calls, answers, intents>>

Init ==
  /\ now = 0
  /\ active = Assets /\ lastActive = [a \in Assets |-> 0]
  /\ assetCache = NoCache
  /\ connection \in [Users -> Wallets \cup {NoWallet}]
  /\ calls = [c \in Calls |-> NoCall]
  /\ tokens = {} /\ orders = {} /\ shown = {} /\ intents = {}

\* Time passes; a request is given up in time.
Tick ==
  /\ now < MaxTime
  /\ \A c \in Calls : calls[c] # NoCall => calls[c].deadline > now
  /\ now' = now + 1
  /\ lastActive' = [a \in Assets |-> IF a \in active THEN now + 1 ELSE lastActive[a]]
  /\ UNCHANGED <<active, assetCache, connection, calls, answers, orders, intents>>

Quotes == {t \in tokens : t.kind = "quote"}
QuotesToCome == Cardinality(Quotes) < MaxQuotes

\* The provider stops offering an asset, or offers it again, while quotes are to come.
Relist ==
  /\ QuotesToCome
  /\ \E a \in Fickle :
       /\ active' = IF a \in active THEN active \ {a} ELSE active \cup {a}
       /\ lastActive' = [lastActive EXCEPT ![a] = now]
  /\ UNCHANGED <<now, assetCache, connection, calls, answers, orders, intents>>

\* Another wallet is connected for the user (Sessions).
Reconnect ==
  /\ \E u \in Users, w \in Wallets : connection' = [connection EXCEPT ![u] = w]
  /\ UNCHANGED <<now, provider, assetCache, calls, answers, intents>>

\* The server restarts: signed tokens outlive it.
Restart ==
  /\ assetCache' = NoCache /\ calls' = [c \in Calls |-> NoCall]
  /\ UNCHANGED <<now, provider, connection, answers, intents>>

-----------------------------------------------------------------------------
\* The tools' calls.

Connected(u) == connection[u] # NoWallet

Starts(c, call) ==
  /\ calls[c] = NoCall
  /\ calls' = [calls EXCEPT ![c] = call]
  /\ UNCHANGED <<now, provider, assetCache, connection, answers, intents>>

Call(u, stage, deadline) ==
  [user |-> u, stage |-> stage, deadline |-> deadline, from |-> NoAsset, to |-> NoAsset,
   seen |-> {}, wallet |-> NoWallet, began |-> 0, order |-> NoOrder]

Quote(u, from, to) ==
  [kind |-> "quote", user |-> u, from |-> from, to |-> to, order |-> NoOrder,
   issued |-> now, until |-> Later(QuoteTtl)]

\* Mutant of CacheIsFresh: a list is kept until the server restarts.
CacheIsFreshAlways == assetCache # NoCache

CacheIsFresh == assetCache # NoCache /\ assetCache.until > now

Moves(call, stage, delay, seen) ==
  [call EXCEPT !.stage = stage, !.deadline = Later(delay), !.seen = seen]

\* activeAsset looks an asset up in a list.  Once the first is found the second is looked
\* up: nothing is waited for in between, but the clock may move on.
FindsFrom(call, list) ==
  IF call.from \in list THEN Moves(call, "second", 1, {}) ELSE NoCall

\* Once the second is found, an estimate is asked for.
FindsTo(call, list) ==
  IF call.to \in list /\ call.from # call.to
  THEN Moves(call, "estimate", RequestTimeout, {}) ELSE NoCall

\* The provider is asked for the list, and answers that of this moment.
AsksForList(call, stage) == Moves(call, stage, RequestTimeout, active)

\* get_swap_quote: the Vault has to have addresses for both assets.  The first is looked up
\* in the cached list while it is fresh.
GetSwapQuote(c, u) ==
  /\ Connected(u) /\ QuotesToCome
  /\ \E pair \in Pairs :
       LET call == [Call(u, "list", now) EXCEPT !.from = pair[1], !.to = pair[2]]
       IN /\ Mapped(pair[1]) /\ Mapped(pair[2])
          /\ Starts(c, IF CacheIsFresh THEN FindsFrom(call, assetCache.assets)
                       ELSE AsksForList(call, "list"))

At(c, stage) == calls[c] # NoCall /\ calls[c].stage = stage

\* The second asset is looked up: the cached list may have expired since.
SecondLookup(c) ==
  /\ At(c, "second")
  /\ calls' = [calls EXCEPT ![c] = IF CacheIsFresh THEN FindsTo(@, assetCache.assets)
                                   ELSE AsksForList(@, "relist")]
  /\ UNCHANGED <<now, provider, assetCache, connection, answers, intents>>

\* A list arrives, perhaps after a newer one.
ListArrives(c) ==
  /\ At(c, "list") \/ At(c, "relist")
  /\ calls[c].seen # {}
  /\ assetCache' = [assets |-> calls[c].seen, until |-> Later(AssetCacheTtl)]
  /\ calls' = [calls EXCEPT ![c] = IF At(c, "list") THEN FindsFrom(@, @.seen)
                                   ELSE FindsTo(@, @.seen)]
  /\ UNCHANGED <<now, provider, connection, answers, intents>>

\* list_swap_assets: the list is shown, and kept as any other.
ListSwapAssets ==
  /\ QuotesToCome /\ ~CacheIsFresh /\ active # {}
  /\ assetCache' = [assets |-> active, until |-> Later(AssetCacheTtl)]
  /\ UNCHANGED <<now, provider, connection, calls, answers, intents>>

\* The estimate arrives: the quote is signed and shown.
EstimateArrives(c) ==
  /\ At(c, "estimate") /\ QuotesToCome
  /\ tokens' = tokens \cup {Quote(calls[c].user, calls[c].from, calls[c].to)}
  /\ calls' = [calls EXCEPT ![c] = NoCall]
  /\ UNCHANGED <<now, provider, assetCache, connection, shown, intents>>

-----------------------------------------------------------------------------
\* Orders.

\* The fields validUntil and expiresAt: what a token lacks is no number, and no number is
\* at most another.
ValidUntil(token) == IF token.kind = "quote" THEN token.until ELSE NaN
ExpiresAt(token) == IF token.kind = "reference" THEN token.until ELSE NaN
AtMostNow(time) == IF time = NaN THEN FALSE ELSE time <= now

QuoteHolds(token, u) == token.user = u /\ ~AtMostNow(ValidUntil(token))

\* create_swap_order: the addresses are those of the wallet connected now.  A reference
\* passes for a quote up to here, but has no assets to resolve.
CreateSwapOrder(c, u) ==
  /\ Connected(u)
  /\ \E token \in tokens :
       /\ QuoteHolds(token, u)
       /\ token.to # NoAsset /\ token.from # NoAsset
       /\ Starts(c, [Call(u, "order", Later(RequestTimeout)) EXCEPT
                       !.from = token.from, !.to = token.to, !.wallet = connection[u],
                       !.began = now])

\* The provider takes the order of a call that may never learn of it.
ProviderOrders(c) ==
  /\ At(c, "order")
  /\ \E id \in OrderIds \ {o.id : o \in orders} :
       LET call == calls[c]
       IN /\ orders' = orders \cup
               {[id |-> id, user |-> call.user, from |-> call.from, to |-> call.to,
                 payout |-> SwapAddress(call.wallet, call.to),
                 refund |-> SwapAddress(call.wallet, call.from)]}
          /\ calls' = [calls EXCEPT ![c] = [Call(@.user, "ordered", @.deadline) EXCEPT
                                            !.order = id]]
  /\ UNCHANGED <<now, active, lastActive, assetCache, connection, answers, intents>>

OrderArrives(c) ==
  /\ At(c, "ordered")
  /\ LET call == calls[c]
     IN /\ tokens' = tokens \cup
             {[kind |-> "reference", user |-> call.user, from |-> NoAsset, to |-> NoAsset,
               order |-> call.order, issued |-> 0, until |-> Later(ReferenceTtl)]}
        /\ shown' = shown \cup {[user |-> call.user, order |-> call.order]}
  /\ calls' = [calls EXCEPT ![c] = NoCall]
  /\ UNCHANGED <<now, provider, assetCache, connection, intents>>

\* A quote passes for a reference, too.
ReferenceHolds(token, u) == token.user = u /\ ~AtMostNow(ExpiresAt(token))

GetSwapStatus(c, u) ==
  \E token \in tokens :
    /\ ReferenceHolds(token, u) /\ Connected(u)
    /\ Starts(c, [Call(u, "status", Later(RequestTimeout)) EXCEPT !.order = token.order])

\* The provider knows only its orders.
StatusArrives(c) ==
  /\ At(c, "status")
  /\ calls[c].order \in {o.id : o \in orders}
  /\ calls' = [calls EXCEPT ![c] = NoCall]
  /\ UNCHANGED <<now, provider, assetCache, connection, answers, intents>>

\* The provider refuses, answers nothing usable or too late, or the answer is lost.
CallFails(c) ==
  /\ calls[c] # NoCall
  /\ calls' = [calls EXCEPT ![c] = NoCall]
  /\ UNCHANGED <<now, provider, assetCache, connection, answers, intents>>

-----------------------------------------------------------------------------
\* Deposits.

\* Mutant of DepositKey: a key per click, as the form for transfers makes it.
DepositKeyOfTheClick(id) == <<id, now>>

\* The idempotency key of an order's deposit.
DepositKey(id) == id

\* "Review deposit in AiFinPay Vault", on the screen of an order, as often as it is tapped:
\* the server prepares one transfer for a key, unless it refuses.
FundFromVault(s) ==
  /\ s \in shown
  /\ \E o \in orders : o.id = s.order /\ \E route \in FundingRoutes(o.from) :
       LET intent == [user |-> s.user, key |-> DepositKey(o.id), recipient |-> o.id,
                      network |-> route.network, token |-> route.token]
       IN /\ route.token = "USDC" => LiveNetworks[route.network].usdc
          /\ \A i \in intents : <<i.user, i.key>> # <<intent.user, intent.key>>
          /\ intents' = intents \cup {intent}
  /\ UNCHANGED <<now, provider, assetCache, connection, calls, answers>>

Next ==
  \/ Tick \/ Relist \/ Reconnect \/ Restart \/ ListSwapAssets
  \/ \E c \in Calls, u \in Users :
       GetSwapQuote(c, u) \/ CreateSwapOrder(c, u) \/ GetSwapStatus(c, u)
  \/ \E c \in Calls :
       \/ SecondLookup(c) \/ ListArrives(c) \/ EstimateArrives(c)
       \/ ProviderOrders(c) \/ OrderArrives(c) \/ StatusArrives(c) \/ CallFails(c)
  \/ \E s \in shown : FundFromVault(s)

Spec == Init /\ [][Next]_vars

-----------------------------------------------------------------------------
\* Properties.

\* Types of the provider's and the server's state.
TypeOK ==
  /\ now \in Time
  /\ active \subseteq Assets /\ lastActive \in [Assets -> Time]
  /\ assetCache \in [assets : SUBSET Assets, until : Nat] \cup {NoCache}
  /\ connection \in [Users -> Wallets \cup {NoWallet}]
  /\ calls \in [Calls -> CallTypes \cup {NoCall}]
  /\ tokens \subseteq Tokens /\ orders \subseteq Orders
  /\ shown \subseteq [user : Users, order : OrderIds]

\* A quote names assets the provider offered at most one cache lifetime and three requests
\* ago, however the calls that fill the cache overlap and answers overtake each other: the
\* request that filled the cache, one for a list that expired between the two lookups, and
\* the estimate.  The second asset of a quote never waits for that extra list.
QuotedAssetsWereActive ==
  \A t \in tokens : t.kind = "quote" =>
    /\ t.issued <= lastActive[t.from] + AssetCacheTtl + 3 * RequestTimeout
    /\ t.issued < lastActive[t.to] + AssetCacheTtl + 2 * RequestTimeout

\* An order is made for its user's own quote, on the quote's terms, and was begun before
\* the quote expired: no other token, of another user or of another kind, makes one.
OrdersKeepTheirQuotes ==
  [][\A o \in orders' \ orders : \E c \in Calls, t \in tokens :
       /\ At(c, "order") /\ calls'[c] # calls[c]
       /\ t.kind = "quote" /\ t.user = o.user /\ t.from = o.from /\ t.to = o.to
       /\ calls[c].began < t.until]_vars

\* What is paid out, and what is paid back, goes to one wallet, to its address on the
\* network of the asset, where the tables of server and widget both know the network.
OrdersPayTheVault ==
  \A o \in orders :
    /\ o.payout[1] = o.refund[1]
    /\ \A a \in {o.from, o.to} : a.network \in DOMAIN SwapFundingNetworks =>
         LET field == LiveNetworks[SwapFundingNetworks[a.network].network].field
         IN field \in IF a = o.from THEN {o.refund[2]} ELSE {o.payout[2]}

\* The provider is asked for, and can answer, the status of an order only for the user who
\* made it: a token of another user or of another kind finds none.
StatusesAreOfOwnOrders ==
  \A c \in Calls : At(c, "status") =>
    \A o \in orders : o.id = calls[c].order => o.user = calls[c].user

\* A deposit is sent in the asset the order is for, on its network: nothing else is ever
\* substituted.
DepositsAreOfTheOrderedAsset ==
  \A i \in intents : \E o \in orders :
    /\ o.id = i.recipient /\ o.user = i.user
    /\ SwapFundingNetworks[o.from.network].network = i.network
    /\ o.from.ticker \in IF i.token = "USDC" THEN {"usdc"}
                         ELSE LiveNetworks[i.network].native

\* An order's deposit is prepared once, however often it is asked for.
OneDepositPerOrder ==
  \A i \in intents, j \in intents : i.recipient = j.recipient => i = j
=======================================================================================
