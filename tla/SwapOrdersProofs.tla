------------------------------- MODULE SwapOrdersProofs -------------------------------
(***************************************************************************)
(* Proofs about SwapOrders, for any users, wallets, assets and lifetimes   *)
(* and without the bounds of the run.                                      *)
(***************************************************************************)
EXTENDS SwapOrders, TLAPS

\* The constants, one by one.
LEMMA Constants ==
  /\ RequestTimeout \in Nat /\ AssetCacheTtl \in Nat /\ AssetCacheTtl > 0
  /\ QuoteTtl \in Nat /\ ReferenceTtl \in Nat /\ MaxTime \in Nat
  /\ Pairs \subseteq Assets \X Assets /\ NoOrder \notin OrderIds /\ NoWallet \notin Wallets
  /\ NoAsset \notin Assets /\ NaN \notin Nat
BY ConstantsAssumption

\* A moment from now is none before now, and none after its delay.
LEMMA LaterFacts ==
  ASSUME now \in Time, NEW delay \in Nat
  PROVE  Later(delay) \in Nat /\ now <= Later(delay) /\ Later(delay) <= now + delay
BY Constants DEF Later, Time

\* A call of a user at a stage.
LEMMA CallFacts ==
  ASSUME NEW u \in Users, NEW stage \in Stages, NEW deadline \in Nat
  PROVE  /\ Call(u, stage, deadline) \in CallTypes
         /\ Call(u, stage, deadline).user = u /\ Call(u, stage, deadline).stage = stage
         /\ Call(u, stage, deadline).deadline = deadline
         /\ Call(u, stage, deadline).order = NoOrder
         /\ Call(u, stage, deadline).seen = {}
BY Constants DEF Call, CallTypes, Time

\* What a call for a quote becomes as its assets are looked up.
Moved(call) ==
  {NoCall, Moves(call, "second", 1, {}), Moves(call, "estimate", RequestTimeout, {}),
   Moves(call, "list", RequestTimeout, active), Moves(call, "relist", RequestTimeout, active)}

\* A call that moves on keeps what it is about.
LEMMA MovesFacts ==
  ASSUME now \in Time, NEW call \in CallTypes, NEW stage \in Stages, NEW delay \in Nat,
         NEW seen \in SUBSET Assets
  PROVE  LET x == Moves(call, stage, delay, seen)
         IN /\ x \in CallTypes /\ x.stage = stage /\ x.deadline = Later(delay) /\ x.seen = seen
            /\ x.user = call.user /\ x.order = call.order
            /\ x.from = call.from /\ x.to = call.to
<1>1. Later(delay) \in Nat
  BY LaterFacts
<1> QED
  BY <1>1 DEF Moves, CallTypes

LEMMA MovedFacts ==
  ASSUME now \in Time, active \subseteq Assets, NEW call \in CallTypes,
         NEW x \in Moved(call), x # NoCall
  PROVE  /\ x \in CallTypes /\ x.stage \in {"list", "second", "relist", "estimate"}
         /\ x.user = call.user /\ x.order = call.order
         /\ x.from = call.from /\ x.to = call.to
<1>1. 1 \in Nat /\ RequestTimeout \in Nat /\ {} \in SUBSET Assets
  BY Constants
<1>2. CASE x = Moves(call, "second", 1, {})
  BY <1>1, <1>2, MovesFacts DEF Stages
<1>3. CASE x = Moves(call, "estimate", RequestTimeout, {})
  BY <1>1, <1>3, MovesFacts DEF Stages
<1>4. CASE x = Moves(call, "list", RequestTimeout, active)
  BY <1>1, <1>4, MovesFacts DEF Stages
<1>5. CASE x = Moves(call, "relist", RequestTimeout, active)
  BY <1>1, <1>5, MovesFacts DEF Stages
<1> QED
  BY <1>2, <1>3, <1>4, <1>5 DEF Moved

\* A lookup in a list moves the call on, or ends it.
LEMMA LookupsMove ==
  ASSUME NEW call, NEW list
  PROVE  /\ FindsFrom(call, list) \in Moved(call) /\ FindsTo(call, list) \in Moved(call)
         /\ AsksForList(call, "list") \in Moved(call)
         /\ AsksForList(call, "relist") \in Moved(call)
BY DEF FindsFrom, FindsTo, AsksForList, Moved

\* The call get_swap_quote makes, before its first lookup.
QuoteCall(u, pair) == [Call(u, "list", now) EXCEPT !.from = pair[1], !.to = pair[2]]

\* It is about the two assets of the pair.
LEMMA QuoteCallFacts ==
  ASSUME now \in Time, NEW u \in Users, NEW pair \in Pairs
  PROVE  LET call == QuoteCall(u, pair)
         IN /\ call \in CallTypes /\ call.user = u /\ call.order = NoOrder
            /\ call.from = pair[1] /\ call.to = pair[2]
            /\ call.from \in Assets /\ call.to \in Assets
<1>1. now \in Nat
  BY Constants DEF Time
<1>2. pair[1] \in Assets /\ pair[2] \in Assets
  BY Constants
<1> DEFINE start == Call(u, "list", now)
<1>3. start \in CallTypes /\ start.user = u /\ start.order = NoOrder
  BY <1>1, CallFacts DEF Stages
<1>4. QuoteCall(u, pair) = [start EXCEPT !.from = pair[1], !.to = pair[2]]
  BY DEF QuoteCall
<1> HIDE DEF start
<1> QED
  BY <1>2, <1>3, <1>4 DEF CallTypes

\* The call create_swap_order makes.
OrderCall(u, from, to, w) ==
  [Call(u, "order", Later(RequestTimeout)) EXCEPT
     !.from = from, !.to = to, !.wallet = w, !.began = now]

\* It is about the assets of the quote and the connected wallet.
LEMMA OrderCallFacts ==
  ASSUME now \in Time, NEW u \in Users, NEW from \in Assets, NEW to \in Assets,
         NEW w \in Wallets
  PROVE  LET call == OrderCall(u, from, to, w)
         IN /\ call \in CallTypes /\ call.stage = "order" /\ call.user = u
            /\ call.deadline = Later(RequestTimeout) /\ call.order = NoOrder
            /\ call.from = from /\ call.to = to /\ call.wallet = w /\ call.began = now
<1>1. Later(RequestTimeout) \in Nat
  BY Constants, LaterFacts
<1> DEFINE start == Call(u, "order", Later(RequestTimeout))
<1>2. /\ start \in CallTypes /\ start.stage = "order" /\ start.user = u
      /\ start.deadline = Later(RequestTimeout) /\ start.order = NoOrder
  BY <1>1, CallFacts DEF Stages
<1>3. OrderCall(u, from, to, w) =
        [start EXCEPT !.from = from, !.to = to, !.wallet = w, !.began = now]
  BY DEF OrderCall
<1> HIDE DEF start
<1> QED
  BY <1>2, <1>3 DEF CallTypes

\* A call that knows an order.
KnowingCall(u, stage, deadline, id) == [Call(u, stage, deadline) EXCEPT !.order = id]

\* It has the fields it was given.
LEMMA KnowingCallFacts ==
  ASSUME NEW u \in Users, NEW stage \in Stages, NEW deadline \in Nat,
         NEW id \in OrderIds \cup {NoOrder}
  PROVE  LET call == KnowingCall(u, stage, deadline, id)
         IN /\ call \in CallTypes /\ call.stage = stage /\ call.user = u
            /\ call.deadline = deadline /\ call.order = id
<1> DEFINE start == Call(u, stage, deadline)
<1>1. start \in CallTypes /\ start.stage = stage /\ start.user = u /\ start.deadline = deadline
  BY CallFacts
<1>2. KnowingCall(u, stage, deadline, id) = [start EXCEPT !.order = id]
  BY DEF KnowingCall
<1> HIDE DEF start
<1> QED
  BY <1>1, <1>2 DEF CallTypes

-----------------------------------------------------------------------------
\* Quotes, and the calls that are about one.

\* A quote, or a call about one, names two assets the Vault has addresses for.
NamesAssets(x) == x.from \in Assets /\ x.to \in Assets /\ Mapped(x.from) /\ Mapped(x.to)

\* A call that makes an order is made for a quote that held when it began.
HasQuote(x) ==
  /\ x.stage \in {"list", "second", "relist", "estimate", "order"} => NamesAssets(x)
  /\ x.stage = "order" =>
       /\ x.wallet \in Wallets
       /\ \E t \in tokens : /\ t.kind = "quote" /\ t.user = x.user /\ t.from = x.from
                            /\ t.to = x.to /\ x.began < t.until
  /\ x.stage = "ordered" => x.order \in OrderIds

QuoteInv ==
  /\ \A t \in tokens : IF t.kind = "quote" THEN NamesAssets(t) ELSE t.from = NoAsset
  /\ \A c \in Calls : calls[c] # NoCall => HasQuote(calls[c])

\* Signed tokens are not taken back.
LEMMA TokensGrow == [Next]_vars => tokens \subseteq tokens'
BY DEF Next, vars, provider, answers, Tick, Relist, Reconnect, Restart, ListSwapAssets,
       GetSwapQuote, CreateSwapOrder, GetSwapStatus, Starts, SecondLookup, ListArrives, EstimateArrives,
       ProviderOrders, OrderArrives, StatusArrives, CallFails, FundFromVault

\* A quote is a token on the terms of its call.
LEMMA QuoteFacts ==
  ASSUME now \in Time, NEW u \in Users, NEW from \in Assets, NEW to \in Assets
  PROVE  /\ Quote(u, from, to) \in Tokens /\ Quote(u, from, to).kind = "quote"
         /\ Quote(u, from, to).user = u /\ Quote(u, from, to).from = from
         /\ Quote(u, from, to).to = to /\ Quote(u, from, to).order = NoOrder
         /\ Quote(u, from, to).issued = now
<1>1. Later(QuoteTtl) \in Nat
  BY Constants, LaterFacts
<1> QED
  BY <1>1 DEF Quote, Tokens

\* What create_swap_order accepts is a quote of its user that has not expired.
LEMMA AcceptedFacts ==
  ASSUME TypeOK, QuoteInv, NEW t \in tokens, NEW u, QuoteHolds(t, u),
         t.from # NoAsset
  PROVE  t.kind = "quote" /\ t.user = u /\ NamesAssets(t) /\ now < t.until
<1>1. t \in Tokens /\ t.kind \in {"quote", "reference"} /\ t.until \in Nat /\ now \in Nat
  BY DEF TypeOK, Tokens, Time
<1>2. t.kind = "quote" /\ NamesAssets(t)
  BY <1>1 DEF QuoteInv
<1>3. ValidUntil(t) = t.until /\ t.until # NaN
  BY <1>1, <1>2, Constants DEF ValidUntil
<1>4. ~(t.until <= now) /\ t.user = u
  BY <1>3 DEF QuoteHolds, AtMostNow
<1> QED
  BY <1>1, <1>2, <1>4

\* A step that changes one call keeps the others'.
LEMMA CallStepHasQuote ==
  ASSUME TypeOK, QuoteInv, tokens \subseteq tokens', NEW c \in Calls, NEW x,
         calls' = [calls EXCEPT ![c] = x], x # NoCall => HasQuote(x)'
  PROVE  \A d \in Calls : calls'[d] # NoCall => HasQuote(calls[d])'
<1> SUFFICES ASSUME NEW d \in Calls, calls'[d] # NoCall PROVE HasQuote(calls[d])'
  OBVIOUS
<1>1. CASE d = c
  <2>1. calls'[d] = x
    BY <1>1 DEF TypeOK
  <2> QED
    BY <2>1 DEF HasQuote, NamesAssets
<1>2. CASE d # c
  <2>1. calls'[d] = calls[d]
    BY <1>2 DEF TypeOK
  <2>2. HasQuote(calls[d])
    BY <2>1 DEF QuoteInv
  <2> QED
    BY <2>1, <2>2 DEF HasQuote, NamesAssets
<1> QED
  BY <1>1, <1>2

-----------------------------------------------------------------------------
\* Types.

TypeInv == TypeOK /\ QuoteInv

\* Init establishes the types.
LEMMA InitTypeInv == Init => TypeInv
<1> SUFFICES ASSUME Init PROVE TypeInv
  OBVIOUS
<1>1. 0 \in Time
  BY Constants DEF Time
<1>2. calls \in [Calls -> CallTypes \cup {NoCall}] /\ \A c \in Calls : calls[c] = NoCall
  BY DEF Init
<1> QED
  BY <1>1, <1>2 DEF Init, TypeInv, TypeOK, QuoteInv

\* The steps of the provider, of the clock and of connections keep the types.
LEMMA SurroundingsKeepTypes ==
  TypeInv /\ (Tick \/ Relist \/ Reconnect \/ Restart \/ ListSwapAssets) => TypeInv'
<1> SUFFICES ASSUME TypeInv, Tick \/ Relist \/ Reconnect \/ Restart \/ ListSwapAssets
             PROVE  TypeInv'
  OBVIOUS
<1> USE DEF TypeInv
<1>0. now \in Nat /\ MaxTime \in Nat /\ now \in Time
  BY Constants DEF TypeOK, Time
<1>1. CASE Tick
  <2>1. now + 1 \in Time
    BY <1>0, <1>1 DEF Tick, Time
  <2>2. now' = now + 1 /\ lastActive' \in [Assets -> Time]
    BY <1>1, <2>1 DEF Tick, TypeOK
  <2> QED
    BY <1>1, <2>1, <2>2 DEF Tick, TypeOK, QuoteInv, HasQuote, NamesAssets, answers
<1>2. CASE Relist
  BY <1>0, <1>2, ConstantsAssumption
     DEF Relist, TypeOK, QuoteInv, HasQuote, NamesAssets, answers
<1>3. CASE Reconnect
  BY <1>3 DEF Reconnect, TypeOK, QuoteInv, HasQuote, NamesAssets, answers, provider
<1>4. CASE Restart
  <2>1. /\ calls' \in [Calls -> CallTypes \cup {NoCall}]
        /\ \A c \in Calls : calls'[c] = NoCall
    BY <1>4 DEF Restart
  <2> QED
    BY <1>4, <2>1 DEF Restart, TypeOK, QuoteInv, NamesAssets, answers, provider
<1>5. CASE ListSwapAssets
  <2>1. Later(AssetCacheTtl) \in Nat
    BY <1>0, Constants, LaterFacts
  <2>2. assetCache' \in [assets : SUBSET Assets, until : Nat]
    BY <1>5, <2>1 DEF ListSwapAssets, TypeOK
  <2> QED
    BY <1>5, <2>2 DEF ListSwapAssets, TypeOK, QuoteInv, HasQuote, NamesAssets, answers, provider
<1> QED
  BY <1>1, <1>2, <1>3, <1>4, <1>5

\* A step that only changes a call, and may sign tokens, keeps the types.
LEMMA CallStepKeepsTypes ==
  ASSUME TypeInv, NEW c \in Calls, NEW x \in CallTypes \cup {NoCall},
         calls' = [calls EXCEPT ![c] = x], x # NoCall => HasQuote(x)',
         tokens \subseteq tokens', tokens' \subseteq Tokens,
         \A t \in tokens' : IF t.kind = "quote" THEN NamesAssets(t) ELSE t.from = NoAsset,
         assetCache' \in [assets : SUBSET Assets, until : Nat] \cup {NoCache},
         orders' \subseteq Orders, shown' \subseteq [user : Users, order : OrderIds],
         UNCHANGED <<now, active, lastActive, connection>>
  PROVE  TypeInv'
<1>1. \A d \in Calls : calls'[d] # NoCall => HasQuote(calls[d])'
  BY CallStepHasQuote DEF TypeInv
<1>2. calls' \in [Calls -> CallTypes \cup {NoCall}]
  BY DEF TypeInv, TypeOK
<1> QED
  BY <1>1, <1>2 DEF TypeInv, TypeOK, QuoteInv, NamesAssets

\* The calls of the tools begin with what they need.
LEMMA StartsKeepTypes ==
  ASSUME TypeInv, NEW c \in Calls, NEW u \in Users,
         GetSwapQuote(c, u) \/ CreateSwapOrder(c, u) \/ GetSwapStatus(c, u)
  PROVE  TypeInv'
<1>0. /\ now \in Time /\ Later(RequestTimeout) \in Nat /\ active \subseteq Assets
      /\ tokens \subseteq Tokens
  BY Constants, LaterFacts DEF TypeInv, TypeOK
<1>1. ASSUME NEW x \in CallTypes \cup {NoCall}, Starts(c, x), x # NoCall => HasQuote(x)
      PROVE  TypeInv'
  <2>1. x # NoCall => HasQuote(x)'
    BY <1>1 DEF Starts, answers, HasQuote, NamesAssets
  <2> QED
    BY <1>1, <2>1, CallStepKeepsTypes
       DEF Starts, provider, answers, TypeInv, TypeOK, QuoteInv
<1>2. CASE GetSwapQuote(c, u)
  <2>1. PICK pair \in Pairs :
          /\ Mapped(pair[1]) /\ Mapped(pair[2])
          /\ LET call == QuoteCall(u, pair)
             IN Starts(c, IF CacheIsFresh THEN FindsFrom(call, assetCache.assets)
                          ELSE AsksForList(call, "list"))
    BY <1>2 DEF GetSwapQuote, QuoteCall
  <2> PICK call : call = QuoteCall(u, pair)
    OBVIOUS
  <2>2. call \in CallTypes /\ NamesAssets(call)
    BY <1>0, <2>1, QuoteCallFacts DEF NamesAssets
  <2> PICK x : x = IF CacheIsFresh THEN FindsFrom(call, assetCache.assets)
                   ELSE AsksForList(call, "list")
    OBVIOUS
  <2>3. x \in Moved(call)
    BY LookupsMove
  <2>4. x \in CallTypes \cup {NoCall} /\ (x # NoCall => HasQuote(x))
    BY <1>0, <2>2, <2>3, MovedFacts DEF HasQuote, NamesAssets
  <2> QED
    BY <1>1, <2>1, <2>4
<1>3. CASE CreateSwapOrder(c, u)
  <2>1. PICK t \in tokens :
          /\ QuoteHolds(t, u) /\ t.to # NoAsset /\ t.from # NoAsset
          /\ Starts(c, OrderCall(u, t.from, t.to, connection[u]))
    BY <1>3 DEF CreateSwapOrder, OrderCall
  <2>2. t.kind = "quote" /\ t.user = u /\ NamesAssets(t) /\ now < t.until
    BY <2>1, AcceptedFacts DEF TypeInv
  <2>3. connection[u] \in Wallets
    BY <1>3 DEF CreateSwapOrder, Connected, TypeInv, TypeOK
  <2> PICK x : x = OrderCall(u, t.from, t.to, connection[u])
    OBVIOUS
  <2>4. /\ x \in CallTypes /\ x.stage = "order" /\ x.user = u /\ x.from = t.from
        /\ x.to = t.to /\ x.wallet = connection[u] /\ x.began = now
    BY <1>0, <2>2, <2>3, OrderCallFacts DEF NamesAssets
  <2>5. Starts(c, x)
    BY <2>1
  <2>6. HasQuote(x)
    BY <2>2, <2>3, <2>4 DEF HasQuote, NamesAssets
  <2> QED
    BY <1>1, <2>4, <2>5, <2>6
<1>4. CASE GetSwapStatus(c, u)
  <2>1. PICK t \in tokens :
          Starts(c, KnowingCall(u, "status", Later(RequestTimeout), t.order))
    BY <1>4 DEF GetSwapStatus, KnowingCall
  <2>2. t.order \in OrderIds \cup {NoOrder}
    BY <1>0 DEF Tokens
  <2> PICK x : x = KnowingCall(u, "status", Later(RequestTimeout), t.order)
    OBVIOUS
  <2>3. x \in CallTypes /\ x.stage = "status"
    BY <1>0, <2>2, KnowingCallFacts DEF Stages
  <2>4. Starts(c, x)
    BY <2>1
  <2>5. HasQuote(x)
    BY <2>3 DEF HasQuote
  <2> QED
    BY <1>1, <2>3, <2>4, <2>5
<1> QED
  BY <1>2, <1>3, <1>4

\* The address of a named asset in a wallet.
LEMMA AddressFacts ==
  ASSUME NEW w \in Wallets, NEW a \in Assets, Mapped(a)
  PROVE  SwapAddress(w, a) \in SwapAddresses
BY DEF Mapped, SwapAddress, SwapAddresses

\* Answers of the provider, and calls that end without one.
LEMMA AnswersKeepTypes ==
  ASSUME TypeInv, NEW c \in Calls,
         \/ SecondLookup(c) \/ ListArrives(c) \/ EstimateArrives(c) \/ ProviderOrders(c)
         \/ OrderArrives(c) \/ StatusArrives(c) \/ CallFails(c)
  PROVE  TypeInv'
<1>0. /\ now \in Time /\ Later(RequestTimeout) \in Nat /\ Later(AssetCacheTtl) \in Nat
      /\ Later(ReferenceTtl) \in Nat /\ tokens \subseteq Tokens /\ active \subseteq Assets
  BY Constants, LaterFacts DEF TypeInv, TypeOK
<1>1. calls[c] # NoCall /\ calls[c] \in CallTypes /\ HasQuote(calls[c])
  BY DEF TypeInv, TypeOK, QuoteInv, SecondLookup, ListArrives, EstimateArrives,
         ProviderOrders, OrderArrives, StatusArrives, CallFails, At
<1>2. /\ calls[c].user \in Users /\ calls[c].deadline \in Nat /\ calls[c].seen \subseteq Assets
      /\ calls[c].order \in OrderIds \cup {NoOrder}
  BY <1>1 DEF CallTypes
<1>3. CASE ListArrives(c) \/ SecondLookup(c)
  <2>1. NamesAssets(calls[c])
    BY <1>1, <1>3 DEF ListArrives, SecondLookup, At, HasQuote
  <2>2. PICK x \in Moved(calls[c]) : calls' = [calls EXCEPT ![c] = x]
    BY <1>3, LookupsMove DEF ListArrives, SecondLookup
  <2>3. /\ assetCache' \in {assetCache, [assets |-> calls[c].seen, until |-> Later(AssetCacheTtl)]}
        /\ UNCHANGED <<now, active, lastActive, orders, connection, tokens, shown>>
    BY <1>3 DEF ListArrives, SecondLookup, provider, answers
  <2>4. x \in CallTypes \cup {NoCall} /\ (x # NoCall => HasQuote(x))
    BY <1>0, <1>1, <2>1, MovedFacts DEF HasQuote, NamesAssets
  <2>5. x # NoCall => HasQuote(x)'
    BY <2>3, <2>4 DEF HasQuote, NamesAssets
  <2>6. assetCache' \in [assets : SUBSET Assets, until : Nat] \cup {NoCache}
    BY <1>0, <1>2, <2>3 DEF TypeInv, TypeOK
  <2> QED
    BY <2>2, <2>3, <2>4, <2>5, <2>6, CallStepKeepsTypes DEF TypeInv, TypeOK, QuoteInv
<1>4. CASE EstimateArrives(c)
  <2> DEFINE q == Quote(calls[c].user, calls[c].from, calls[c].to)
  <2>1. NamesAssets(calls[c])
    BY <1>1, <1>4 DEF EstimateArrives, At, HasQuote
  <2>2. q \in Tokens /\ q.kind = "quote" /\ q.from = calls[c].from /\ q.to = calls[c].to
    BY <1>0, <1>2, <2>1, QuoteFacts DEF NamesAssets
  <2>3. /\ calls' = [calls EXCEPT ![c] = NoCall] /\ tokens' = tokens \cup {q}
        /\ UNCHANGED <<now, active, lastActive, orders, connection, assetCache, shown>>
    BY <1>4 DEF EstimateArrives, provider
  <2> HIDE DEF q
  <2>4. \A t \in tokens' : IF t.kind = "quote" THEN NamesAssets(t) ELSE t.from = NoAsset
    BY <2>1, <2>2, <2>3 DEF TypeInv, QuoteInv, NamesAssets
  <2> QED
    BY <1>0, <2>2, <2>3, <2>4, CallStepKeepsTypes DEF TypeInv, TypeOK
<1>5. CASE ProviderOrders(c)
  <2>1. PICK id \in OrderIds \ {o.id : o \in orders} :
          /\ orders' = orders \cup
               {[id |-> id, user |-> calls[c].user, from |-> calls[c].from,
                 to |-> calls[c].to, payout |-> SwapAddress(calls[c].wallet, calls[c].to),
                 refund |-> SwapAddress(calls[c].wallet, calls[c].from)]}
          /\ calls' = [calls EXCEPT ![c] =
                          KnowingCall(calls[c].user, "ordered", calls[c].deadline, id)]
    BY <1>5 DEF ProviderOrders, KnowingCall
  <2>2. NamesAssets(calls[c]) /\ calls[c].wallet \in Wallets
    BY <1>1, <1>5 DEF ProviderOrders, At, HasQuote
  <2>3. /\ SwapAddress(calls[c].wallet, calls[c].to) \in SwapAddresses
        /\ SwapAddress(calls[c].wallet, calls[c].from) \in SwapAddresses
    BY <2>2, AddressFacts DEF NamesAssets
  <2>4. orders' \subseteq Orders
    BY <1>2, <2>1, <2>2, <2>3 DEF Orders, TypeInv, TypeOK, NamesAssets
  <2> PICK x : x = KnowingCall(calls[c].user, "ordered", calls[c].deadline, id)
    OBVIOUS
  <2>5. x \in CallTypes /\ x.stage = "ordered" /\ x.order = id
    BY <1>2, KnowingCallFacts DEF Stages
  <2>6. calls' = [calls EXCEPT ![c] = x]
    BY <2>1
  <2>7. UNCHANGED <<now, active, lastActive, connection, assetCache, tokens, shown>>
    BY <1>5 DEF ProviderOrders, answers
  <2>8. HasQuote(x)'
    BY <2>5 DEF HasQuote
  <2> QED
    BY <1>0, <2>4, <2>5, <2>6, <2>7, <2>8, CallStepKeepsTypes DEF TypeInv, TypeOK, QuoteInv
<1>6. CASE OrderArrives(c)
  <2> PICK t, s :
         /\ t = [kind |-> "reference", user |-> calls[c].user, from |-> NoAsset,
                 to |-> NoAsset, order |-> calls[c].order, issued |-> 0,
                 until |-> Later(ReferenceTtl)]
         /\ s = [user |-> calls[c].user, order |-> calls[c].order]
    OBVIOUS
  <2>1. 0 \in Time
    BY Constants DEF Time
  <2>2. t \in Tokens /\ t.kind = "reference" /\ t.from = NoAsset
    BY <1>0, <1>2, <2>1 DEF Tokens
  <2>3. /\ calls' = [calls EXCEPT ![c] = NoCall] /\ tokens' = tokens \cup {t}
        /\ shown' = shown \cup {s}
        /\ UNCHANGED <<now, active, lastActive, orders, connection, assetCache>>
    BY <1>6 DEF OrderArrives, provider
  <2>4. calls[c].order \in OrderIds
    BY <1>1, <1>6 DEF OrderArrives, At, HasQuote
  <2>5. \A r \in tokens' : IF r.kind = "quote" THEN NamesAssets(r) ELSE r.from = NoAsset
    BY <2>2, <2>3 DEF TypeInv, QuoteInv
  <2>6. tokens' \subseteq Tokens /\ shown' \subseteq [user : Users, order : OrderIds]
    BY <1>0, <1>2, <2>2, <2>3, <2>4 DEF TypeInv, TypeOK
  <2> QED
    BY <2>3, <2>5, <2>6, CallStepKeepsTypes DEF TypeInv, TypeOK
<1>7. CASE StatusArrives(c) \/ CallFails(c)
  <2>1. /\ calls' = [calls EXCEPT ![c] = NoCall]
        /\ UNCHANGED <<now, active, lastActive, orders, connection, assetCache, tokens, shown>>
    BY <1>7 DEF StatusArrives, CallFails, provider, answers
  <2> QED
    BY <1>0, <2>1, CallStepKeepsTypes DEF TypeInv, TypeOK, QuoteInv
<1> QED
  BY <1>3, <1>4, <1>5, <1>6, <1>7

\* Every step keeps the types.
LEMMA NextTypeInv == TypeInv /\ [Next]_vars => TypeInv'
<1> SUFFICES ASSUME TypeInv, [Next]_vars PROVE TypeInv'
  OBVIOUS
<1>1. CASE \E s \in shown : FundFromVault(s)
  BY <1>1 DEF FundFromVault, TypeInv, TypeOK, QuoteInv, HasQuote, NamesAssets, provider, answers
<1>2. CASE UNCHANGED vars
  BY <1>2 DEF vars, TypeInv, TypeOK, QuoteInv, HasQuote, NamesAssets, provider, answers
<1> QED
  BY <1>1, <1>2, SurroundingsKeepTypes, StartsKeepTypes, AnswersKeepTypes DEF Next

\* TypeInv is an invariant.
LEMMA TypeInvCorrect == Spec => []TypeInv
BY InitTypeInv, NextTypeInv, PTL DEF Spec

\* The provider's and the server's state keep their types, for any constants.
THEOREM TypeCorrect == Spec => []TypeOK
<1>1. TypeInv => TypeOK
  BY DEF TypeInv
<1> QED
  BY <1>1, TypeInvCorrect, PTL

-----------------------------------------------------------------------------
\* Orders are made of quotes.

\* Only ProviderOrders makes orders.
LEMMA OrderSteps ==
  [Next]_vars => orders' = orders \/ \E c \in Calls : ProviderOrders(c)
BY DEF Next, vars, provider, Tick, Relist, Reconnect, Restart, ListSwapAssets,
       GetSwapQuote, CreateSwapOrder, GetSwapStatus, Starts, SecondLookup, ListArrives, EstimateArrives,
       OrderArrives, StatusArrives, CallFails, FundFromVault

\* No order is made but for a quote of its user, on its terms, begun while it held.
THEOREM OrdersCorrect == Spec => OrdersKeepTheirQuotes
<1>1. TypeInv /\ [Next]_vars =>
        \A o \in orders' \ orders : \E c \in Calls, t \in tokens :
          /\ At(c, "order") /\ calls'[c] # calls[c]
          /\ t.kind = "quote" /\ t.user = o.user /\ t.from = o.from /\ t.to = o.to
          /\ calls[c].began < t.until
  <2> SUFFICES ASSUME TypeInv, [Next]_vars, NEW o \in orders' \ orders
               PROVE  \E c \in Calls, t \in tokens :
                        /\ At(c, "order") /\ calls'[c] # calls[c]
                        /\ t.kind = "quote" /\ t.user = o.user /\ t.from = o.from
                        /\ t.to = o.to /\ calls[c].began < t.until
    OBVIOUS
  <2>1. PICK c \in Calls : ProviderOrders(c)
    BY OrderSteps
  <2>0. PICK id \in OrderIds :
          /\ orders' = orders \cup
               {[id |-> id, user |-> calls[c].user, from |-> calls[c].from,
                 to |-> calls[c].to, payout |-> SwapAddress(calls[c].wallet, calls[c].to),
                 refund |-> SwapAddress(calls[c].wallet, calls[c].from)]}
          /\ calls' = [calls EXCEPT ![c] =
                          KnowingCall(calls[c].user, "ordered", calls[c].deadline, id)]
    BY <2>1 DEF ProviderOrders, KnowingCall
  <2>2. o.user = calls[c].user /\ o.from = calls[c].from /\ o.to = calls[c].to
    BY <2>0
  <2>3. /\ calls[c] # NoCall /\ calls[c].stage = "order" /\ calls[c] \in CallTypes
        /\ HasQuote(calls[c])
    BY <2>1 DEF ProviderOrders, At, TypeInv, TypeOK, QuoteInv
  <2>4. calls[c].user \in Users /\ calls[c].deadline \in Nat
    BY <2>3 DEF CallTypes
  <2>5. calls'[c].stage = "ordered"
    BY <2>0, <2>4, KnowingCallFacts DEF TypeInv, TypeOK, Stages
  <2>6. calls'[c] # calls[c] /\ At(c, "order")
    BY <2>3, <2>5 DEF At
  <2> QED
    BY <2>2, <2>3, <2>6 DEF HasQuote
<1> QED
  BY <1>1, TypeInvCorrect, PTL DEF Spec, OrdersKeepTheirQuotes

-----------------------------------------------------------------------------
\* Whose an order is, and its one deposit.

\* The provider has the order, and made it for this user.
OrderOf(user, id) ==
  /\ \E o \in orders : o.id = id
  /\ \A o \in orders : o.id = id => o.user = user

\* Whatever names an order names one of its own user's, and a user has one transfer per key.
OwnInv ==
  /\ \A t \in tokens : t.order # NoOrder => OrderOf(t.user, t.order)
  /\ \A c \in Calls : calls[c] # NoCall /\ calls[c].order # NoOrder
                        => OrderOf(calls[c].user, calls[c].order)
  /\ \A s \in shown : OrderOf(s.user, s.order)
  /\ \A i \in intents : i.key = i.recipient /\ OrderOf(i.user, i.recipient)
  /\ \A i \in intents, j \in intents : i.user = j.user /\ i.key = j.key => i = j

\* What ProviderOrders does, with the order it makes.
LEMMA ProviderOrdersFacts ==
  ASSUME TypeInv, NEW c \in Calls, ProviderOrders(c)
  PROVE  \E id \in OrderIds, o \in Orders :
           /\ \A p \in orders : p.id # id
           /\ o.id = id /\ o.user = calls[c].user
           /\ orders' = orders \cup {o}
           /\ calls' = [calls EXCEPT ![c] =
                          KnowingCall(calls[c].user, "ordered", calls[c].deadline, id)]
           /\ UNCHANGED <<tokens, shown, intents>>
           /\ NamesAssets(calls[c]) /\ calls[c].wallet \in Wallets
           /\ o.from = calls[c].from /\ o.to = calls[c].to
           /\ o.payout = SwapAddress(calls[c].wallet, calls[c].to)
           /\ o.refund = SwapAddress(calls[c].wallet, calls[c].from)
<1>1. PICK id \in OrderIds \ {o.id : o \in orders} :
        /\ orders' = orders \cup
             {[id |-> id, user |-> calls[c].user, from |-> calls[c].from,
               to |-> calls[c].to, payout |-> SwapAddress(calls[c].wallet, calls[c].to),
               refund |-> SwapAddress(calls[c].wallet, calls[c].from)]}
        /\ calls' = [calls EXCEPT ![c] =
                        KnowingCall(calls[c].user, "ordered", calls[c].deadline, id)]
  BY DEF ProviderOrders, KnowingCall
<1>2. /\ calls[c] # NoCall /\ calls[c].stage = "order" /\ calls[c] \in CallTypes
      /\ HasQuote(calls[c])
  BY DEF ProviderOrders, At, TypeInv, TypeOK, QuoteInv
<1>3. calls[c].user \in Users /\ NamesAssets(calls[c]) /\ calls[c].wallet \in Wallets
  BY <1>2 DEF CallTypes, HasQuote
<1>4. /\ SwapAddress(calls[c].wallet, calls[c].to) \in SwapAddresses
      /\ SwapAddress(calls[c].wallet, calls[c].from) \in SwapAddresses
  BY <1>3, AddressFacts DEF NamesAssets
<1> PICK o : o = [id |-> id, user |-> calls[c].user, from |-> calls[c].from,
                  to |-> calls[c].to, payout |-> SwapAddress(calls[c].wallet, calls[c].to),
                  refund |-> SwapAddress(calls[c].wallet, calls[c].from)]
  OBVIOUS
<1>5. /\ o \in Orders /\ o.id = id /\ o.user = calls[c].user
      /\ o.from = calls[c].from /\ o.to = calls[c].to
      /\ o.payout = SwapAddress(calls[c].wallet, calls[c].to)
      /\ o.refund = SwapAddress(calls[c].wallet, calls[c].from)
  BY <1>3, <1>4 DEF Orders, NamesAssets
<1>6. orders' = orders \cup {o}
  BY <1>1
<1>7. \A p \in orders : p.id # id
  BY <1>1
<1>8. UNCHANGED <<tokens, shown, intents>>
  BY DEF ProviderOrders, answers
<1> QED
  BY <1>1, <1>3, <1>5, <1>6, <1>7, <1>8

\* What FundFromVault does, with the transfer it prepares.
LEMMA FundingFacts ==
  ASSUME NEW s \in shown, FundFromVault(s)
  PROVE  \E i :
           /\ i.user = s.user /\ i.key = s.order /\ i.recipient = s.order
           /\ \A j \in intents : <<j.user, j.key>> # <<i.user, i.key>>
           /\ intents' = intents \cup {i}
           /\ \E o \in orders : /\ o.id = s.order
                                /\ \E route \in FundingRoutes(o.from) :
                                     i.network = route.network /\ i.token = route.token
<1>1. PICK o \in orders : o.id = s.order /\ \E route \in FundingRoutes(o.from) :
        LET i == [user |-> s.user, key |-> o.id, recipient |-> o.id,
                  network |-> route.network, token |-> route.token]
        IN /\ \A j \in intents : <<j.user, j.key>> # <<i.user, i.key>>
           /\ intents' = intents \cup {i}
  BY DEF FundFromVault, DepositKey
<1>2. PICK route \in FundingRoutes(o.from) :
        LET i == [user |-> s.user, key |-> o.id, recipient |-> o.id,
                  network |-> route.network, token |-> route.token]
        IN /\ \A j \in intents : <<j.user, j.key>> # <<i.user, i.key>>
           /\ intents' = intents \cup {i}
  BY <1>1
<1> PICK i : i = [user |-> s.user, key |-> o.id, recipient |-> o.id,
                  network |-> route.network, token |-> route.token]
  OBVIOUS
<1>3. /\ i.user = s.user /\ i.key = s.order /\ i.recipient = s.order
      /\ i.network = route.network /\ i.token = route.token
  BY <1>1
<1>4. /\ \A j \in intents : <<j.user, j.key>> # <<i.user, i.key>>
      /\ intents' = intents \cup {i}
  BY <1>2
<1> QED
  BY <1>1, <1>3, <1>4

\* An order stays its user's.
LEMMA OrderOfStays ==
  ASSUME TypeInv, [Next]_vars, NEW user, NEW id, OrderOf(user, id)
  PROVE  OrderOf(user, id)'
<1>1. CASE orders' = orders
  BY <1>1 DEF OrderOf
<1>2. ASSUME NEW c \in Calls, ProviderOrders(c)
      PROVE  OrderOf(user, id)'
  <2>1. PICK o : orders' = orders \cup {o} /\ \A p \in orders : p.id # o.id
    BY <1>2, ProviderOrdersFacts
  <2> QED
    BY <2>1 DEF OrderOf
<1> QED
  BY <1>1, <1>2, OrderSteps

\* A step that changes one call, signs at most a token, and shows at most an order.
LEMMA CallStepKeepsOwn ==
  ASSUME TypeInv, OwnInv, [Next]_vars, NEW c \in Calls, NEW x,
         calls' = [calls EXCEPT ![c] = x],
         x # NoCall /\ x.order # NoOrder => OrderOf(x.user, x.order)',
         \A t \in tokens' \ tokens : t.order # NoOrder => OrderOf(t.user, t.order)',
         \A s \in shown' \ shown : OrderOf(s.user, s.order)', intents' = intents
  PROVE  OwnInv'
<1>1. \A t \in tokens' : t.order # NoOrder => OrderOf(t.user, t.order)'
  BY OrderOfStays DEF OwnInv
<1>2. \A d \in Calls : calls'[d] # NoCall /\ calls'[d].order # NoOrder
                         => OrderOf(calls[d].user, calls[d].order)'
  <2> SUFFICES ASSUME NEW d \in Calls, calls'[d] # NoCall, calls'[d].order # NoOrder
               PROVE  OrderOf(calls[d].user, calls[d].order)'
    OBVIOUS
  <2>1. CASE d = c
    <3>1. calls'[d] = x
      BY <2>1 DEF TypeInv, TypeOK
    <3> QED
      BY <3>1 DEF OrderOf
  <2>2. CASE d # c
    <3>1. calls'[d] = calls[d]
      BY <2>2 DEF TypeInv, TypeOK
    <3>2. OrderOf(calls[d].user, calls[d].order)
      BY <3>1 DEF OwnInv
    <3> PICK user, id : user = calls[d].user /\ id = calls[d].order
      OBVIOUS
    <3>3. OrderOf(user, id)'
      BY <3>2, OrderOfStays
    <3> QED
      BY <3>1, <3>3 DEF OrderOf
  <2> QED
    BY <2>1, <2>2
<1>3. \A s \in shown' : OrderOf(s.user, s.order)'
  BY OrderOfStays DEF OwnInv
<1>4. \A i \in intents' : i.key = i.recipient /\ OrderOf(i.user, i.recipient)'
  BY OrderOfStays DEF OwnInv
<1> QED
  BY <1>1, <1>2, <1>3, <1>4 DEF OwnInv

\* Steps that change no order, no token and no transfer, and calls only to forget them.
LEMMA OtherStepsKeepOwn ==
  ASSUME TypeInv, OwnInv, UNCHANGED <<orders, tokens, shown, intents>>,
         \A c \in Calls : calls'[c] \in {calls[c], NoCall}
  PROVE  OwnInv'
BY DEF OwnInv, OrderOf

\* Every step keeps orders their users'.
LEMMA NextOwnInv == TypeInv /\ OwnInv /\ [Next]_vars => OwnInv'
<1> SUFFICES ASSUME TypeInv, OwnInv, [Next]_vars PROVE OwnInv'
  OBVIOUS
<1>0. /\ now \in Time /\ Later(RequestTimeout) \in Nat /\ active \subseteq Assets
      /\ tokens \subseteq Tokens
  BY Constants, LaterFacts DEF TypeInv, TypeOK
<1>1. CASE UNCHANGED vars \/ Tick \/ Relist \/ Reconnect \/ Restart \/ ListSwapAssets
  BY <1>1, OtherStepsKeepOwn
     DEF vars, provider, answers, Tick, Relist, Reconnect, Restart, ListSwapAssets
<1>2. ASSUME NEW c \in Calls, StatusArrives(c) \/ CallFails(c)
      PROVE  OwnInv'
  <2>1. calls' = [calls EXCEPT ![c] = NoCall] /\ UNCHANGED <<orders, tokens, shown, intents>>
    BY <1>2 DEF StatusArrives, CallFails, provider, answers
  <2>2. \A d \in Calls : calls'[d] \in {calls[d], NoCall}
    BY <2>1 DEF TypeInv, TypeOK
  <2> QED
    BY <2>1, <2>2, OtherStepsKeepOwn
<1>3. ASSUME NEW c \in Calls, NEW x, Starts(c, x),
             x # NoCall /\ x.order # NoOrder => OrderOf(x.user, x.order)
      PROVE  OwnInv'
  <2>1. /\ calls' = [calls EXCEPT ![c] = x]
        /\ UNCHANGED <<orders, tokens, shown, intents>>
    BY <1>3 DEF Starts, provider, answers
  <2>2. x # NoCall /\ x.order # NoOrder => OrderOf(x.user, x.order)'
    BY <1>3, <2>1 DEF OrderOf
  <2> QED
    BY <2>1, <2>2, CallStepKeepsOwn
<1>4. ASSUME NEW c \in Calls, NEW u \in Users, GetSwapQuote(c, u)
      PROVE  OwnInv'
  <2>1. PICK pair \in Pairs :
          LET call == QuoteCall(u, pair)
          IN Starts(c, IF CacheIsFresh THEN FindsFrom(call, assetCache.assets)
                       ELSE AsksForList(call, "list"))
    BY <1>4 DEF GetSwapQuote, QuoteCall
  <2> PICK call : call = QuoteCall(u, pair)
    OBVIOUS
  <2>2. call \in CallTypes /\ call.order = NoOrder
    BY <1>0, QuoteCallFacts
  <2> PICK x : x = IF CacheIsFresh THEN FindsFrom(call, assetCache.assets)
                   ELSE AsksForList(call, "list")
    OBVIOUS
  <2>3. x # NoCall => x.order = NoOrder
    BY <1>0, <2>2, LookupsMove, MovedFacts
  <2> QED
    BY <1>3, <2>1, <2>3
<1>5. ASSUME NEW c \in Calls, NEW u \in Users, CreateSwapOrder(c, u)
      PROVE  OwnInv'
  <2>1. PICK t \in tokens :
          /\ QuoteHolds(t, u) /\ t.from # NoAsset
          /\ Starts(c, OrderCall(u, t.from, t.to, connection[u]))
    BY <1>5 DEF CreateSwapOrder, OrderCall
  <2>2. NamesAssets(t) /\ connection[u] \in Wallets
    BY <1>5, <2>1, AcceptedFacts DEF CreateSwapOrder, Connected, TypeInv, TypeOK
  <2> PICK x : x = OrderCall(u, t.from, t.to, connection[u])
    OBVIOUS
  <2>3. x.order = NoOrder
    BY <1>0, <2>2, OrderCallFacts DEF NamesAssets
  <2> QED
    BY <1>3, <2>1, <2>3
<1>6. ASSUME NEW c \in Calls, NEW u \in Users, GetSwapStatus(c, u)
      PROVE  OwnInv'
  <2>1. PICK t \in tokens :
          /\ t.user = u
          /\ Starts(c, KnowingCall(u, "status", Later(RequestTimeout), t.order))
    BY <1>6 DEF GetSwapStatus, ReferenceHolds, KnowingCall
  <2>2. t.order \in OrderIds \cup {NoOrder}
    BY <1>0 DEF Tokens
  <2> PICK x : x = KnowingCall(u, "status", Later(RequestTimeout), t.order)
    OBVIOUS
  <2>3. x.user = u /\ x.order = t.order
    BY <1>0, <2>2, KnowingCallFacts DEF Stages
  <2>4. x.order # NoOrder => OrderOf(x.user, x.order)
    BY <2>1, <2>3 DEF OwnInv
  <2> QED
    BY <1>3, <2>1, <2>4
<1>7. ASSUME NEW c \in Calls, ListArrives(c) \/ SecondLookup(c)
      PROVE  OwnInv'
  <2>0. UNCHANGED <<orders, tokens, shown, intents>>
    BY <1>7 DEF ListArrives, SecondLookup, provider, answers
  <2>1. PICK x \in Moved(calls[c]) : calls' = [calls EXCEPT ![c] = x]
    BY <1>7, LookupsMove DEF ListArrives, SecondLookup
  <2>2. calls[c] # NoCall /\ calls[c] \in CallTypes
    BY <1>7 DEF ListArrives, SecondLookup, At, TypeInv, TypeOK
  <2>3. x # NoCall => x.order = calls[c].order /\ x.user = calls[c].user
    BY <1>0, <2>2, MovedFacts
  <2>4. x # NoCall /\ x.order # NoOrder => OrderOf(x.user, x.order)
    BY <2>2, <2>3 DEF OwnInv
  <2>5. x # NoCall /\ x.order # NoOrder => OrderOf(x.user, x.order)'
    BY <2>0, <2>4 DEF OrderOf
  <2> QED
    BY <2>0, <2>1, <2>5, CallStepKeepsOwn
<1>8. ASSUME NEW c \in Calls, EstimateArrives(c)
      PROVE  OwnInv'
  <2> PICK q : q = Quote(calls[c].user, calls[c].from, calls[c].to)
    OBVIOUS
  <2>1. /\ calls' = [calls EXCEPT ![c] = NoCall] /\ tokens' = tokens \cup {q}
        /\ UNCHANGED <<orders, shown, intents>>
    BY <1>8 DEF EstimateArrives, provider
  <2>2. q.order = NoOrder
    BY DEF Quote
  <2> QED
    BY <2>1, <2>2, CallStepKeepsOwn
<1>9. ASSUME NEW c \in Calls, ProviderOrders(c)
      PROVE  OwnInv'
  <2>1. PICK id \in OrderIds, o \in Orders :
          /\ \A p \in orders : p.id # id
          /\ o.id = id /\ o.user = calls[c].user
          /\ orders' = orders \cup {o}
          /\ calls' = [calls EXCEPT ![c] =
                         KnowingCall(calls[c].user, "ordered", calls[c].deadline, id)]
          /\ UNCHANGED <<tokens, shown, intents>>
    BY <1>9, ProviderOrdersFacts
  <2>2. calls[c].user \in Users /\ calls[c].deadline \in Nat
    BY <1>9 DEF ProviderOrders, At, TypeInv, TypeOK, CallTypes
  <2> PICK x : x = KnowingCall(calls[c].user, "ordered", calls[c].deadline, id)
    OBVIOUS
  <2>3. x.user = o.user /\ x.order = id
    BY <2>1, <2>2, KnowingCallFacts DEF Stages
  <2>4. OrderOf(x.user, x.order)'
    BY <2>1, <2>3 DEF OrderOf
  <2> QED
    BY <2>1, <2>4, CallStepKeepsOwn
<1>10. ASSUME NEW c \in Calls, OrderArrives(c)
       PROVE  OwnInv'
  <2> PICK t, s :
         /\ t = [kind |-> "reference", user |-> calls[c].user, from |-> NoAsset,
                 to |-> NoAsset, order |-> calls[c].order, issued |-> 0,
                 until |-> Later(ReferenceTtl)]
         /\ s = [user |-> calls[c].user, order |-> calls[c].order]
    OBVIOUS
  <2>1. /\ calls' = [calls EXCEPT ![c] = NoCall] /\ tokens' = tokens \cup {t}
        /\ shown' = shown \cup {s} /\ UNCHANGED <<orders, intents>>
    BY <1>10 DEF OrderArrives, provider
  <2>2. calls[c] # NoCall /\ calls[c].order \in OrderIds
    BY <1>10 DEF OrderArrives, At, TypeInv, QuoteInv, HasQuote
  <2>3. OrderOf(calls[c].user, calls[c].order)
    BY <2>2, Constants DEF OwnInv
  <2>4. OrderOf(t.user, t.order)' /\ OrderOf(s.user, s.order)'
    BY <2>1, <2>3 DEF OrderOf
  <2> QED
    BY <2>1, <2>4, CallStepKeepsOwn
<1>11. ASSUME NEW s \in shown, FundFromVault(s)
       PROVE  OwnInv'
  <2>1. PICK i : /\ i.user = s.user /\ i.key = s.order /\ i.recipient = s.order
                 /\ \A j \in intents : <<j.user, j.key>> # <<i.user, i.key>>
                 /\ intents' = intents \cup {i}
    BY <1>11, FundingFacts
  <2>2. UNCHANGED <<orders, tokens, shown, calls>>
    BY <1>11 DEF FundFromVault, provider, answers
  <2>3. OrderOf(i.user, i.recipient)
    BY <2>1 DEF OwnInv
  <2>4. \A j \in intents' : j.key = j.recipient /\ OrderOf(j.user, j.recipient)'
    BY <2>1, <2>2, <2>3 DEF OwnInv, OrderOf
  <2>5. \A j \in intents', k \in intents' : j.user = k.user /\ j.key = k.key => j = k
    BY <2>1 DEF OwnInv
  <2>6. /\ \A t \in tokens' : t.order # NoOrder => OrderOf(t.user, t.order)'
        /\ \A c \in Calls : calls'[c] # NoCall /\ calls'[c].order # NoOrder
                              => OrderOf(calls[c].user, calls[c].order)'
        /\ \A r \in shown' : OrderOf(r.user, r.order)'
    BY <2>2 DEF OwnInv, OrderOf
  <2> QED
    BY <2>4, <2>5, <2>6 DEF OwnInv
<1> QED
  BY <1>1, <1>2, <1>4, <1>5, <1>6, <1>7, <1>8, <1>9, <1>10, <1>11 DEF Next

\* Nothing is owned at first.
LEMMA InitOwnInv == Init => OwnInv
BY DEF Init, OwnInv

\* OwnInv is an invariant.
LEMMA OwnCorrect == Spec => []OwnInv
BY InitOwnInv, NextOwnInv, TypeInvCorrect, PTL DEF Spec

\* The status of an order is only asked for its own user, whatever token is sent.
THEOREM StatusesCorrect == Spec => []StatusesAreOfOwnOrders
<1>1. TypeInv /\ OwnInv => StatusesAreOfOwnOrders
  <2> SUFFICES ASSUME TypeInv, OwnInv, NEW c \in Calls, At(c, "status"), NEW o \in orders,
                      o.id = calls[c].order
               PROVE  o.user = calls[c].user
    BY DEF StatusesAreOfOwnOrders
  <2>1. o.id # NoOrder
    BY Constants DEF TypeInv, TypeOK, Orders
  <2> QED
    BY <2>1 DEF OwnInv, At, OrderOf
<1> QED
  BY <1>1, TypeInvCorrect, OwnCorrect, PTL

\* One order has one deposit, however often and from wherever it is asked for.
THEOREM DepositsCorrect == Spec => []OneDepositPerOrder
<1>1. OwnInv => OneDepositPerOrder
  BY DEF OwnInv, OneDepositPerOrder, OrderOf
<1> QED
  BY <1>1, OwnCorrect, PTL

-----------------------------------------------------------------------------
\* The tables of the server and of the widget.

\* Where both know a network, they take the Vault's same address for it.
LEMMA FieldsAgree ==
  ASSUME NEW n \in DOMAIN SwapFundingNetworks, n \in DOMAIN SwapAddressField
  PROVE  LiveNetworks[SwapFundingNetworks[n].network].field = SwapAddressField[n]
<1>1. n \in {"cspr", "sol", "near", "matic", "arbitrum", "base", "op", "bsc", "avaxc"}
  BY DEF SwapFundingNetworks, SwapAddressField
<1>2. CASE n \in {"cspr", "sol", "near"}
  BY <1>2 DEF SwapFundingNetworks, SwapAddressField, LiveNetworks
<1>3. CASE n \in {"matic", "arbitrum", "base"}
  BY <1>3 DEF SwapFundingNetworks, SwapAddressField, LiveNetworks
<1>4. CASE n \in {"op", "bsc", "avaxc"}
  BY <1>4 DEF SwapFundingNetworks, SwapAddressField, LiveNetworks
<1> QED
  BY <1>1, <1>2, <1>3, <1>4

\* The tickers the widget pays in the native asset are those of the wallet's network.
LEMMA TickersAgree ==
  ASSUME NEW n \in DOMAIN SwapFundingNetworks
  PROVE  NativeTickers[n] \subseteq LiveNetworks[SwapFundingNetworks[n].network].native
<1>1. n \in {"cspr", "sol", "near", "aptos", "matic", "arbitrum", "base", "op", "bsc",
             "avaxc"}
  BY DEF SwapFundingNetworks
<1>2. CASE n \in {"cspr", "sol", "near", "aptos"}
  BY <1>2 DEF SwapFundingNetworks, NativeTickers, LiveNetworks
<1>3. CASE n \in {"matic", "arbitrum", "base"}
  BY <1>3 DEF SwapFundingNetworks, NativeTickers, LiveNetworks
<1>4. CASE n \in {"op", "bsc", "avaxc"}
  BY <1>4 DEF SwapFundingNetworks, NativeTickers, LiveNetworks
<1> QED
  BY <1>1, <1>2, <1>3, <1>4

\* The addresses of an order are one wallet's, for assets the Vault has addresses for.
PayInv ==
  \A o \in orders : \E w \in Wallets :
    /\ NamesAssets(o)
    /\ o.payout = SwapAddress(w, o.to) /\ o.refund = SwapAddress(w, o.from)

\* What is paid out and what is paid back goes to one wallet, to the address it has there.
THEOREM PayCorrect == Spec => []OrdersPayTheVault
<1>1. Init => PayInv
  BY DEF Init, PayInv
<1>2. TypeInv /\ PayInv /\ [Next]_vars => PayInv'
  <2> SUFFICES ASSUME TypeInv, PayInv, [Next]_vars PROVE PayInv'
    OBVIOUS
  <2>1. CASE orders' = orders
    BY <2>1 DEF PayInv, NamesAssets
  <2>2. ASSUME NEW c \in Calls, ProviderOrders(c)
        PROVE  PayInv'
    <3>1. PICK o : /\ orders' = orders \cup {o}
                   /\ NamesAssets(calls[c]) /\ calls[c].wallet \in Wallets
                   /\ o.from = calls[c].from /\ o.to = calls[c].to
                   /\ o.payout = SwapAddress(calls[c].wallet, calls[c].to)
                   /\ o.refund = SwapAddress(calls[c].wallet, calls[c].from)
      BY <2>2, ProviderOrdersFacts
    <3>2. NamesAssets(o)
      BY <3>1 DEF NamesAssets
    <3>3. \E w \in Wallets : o.payout = SwapAddress(w, o.to) /\ o.refund = SwapAddress(w, o.from)
      BY <3>1
    <3> QED
      BY <3>1, <3>2, <3>3 DEF PayInv, NamesAssets
  <2> QED
    BY <2>1, <2>2, OrderSteps
<1>3. PayInv => OrdersPayTheVault
  <2> SUFFICES ASSUME PayInv, NEW o \in orders
               PROVE  /\ o.payout[1] = o.refund[1]
                      /\ \A a \in {o.from, o.to} : a.network \in DOMAIN SwapFundingNetworks =>
                           LiveNetworks[SwapFundingNetworks[a.network].network].field
                             \in IF a = o.from THEN {o.refund[2]} ELSE {o.payout[2]}
    BY DEF OrdersPayTheVault
  <2>1. PICK w \in Wallets : /\ NamesAssets(o)
                             /\ o.payout = <<w, SwapAddressField[o.to.network]>>
                             /\ o.refund = <<w, SwapAddressField[o.from.network]>>
    BY DEF PayInv, SwapAddress
  <2>2. ASSUME NEW a \in {o.from, o.to}, a.network \in DOMAIN SwapFundingNetworks
        PROVE  LiveNetworks[SwapFundingNetworks[a.network].network].field
                 = SwapAddressField[a.network]
    BY <2>1, <2>2, FieldsAgree DEF NamesAssets, Mapped
  <2> QED
    BY <2>1, <2>2
<1> QED
  BY <1>1, <1>2, <1>3, TypeInvCorrect, PTL DEF Spec

\* A deposit has the route of its order's asset.
DepositInv ==
  \A i \in intents : \E o \in orders :
    /\ o.id = i.recipient /\ o.user = i.user
    /\ \E route \in FundingRoutes(o.from) : i.network = route.network /\ i.token = route.token

\* A deposit is sent in the ordered asset, on its network.
THEOREM DepositAssetsCorrect == Spec => []DepositsAreOfTheOrderedAsset
<1>1. Init => DepositInv
  BY DEF Init, DepositInv
<1>2. TypeInv /\ OwnInv /\ DepositInv /\ [Next]_vars => DepositInv'
  <2> SUFFICES ASSUME TypeInv, OwnInv, DepositInv, [Next]_vars PROVE DepositInv'
    OBVIOUS
  <2>1. orders \subseteq orders'
    BY OrderSteps, ProviderOrdersFacts
  <2>2. CASE intents' = intents
    BY <2>1, <2>2 DEF DepositInv
  <2>3. ASSUME NEW s \in shown, FundFromVault(s)
        PROVE  DepositInv'
    <3>1. PICK i : /\ i.user = s.user /\ i.recipient = s.order
                   /\ intents' = intents \cup {i}
                   /\ \E o \in orders : /\ o.id = s.order
                                        /\ \E route \in FundingRoutes(o.from) :
                                             i.network = route.network /\ i.token = route.token
      BY <2>3, FundingFacts
    <3>2. \A o \in orders : o.id = s.order => o.user = s.user
      BY DEF OwnInv, OrderOf
    <3> QED
      BY <2>1, <3>1, <3>2 DEF DepositInv
  <2> QED
    BY <2>2, <2>3 DEF Next, vars, provider, answers, Tick, Relist, Reconnect, Restart,
       ListSwapAssets, GetSwapQuote, CreateSwapOrder, GetSwapStatus, Starts, SecondLookup, ListArrives,
       EstimateArrives, ProviderOrders, OrderArrives, StatusArrives, CallFails
<1>3. DepositInv => DepositsAreOfTheOrderedAsset
  <2> SUFFICES ASSUME DepositInv, NEW i \in intents
               PROVE  \E o \in orders :
                        /\ o.id = i.recipient /\ o.user = i.user
                        /\ SwapFundingNetworks[o.from.network].network = i.network
                        /\ o.from.ticker \in IF i.token = "USDC" THEN {"usdc"}
                                             ELSE LiveNetworks[i.network].native
    BY DEF DepositsAreOfTheOrderedAsset
  <2>1. PICK o \in orders : /\ o.id = i.recipient /\ o.user = i.user
                            /\ \E route \in FundingRoutes(o.from) :
                                 i.network = route.network /\ i.token = route.token
    BY DEF DepositInv
  <2>2. PICK route \in FundingRoutes(o.from) : i.network = route.network /\ i.token = route.token
    BY <2>1
  <2>3. /\ o.from.network \in DOMAIN SwapFundingNetworks
        /\ route.network = SwapFundingNetworks[o.from.network].network
        /\ route.token \in FundingTokens(o.from, SwapFundingNetworks[o.from.network].tool)
    BY <2>2 DEF FundingRoutes
  <2>4. \/ route.token = "NATIVE" /\ o.from.ticker \in NativeTickers[o.from.network]
        \/ route.token = "USDC" /\ o.from.ticker = "usdc"
    BY <2>3 DEF FundingTokens
  <2>5. NativeTickers[o.from.network]
          \subseteq LiveNetworks[SwapFundingNetworks[o.from.network].network].native
    BY <2>3, TickersAgree
  <2> QED
    BY <2>1, <2>2, <2>3, <2>4, <2>5
<1> QED
  BY <1>1, <1>2, <1>3, TypeInvCorrect, OwnCorrect, PTL DEF Spec
-----------------------------------------------------------------------------
\* How old what a quote rests on can be.

\* A call is under way no longer than its deadline, and that is near the moment at which
\* the assets in its hands were last offered.
FreshCall(x) ==
  /\ now <= x.deadline
  /\ x.stage \in {"list", "relist"} =>
       \A a \in x.seen : x.deadline <= lastActive[a] + RequestTimeout
  /\ x.stage = "second" => x.deadline <= lastActive[x.from] + AssetCacheTtl + RequestTimeout
  /\ x.stage = "relist" =>
       x.deadline <= lastActive[x.from] + AssetCacheTtl + 2 * RequestTimeout
  /\ x.stage = "estimate" =>
       /\ x.deadline <= lastActive[x.from] + AssetCacheTtl + 3 * RequestTimeout
       /\ x.deadline < lastActive[x.to] + AssetCacheTtl + 2 * RequestTimeout

\* The cached list was right at most one request before its lifetime began.
FreshCache ==
  assetCache # NoCache => \A a \in assetCache.assets :
    assetCache.until <= lastActive[a] + RequestTimeout + AssetCacheTtl

FreshInv ==
  /\ \A a \in Assets : lastActive[a] <= now /\ (a \in active => lastActive[a] = now)
  /\ FreshCache
  /\ \A c \in Calls : calls[c] # NoCall => FreshCall(calls[c])

\* What is fresh stays so while its deadline is not passed.
LEMMA FreshCallStays ==
  ASSUME TypeInv, TypeOK', \A a \in Assets : lastActive[a] <= lastActive'[a],
         NEW x \in CallTypes, HasQuote(x), FreshCall(x), now' <= x.deadline
  PROVE  FreshCall(x)'
<1>1. /\ RequestTimeout \in Nat /\ AssetCacheTtl \in Nat
      /\ \A a \in Assets : lastActive[a] \in Nat /\ lastActive'[a] \in Nat
      /\ x.deadline \in Nat /\ x.seen \subseteq Assets
  BY Constants DEF TypeInv, TypeOK, Time, CallTypes
<1>2. x.stage \in {"list", "relist"} =>
        \A a \in x.seen : x.deadline <= lastActive'[a] + RequestTimeout
  BY <1>1 DEF FreshCall
<1>3. x.stage \in {"second", "relist", "estimate"} =>
        /\ lastActive[x.from] \in Nat /\ lastActive'[x.from] \in Nat
        /\ lastActive[x.from] <= lastActive'[x.from]
        /\ lastActive[x.to] \in Nat /\ lastActive'[x.to] \in Nat
        /\ lastActive[x.to] <= lastActive'[x.to]
  BY <1>1 DEF HasQuote, NamesAssets
<1>4. /\ x.stage = "second" =>
           x.deadline <= lastActive'[x.from] + AssetCacheTtl + RequestTimeout
      /\ x.stage = "relist" =>
           x.deadline <= lastActive'[x.from] + AssetCacheTtl + 2 * RequestTimeout
  BY <1>1, <1>3 DEF FreshCall
<1>5. x.stage = "estimate" =>
        /\ x.deadline <= lastActive'[x.from] + AssetCacheTtl + 3 * RequestTimeout
        /\ x.deadline < lastActive'[x.to] + AssetCacheTtl + 2 * RequestTimeout
  BY <1>1, <1>3 DEF FreshCall
<1> QED
  BY <1>2, <1>4, <1>5 DEF FreshCall

\* A cached list stays as fresh as it was.
LEMMA FreshCacheStays ==
  ASSUME TypeInv, TypeOK', FreshCache, assetCache' \in {assetCache, NoCache},
         \A a \in Assets : lastActive[a] <= lastActive'[a]
  PROVE  FreshCache'
<1>1. /\ RequestTimeout \in Nat /\ AssetCacheTtl \in Nat
      /\ \A a \in Assets : lastActive[a] \in Nat /\ lastActive'[a] \in Nat
  BY Constants DEF TypeInv, TypeOK, Time
<1> SUFFICES ASSUME assetCache' # NoCache, NEW a \in assetCache'.assets
             PROVE  assetCache'.until <= lastActive'[a] + RequestTimeout + AssetCacheTtl
  BY DEF FreshCache
<1>2. assetCache' = assetCache /\ a \in Assets /\ assetCache.until \in Nat
  BY DEF TypeInv, TypeOK
<1>3. assetCache.until <= lastActive[a] + RequestTimeout + AssetCacheTtl
  BY <1>2 DEF FreshCache
<1> QED
  BY <1>1, <1>2, <1>3

\* A list of this moment, cached, is fresh.
LEMMA ListIsFresh ==
  ASSUME TypeInv, FreshInv
  PROVE  \A a \in active :
           /\ Later(RequestTimeout) <= lastActive[a] + RequestTimeout
           /\ Later(AssetCacheTtl) <= lastActive[a] + RequestTimeout + AssetCacheTtl
<1>1. RequestTimeout \in Nat /\ AssetCacheTtl \in Nat /\ now \in Time /\ now \in Nat
  BY Constants DEF TypeInv, TypeOK, Time
<1>2. \A a \in active : lastActive[a] = now
  BY DEF FreshInv, TypeInv, TypeOK
<1>3. Later(RequestTimeout) <= now + RequestTimeout /\ Later(AssetCacheTtl) <= now + AssetCacheTtl
  BY <1>1, LaterFacts
<1>4. Later(RequestTimeout) \in Nat /\ Later(AssetCacheTtl) \in Nat
  BY <1>1, LaterFacts
<1> QED
  BY <1>1, <1>2, <1>3, <1>4

\* A call that finds its first asset in a list looks for the second in time.
LEMMA FindsFromIsFresh ==
  ASSUME TypeInv, NEW call \in CallTypes, NEW list, FindsFrom(call, list) # NoCall,
         list \subseteq Assets,
         \A a \in list : now < lastActive[a] + RequestTimeout + AssetCacheTtl
  PROVE  FreshCall(FindsFrom(call, list))
<1>1. /\ RequestTimeout \in Nat /\ AssetCacheTtl \in Nat /\ now \in Time /\ now \in Nat
      /\ \A a \in Assets : lastActive[a] \in Nat
  BY Constants DEF TypeInv, TypeOK, Time
<1>2. PICK x : x = Moves(call, "second", 1, {}) /\ x = FindsFrom(call, list)
  BY DEF FindsFrom
<1>3. call.from \in list
  BY DEF FindsFrom
<1>4. x.stage = "second" /\ x.deadline = Later(1) /\ x.from = call.from
  BY <1>1, <1>2, MovesFacts DEF Stages
<1>5. Later(1) \in Nat /\ now <= Later(1) /\ Later(1) <= now + 1
  BY <1>1, LaterFacts
<1>6. x.deadline <= lastActive[x.from] + AssetCacheTtl + RequestTimeout
  BY <1>1, <1>3, <1>4, <1>5
<1>7. FreshCall(x)
  BY <1>4, <1>5, <1>6 DEF FreshCall
<1> QED
  BY <1>2, <1>7

\* A call that finds its second asset in a list asks for its estimate in time.
LEMMA FindsToIsFresh ==
  ASSUME TypeInv, NEW call \in CallTypes, NEW list, FindsTo(call, list) # NoCall,
         list \subseteq Assets, call.from \in Assets,
         now <= lastActive[call.from] + AssetCacheTtl + 2 * RequestTimeout,
         \A a \in list : now < lastActive[a] + RequestTimeout + AssetCacheTtl
  PROVE  FreshCall(FindsTo(call, list))
<1>1. /\ RequestTimeout \in Nat /\ AssetCacheTtl \in Nat /\ now \in Time /\ now \in Nat
      /\ \A a \in Assets : lastActive[a] \in Nat
  BY Constants DEF TypeInv, TypeOK, Time
<1>2. PICK x : x = Moves(call, "estimate", RequestTimeout, {}) /\ x = FindsTo(call, list)
  BY DEF FindsTo
<1>3. call.to \in list
  BY DEF FindsTo
<1>4. /\ x.stage = "estimate" /\ x.deadline = Later(RequestTimeout)
      /\ x.from = call.from /\ x.to = call.to
  BY <1>1, <1>2, MovesFacts DEF Stages
<1>5. /\ Later(RequestTimeout) \in Nat /\ now <= Later(RequestTimeout)
      /\ Later(RequestTimeout) <= now + RequestTimeout
  BY <1>1, LaterFacts
<1>6. x.deadline <= lastActive[x.from] + AssetCacheTtl + 3 * RequestTimeout
  BY <1>1, <1>4, <1>5
<1>7. x.deadline < lastActive[x.to] + AssetCacheTtl + 2 * RequestTimeout
  BY <1>1, <1>3, <1>4, <1>5
<1>8. FreshCall(x)
  BY <1>4, <1>5, <1>6, <1>7 DEF FreshCall
<1> QED
  BY <1>2, <1>8

\* A call that asks for a list is in time, if its first asset is not too old.
LEMMA AsksIsFresh ==
  ASSUME TypeInv, FreshInv, NEW call \in CallTypes, NEW stage \in {"list", "relist"},
         stage = "relist" =>
           /\ call.from \in Assets
           /\ now <= lastActive[call.from] + AssetCacheTtl + RequestTimeout
  PROVE  FreshCall(AsksForList(call, stage))
<1>1. /\ RequestTimeout \in Nat /\ AssetCacheTtl \in Nat /\ now \in Time /\ now \in Nat
      /\ active \in SUBSET Assets /\ \A a \in Assets : lastActive[a] \in Nat
  BY Constants DEF TypeInv, TypeOK, Time
<1> PICK x : x = AsksForList(call, stage)
  OBVIOUS
<1>2. /\ x.stage = stage /\ x.deadline = Later(RequestTimeout) /\ x.seen = active
      /\ x.from = call.from
  BY <1>1, MovesFacts DEF AsksForList, Stages
<1>3. /\ Later(RequestTimeout) \in Nat /\ now <= Later(RequestTimeout)
      /\ Later(RequestTimeout) <= now + RequestTimeout
  BY <1>1, LaterFacts
<1>4. \A a \in x.seen : x.deadline <= lastActive[a] + RequestTimeout
  BY <1>2, ListIsFresh
<1>5. stage = "relist" =>
        x.deadline <= lastActive[x.from] + AssetCacheTtl + 2 * RequestTimeout
  BY <1>1, <1>2, <1>3
<1>6. FreshCall(x)
  BY <1>2, <1>3, <1>4, <1>5 DEF FreshCall
<1> QED
  BY <1>6

\* A fresh cached list names assets that were offered not long ago.
LEMMA CachedAssets ==
  ASSUME TypeInv, FreshInv, CacheIsFresh
  PROVE  /\ assetCache.assets \subseteq Assets
         /\ \A a \in assetCache.assets : now < lastActive[a] + RequestTimeout + AssetCacheTtl
<1>1. /\ RequestTimeout \in Nat /\ AssetCacheTtl \in Nat /\ now \in Nat
      /\ \A a \in Assets : lastActive[a] \in Nat
  BY Constants DEF TypeInv, TypeOK, Time
<1>2. /\ assetCache # NoCache /\ now < assetCache.until /\ assetCache.until \in Nat
      /\ assetCache.assets \subseteq Assets
  BY <1>1 DEF CacheIsFresh, TypeInv, TypeOK
<1>3. \A a \in assetCache.assets :
        assetCache.until <= lastActive[a] + RequestTimeout + AssetCacheTtl
  BY <1>2 DEF FreshInv, FreshCache
<1> QED
  BY <1>1, <1>2, <1>3

\* A step that takes no time and delists nothing, and changes one call.
LEMMA CallStepKeepsFresh ==
  ASSUME TypeInv, FreshInv, NEW c \in Calls, NEW x, calls' = [calls EXCEPT ![c] = x],
         UNCHANGED <<now, active, lastActive>>, x # NoCall => FreshCall(x), FreshCache'
  PROVE  FreshInv'
<1>1. \A d \in Calls : calls'[d] # NoCall => FreshCall(calls'[d])
  BY DEF FreshInv, TypeInv, TypeOK
<1>2. \A d \in Calls : calls'[d] # NoCall => FreshCall(calls[d])'
  BY <1>1 DEF FreshCall
<1> QED
  BY <1>2 DEF FreshInv

\* The steps of the clock and of the provider's list: every asset is last offered as late
\* as before, or later.
LEMMA ClockKeepsFresh ==
  ASSUME TypeInv, TypeInv', FreshInv, Tick \/ Relist
  PROVE  FreshInv'
<1>0. /\ now \in Nat /\ now' \in Nat /\ active \subseteq Assets
      /\ \A a \in Assets : lastActive[a] \in Nat /\ lastActive[a] <= now
      /\ \A a \in active : lastActive[a] = now
  BY DEF TypeInv, TypeOK, Time, FreshInv
<1>1. /\ \A a \in Assets : lastActive[a] <= lastActive'[a]
      /\ \A a \in Assets : lastActive'[a] <= now' /\ (a \in active' => lastActive'[a] = now')
  <2>1. CASE Tick
    BY <1>0, <2>1 DEF Tick
  <2>2. CASE Relist
    <3>1. PICK a \in Fickle :
            /\ active' = IF a \in active THEN active \ {a} ELSE active \cup {a}
            /\ lastActive' = [lastActive EXCEPT ![a] = now] /\ now' = now
      BY <2>2 DEF Relist
    <3>2. lastActive \in [Assets -> Time]
      BY DEF TypeInv, TypeOK
    <3>3. \A b \in Assets : lastActive'[b] = IF b = a THEN now ELSE lastActive[b]
      BY <3>1, <3>2
    <3> QED
      BY <1>0, <3>1, <3>3
  <2> QED
    BY <2>1, <2>2
<1>2. FreshCache'
  <2>1. assetCache' = assetCache
    BY DEF Tick, Relist
  <2> QED
    BY <1>1, <2>1, FreshCacheStays DEF TypeInv, FreshInv
<1>3. \A c \in Calls : calls'[c] # NoCall => FreshCall(calls[c])'
  <2> SUFFICES ASSUME NEW c \in Calls, calls'[c] # NoCall PROVE FreshCall(calls[c])'
    OBVIOUS
  <2>1. calls' = calls
    BY DEF Tick, Relist
  <2> PICK x : x = calls[c]
    OBVIOUS
  <2>2. x \in CallTypes /\ x.deadline \in Nat /\ HasQuote(x) /\ FreshCall(x)
    BY <2>1 DEF TypeInv, TypeOK, QuoteInv, FreshInv, CallTypes
  <2>3. now' <= x.deadline
    <3>1. CASE Tick
      BY <1>0, <2>1, <2>2, <3>1 DEF Tick
    <3>2. CASE Relist
      BY <2>2, <3>2 DEF Relist, FreshCall
    <3> QED
      BY <3>1, <3>2
  <2>4. FreshCall(x)'
    BY <1>1, <2>2, <2>3, FreshCallStays DEF TypeInv
  <2> QED
    BY <2>1, <2>4 DEF FreshCall
<1> QED
  BY <1>1, <1>2, <1>3 DEF FreshInv

\* Every step keeps what is fresh.
LEMMA NextFreshInv == TypeInv /\ FreshInv /\ [Next]_vars => FreshInv'
<1> SUFFICES ASSUME TypeInv, FreshInv, [Next]_vars PROVE FreshInv'
  OBVIOUS
<1>0. /\ TypeInv' /\ RequestTimeout \in Nat /\ AssetCacheTtl \in Nat /\ AssetCacheTtl > 0
      /\ now \in Time /\ now \in Nat /\ active \subseteq Assets
      /\ \A a \in Assets : lastActive[a] \in Nat
  BY NextTypeInv, Constants DEF TypeInv, TypeOK, Time
<1>t. Later(RequestTimeout) \in Nat /\ now <= Later(RequestTimeout)
  BY <1>0, LaterFacts
<1>1. CASE Tick \/ Relist
  BY <1>0, <1>1, ClockKeepsFresh
<1>2. CASE UNCHANGED vars \/ Reconnect \/ Restart \/ \E s \in shown : FundFromVault(s)
  <2>1. /\ UNCHANGED <<now, active, lastActive>> /\ assetCache' \in {assetCache, NoCache}
        /\ \A c \in Calls : calls'[c] \in {calls[c], NoCall}
    BY <1>2 DEF vars, provider, answers, Reconnect, Restart, FundFromVault
  <2>2. FreshCache'
    BY <2>1 DEF FreshCache, FreshInv
  <2> QED
    BY <2>1, <2>2 DEF FreshInv, FreshCall
<1>3. CASE ListSwapAssets
  <2>1. /\ assetCache' = [assets |-> active, until |-> Later(AssetCacheTtl)]
        /\ UNCHANGED <<now, active, lastActive, calls>>
    BY <1>3 DEF ListSwapAssets, provider
  <2>2. assetCache'.assets = active /\ assetCache'.until = Later(AssetCacheTtl)
    BY <2>1
  <2>3. FreshCache'
    BY <2>1, <2>2, ListIsFresh DEF FreshCache
  <2> QED
    BY <2>1, <2>3 DEF FreshInv, FreshCall
<1>4. ASSUME NEW c \in Calls, NEW x, Starts(c, x), x # NoCall => FreshCall(x)
      PROVE  FreshInv'
  <2>1. /\ calls' = [calls EXCEPT ![c] = x]
        /\ UNCHANGED <<now, active, lastActive, assetCache>>
    BY <1>4 DEF Starts, provider
  <2>2. FreshCache'
    BY <2>1 DEF FreshCache, FreshInv
  <2> QED
    BY <1>4, <2>1, <2>2, CallStepKeepsFresh
<1>5. ASSUME NEW c \in Calls, NEW u \in Users, GetSwapQuote(c, u)
      PROVE  FreshInv'
  <2>1. PICK pair \in Pairs :
          LET call == QuoteCall(u, pair)
          IN Starts(c, IF CacheIsFresh THEN FindsFrom(call, assetCache.assets)
                       ELSE AsksForList(call, "list"))
    BY <1>5 DEF GetSwapQuote, QuoteCall
  <2> PICK call : call = QuoteCall(u, pair)
    OBVIOUS
  <2>2. call \in CallTypes
    BY <1>0, QuoteCallFacts
  <2> PICK x : x = IF CacheIsFresh THEN FindsFrom(call, assetCache.assets)
                   ELSE AsksForList(call, "list")
    OBVIOUS
  <2>3. CASE ~CacheIsFresh
    <3>1. FreshCall(AsksForList(call, "list"))
      BY <2>2, AsksIsFresh
    <3> QED
      BY <1>4, <2>1, <2>3, <3>1
  <2>4. CASE CacheIsFresh
    <3>1. x # NoCall => FreshCall(x)
      BY <2>2, <2>4, CachedAssets, FindsFromIsFresh
    <3> QED
      BY <1>4, <2>1, <3>1
  <2> QED
    BY <2>3, <2>4
<1>6. ASSUME NEW c \in Calls, NEW u \in Users, CreateSwapOrder(c, u)
      PROVE  FreshInv'
  <2>1. PICK t \in tokens :
          /\ QuoteHolds(t, u) /\ t.from # NoAsset
          /\ Starts(c, OrderCall(u, t.from, t.to, connection[u]))
    BY <1>6 DEF CreateSwapOrder, OrderCall
  <2>2. t.from \in Assets /\ t.to \in Assets /\ connection[u] \in Wallets
    BY <1>6, <2>1, AcceptedFacts
       DEF CreateSwapOrder, Connected, NamesAssets, TypeInv, TypeOK
  <2> PICK x : x = OrderCall(u, t.from, t.to, connection[u])
    OBVIOUS
  <2>3. x.stage = "order" /\ x.deadline = Later(RequestTimeout)
    BY <1>0, <2>2, OrderCallFacts
  <2>4. FreshCall(x)
    BY <1>t, <2>3 DEF FreshCall
  <2> QED
    BY <1>4, <2>1, <2>4
<1>7. ASSUME NEW c \in Calls, NEW u \in Users, GetSwapStatus(c, u)
      PROVE  FreshInv'
  <2>1. PICK t \in tokens :
          Starts(c, KnowingCall(u, "status", Later(RequestTimeout), t.order))
    BY <1>7 DEF GetSwapStatus, KnowingCall
  <2>2. t.order \in OrderIds \cup {NoOrder}
    BY DEF Tokens, TypeInv, TypeOK
  <2> PICK x : x = KnowingCall(u, "status", Later(RequestTimeout), t.order)
    OBVIOUS
  <2>3. x.stage = "status" /\ x.deadline = Later(RequestTimeout)
    BY <1>t, <2>2, KnowingCallFacts DEF Stages
  <2>4. FreshCall(x)
    BY <1>t, <2>3 DEF FreshCall
  <2> QED
    BY <1>4, <2>1, <2>4
<1>8. ASSUME NEW c \in Calls, ListArrives(c)
      PROVE  FreshInv'
  <2>0. PICK x : /\ calls' = [calls EXCEPT ![c] = x]
                 /\ x = IF At(c, "list") THEN FindsFrom(calls[c], calls[c].seen)
                        ELSE FindsTo(calls[c], calls[c].seen)
    BY <1>8 DEF ListArrives
  <2>1. /\ assetCache' = [assets |-> calls[c].seen, until |-> Later(AssetCacheTtl)]
        /\ UNCHANGED <<now, active, lastActive>>
    BY <1>8 DEF ListArrives, provider
  <2>2. /\ calls[c] # NoCall /\ calls[c] \in CallTypes
        /\ calls[c].stage \in {"list", "relist"} /\ FreshCall(calls[c])
    BY <1>8 DEF ListArrives, At, TypeInv, TypeOK, FreshInv
  <2>3. calls[c].seen \subseteq Assets /\ calls[c].deadline \in Nat
    BY <2>2 DEF CallTypes
  <2>4. \A a \in calls[c].seen : now <= lastActive[a] + RequestTimeout
    BY <1>0, <2>2, <2>3 DEF FreshCall
  <2>5. \A a \in calls[c].seen : now < lastActive[a] + RequestTimeout + AssetCacheTtl
    BY <1>0, <2>3, <2>4
  <2>6. x # NoCall => FreshCall(x)
    <3>1. CASE At(c, "list")
      BY <2>0, <2>2, <2>3, <2>5, <3>1, FindsFromIsFresh
    <3>2. CASE ~At(c, "list")
      <4>1. calls[c].stage = "relist"
        BY <2>2, <3>2 DEF At
      <4>2. calls[c].from \in Assets
        BY <2>2, <4>1 DEF TypeInv, QuoteInv, HasQuote, NamesAssets
      <4>3. now <= lastActive[calls[c].from] + AssetCacheTtl + 2 * RequestTimeout
        BY <1>0, <2>2, <2>3, <4>1, <4>2 DEF FreshCall
      <4> QED
        BY <2>0, <2>2, <2>3, <2>5, <3>2, <4>2, <4>3, FindsToIsFresh
    <3> QED
      BY <3>1, <3>2
  <2>7. Later(AssetCacheTtl) \in Nat /\ Later(AssetCacheTtl) <= now + AssetCacheTtl
    BY <1>0, LaterFacts
  <2>8. \A a \in calls[c].seen :
          Later(AssetCacheTtl) <= lastActive[a] + RequestTimeout + AssetCacheTtl
    BY <1>0, <2>3, <2>4, <2>7
  <2>9. FreshCache'
    BY <2>1, <2>8 DEF FreshCache
  <2> QED
    BY <2>0, <2>1, <2>6, <2>9, CallStepKeepsFresh
<1>11. ASSUME NEW c \in Calls, SecondLookup(c)
       PROVE  FreshInv'
  <2>0. PICK x : /\ calls' = [calls EXCEPT ![c] = x]
                 /\ x = IF CacheIsFresh THEN FindsTo(calls[c], assetCache.assets)
                        ELSE AsksForList(calls[c], "relist")
    BY <1>11 DEF SecondLookup
  <2>1. UNCHANGED <<now, active, lastActive, assetCache>>
    BY <1>11 DEF SecondLookup, provider
  <2>2. /\ calls[c] # NoCall /\ calls[c] \in CallTypes /\ calls[c].stage = "second"
        /\ FreshCall(calls[c]) /\ calls[c].deadline \in Nat
    BY <1>11 DEF SecondLookup, At, TypeInv, TypeOK, FreshInv, CallTypes
  <2>3. calls[c].from \in Assets
    BY <2>2 DEF TypeInv, QuoteInv, HasQuote, NamesAssets
  <2>4. now <= lastActive[calls[c].from] + AssetCacheTtl + RequestTimeout
    BY <1>0, <2>2, <2>3 DEF FreshCall
  <2>5. now <= lastActive[calls[c].from] + AssetCacheTtl + 2 * RequestTimeout
    BY <1>0, <2>3, <2>4
  <2>6. x # NoCall => FreshCall(x)
    <3>1. CASE CacheIsFresh
      BY <2>0, <2>2, <2>3, <2>5, <3>1, CachedAssets, FindsToIsFresh
    <3>2. CASE ~CacheIsFresh
      BY <2>0, <2>2, <2>3, <2>4, <3>2, AsksIsFresh
    <3> QED
      BY <3>1, <3>2
  <2>7. FreshCache'
    BY <2>1 DEF FreshCache, FreshInv
  <2> QED
    BY <2>0, <2>1, <2>6, <2>7, CallStepKeepsFresh
<1>9. ASSUME NEW c \in Calls, ProviderOrders(c)
      PROVE  FreshInv'
  <2>1. PICK id \in OrderIds :
          calls' = [calls EXCEPT ![c] =
                      KnowingCall(calls[c].user, "ordered", calls[c].deadline, id)]
    BY <1>9, ProviderOrdersFacts
  <2>2. calls[c].user \in Users /\ calls[c].deadline \in Nat /\ now <= calls[c].deadline
    BY <1>9 DEF ProviderOrders, At, TypeInv, TypeOK, CallTypes, FreshInv, FreshCall
  <2> PICK x : x = KnowingCall(calls[c].user, "ordered", calls[c].deadline, id)
    OBVIOUS
  <2>3. x.stage = "ordered" /\ x.deadline = calls[c].deadline
    BY <2>2, KnowingCallFacts DEF Stages
  <2>4. FreshCall(x)
    BY <2>2, <2>3 DEF FreshCall
  <2>5. UNCHANGED <<now, active, lastActive, assetCache>>
    BY <1>9 DEF ProviderOrders
  <2>6. FreshCache'
    BY <2>5 DEF FreshCache, FreshInv
  <2> QED
    BY <2>1, <2>4, <2>5, <2>6, CallStepKeepsFresh
<1>10. ASSUME NEW c \in Calls,
              EstimateArrives(c) \/ OrderArrives(c) \/ StatusArrives(c) \/ CallFails(c)
       PROVE  FreshInv'
  <2>1. /\ calls' = [calls EXCEPT ![c] = NoCall]
        /\ UNCHANGED <<now, active, lastActive, assetCache>>
    BY <1>10 DEF EstimateArrives, OrderArrives, StatusArrives, CallFails, provider
  <2>2. FreshCache'
    BY <2>1 DEF FreshCache, FreshInv
  <2> QED
    BY <2>1, <2>2, CallStepKeepsFresh
<1> QED
  BY <1>1, <1>2, <1>3, <1>5, <1>6, <1>7, <1>8, <1>9, <1>10, <1>11 DEF Next

\* An asset is last offered as late as before a step, or later.
LEMMA LastActiveGrows ==
  ASSUME TypeInv, FreshInv, [Next]_vars, NEW a \in Assets
  PROVE  lastActive[a] <= lastActive'[a]
<1>1. /\ now \in Nat /\ lastActive \in [Assets -> Time] /\ lastActive[a] \in Nat
      /\ lastActive[a] <= now
  BY DEF TypeInv, TypeOK, Time, FreshInv
<1>2. CASE Tick
  BY <1>1, <1>2 DEF Tick
<1>3. CASE Relist
  <2>1. PICK b \in Fickle : lastActive' = [lastActive EXCEPT ![b] = now]
    BY <1>3 DEF Relist
  <2> QED
    BY <1>1, <2>1
<1>4. CASE lastActive' = lastActive
  BY <1>1, <1>4
<1> QED
  BY <1>2, <1>3, <1>4
     DEF Next, vars, provider, Reconnect, Restart, ListSwapAssets, GetSwapQuote,
         CreateSwapOrder, GetSwapStatus, Starts, SecondLookup, ListArrives, EstimateArrives,
         ProviderOrders, OrderArrives, StatusArrives, CallFails, FundFromVault

\* Tokens are signed when an estimate or an order arrives.
LEMMA NewTokens ==
  [Next]_vars => tokens' = tokens \/ \E c \in Calls : EstimateArrives(c) \/ OrderArrives(c)
BY DEF Next, vars, provider, answers, Tick, Relist, Reconnect, Restart, ListSwapAssets,
       GetSwapQuote, CreateSwapOrder, GetSwapStatus, Starts, SecondLookup, ListArrives,
       ProviderOrders, StatusArrives, CallFails, FundFromVault

\* FreshInv is an invariant.
LEMMA FreshInvCorrect == Spec => []FreshInv
<1>1. Init => FreshInv
  BY DEF Init, FreshInv, FreshCache
<1> QED
  BY <1>1, NextFreshInv, TypeInvCorrect, PTL DEF Spec

\* A quote names assets that were offered at most a cache lifetime and three requests
\* before it was signed: nothing that was long delisted is quoted, however calls overlap.
THEOREM FreshCorrect == Spec => []QuotedAssetsWereActive
<1>1. Init => QuotedAssetsWereActive
  BY DEF Init, QuotedAssetsWereActive
<1>2. TypeInv /\ FreshInv /\ QuotedAssetsWereActive /\ [Next]_vars => QuotedAssetsWereActive'
  <2> SUFFICES ASSUME TypeInv, FreshInv, QuotedAssetsWereActive, [Next]_vars,
                      NEW t \in tokens', t.kind = "quote"
               PROVE  /\ t.issued <= lastActive'[t.from] + AssetCacheTtl + 3 * RequestTimeout
                      /\ t.issued < lastActive'[t.to] + AssetCacheTtl + 2 * RequestTimeout
    BY DEF QuotedAssetsWereActive
  <2>0. /\ RequestTimeout \in Nat /\ AssetCacheTtl \in Nat /\ now \in Time /\ now \in Nat
        /\ \A a \in Assets : lastActive[a] \in Nat /\ lastActive'[a] \in Nat
    BY Constants, NextTypeInv DEF TypeInv, TypeOK, Time
  <2>1. CASE t \in tokens
    <3>1. t.issued \in Nat /\ t.from \in Assets /\ t.to \in Assets
      BY <2>1 DEF TypeInv, TypeOK, QuoteInv, NamesAssets, Tokens, Time
    <3>2. /\ t.issued <= lastActive[t.from] + AssetCacheTtl + 3 * RequestTimeout
          /\ t.issued < lastActive[t.to] + AssetCacheTtl + 2 * RequestTimeout
      BY <2>1 DEF QuotedAssetsWereActive
    <3>3. /\ lastActive[t.from] <= lastActive'[t.from]
          /\ lastActive[t.to] <= lastActive'[t.to]
      BY <3>1, LastActiveGrows
    <3> QED
      BY <2>0, <3>1, <3>2, <3>3
  <2>2. CASE t \notin tokens
    <3>1. PICK c \in Calls : EstimateArrives(c) \/ OrderArrives(c)
      BY <2>2, NewTokens
    <3>2. CASE EstimateArrives(c)
      <4>1. /\ calls[c] # NoCall /\ calls[c] \in CallTypes /\ calls[c].stage = "estimate"
            /\ FreshCall(calls[c]) /\ HasQuote(calls[c])
        BY <3>2 DEF EstimateArrives, At, TypeInv, TypeOK, QuoteInv, FreshInv
      <4>2. /\ calls[c].user \in Users /\ calls[c].from \in Assets /\ calls[c].to \in Assets
            /\ calls[c].deadline \in Nat
        BY <4>1 DEF HasQuote, NamesAssets, CallTypes
      <4>3. t = Quote(calls[c].user, calls[c].from, calls[c].to) /\ lastActive' = lastActive
        BY <2>2, <3>2 DEF EstimateArrives, provider
      <4>4. t.issued = now /\ t.from = calls[c].from /\ t.to = calls[c].to
        BY <2>0, <4>2, <4>3, QuoteFacts
      <4>5. /\ now <= calls[c].deadline
            /\ calls[c].deadline <= lastActive[t.from] + AssetCacheTtl + 3 * RequestTimeout
            /\ calls[c].deadline < lastActive[t.to] + AssetCacheTtl + 2 * RequestTimeout
        BY <4>1, <4>4 DEF FreshCall
      <4> QED
        BY <2>0, <4>2, <4>3, <4>4, <4>5
    <3>3. CASE OrderArrives(c)
      <4>1. t.kind = "reference"
        BY <2>2, <3>3 DEF OrderArrives
      <4> QED
        BY <4>1
    <3> QED
      BY <3>1, <3>2, <3>3
  <2> QED
    BY <2>1, <2>2
<1> QED
  BY <1>1, <1>2, TypeInvCorrect, FreshInvCorrect, PTL DEF Spec
=======================================================================================
