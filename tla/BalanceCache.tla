---------------------------------- MODULE BalanceCache ---------------------------------
(***************************************************************************)
(* What the mainnet adapter (MainnetAdapter) answers when it is asked for  *)
(* a balance or a wallet's summary: each balance comes from a cache all    *)
(* users share, or is read from one node after the other until one         *)
(* answers.  Reads overlap, wallets are connected anew while they last,    *)
(* and the answer is stored whenever it comes.                             *)
(*                                                                         *)
(* A balance is named by what it is of and by the moment a node read it,   *)
(* so the model tells an old answer from a new one whatever the amounts.   *)
(***************************************************************************)
EXTENDS Naturals, FiniteSets

CONSTANTS
  Users, Wallets,
  Networks,
  TokensOf,     \* the balances a summary of a network shows
  History,      \* the network whose latest transactions a summary shows, too
  Endpoints,    \* how many nodes a read may ask
  RpcTimeout, CacheTtl,
  EtherscanKey,       \* whether transactions are looked for at Etherscan first
  EtherscanTimeout,   \* which is given longer than a node
  Calls,        \* bound: requests under way
  MaxTime,      \* bound
  NoWallet, NoEntry, NoRequest

Tokens == {"USDC", "POL"}                    \* "POL" stands for the native one

ASSUME CacheAssumption ==
  /\ History \in Networks
  /\ TokensOf \in [Networks -> SUBSET Tokens]
  /\ {Endpoints, RpcTimeout, EtherscanTimeout} \subseteq Nat \ {0}
  /\ EtherscanKey \in BOOLEAN
  /\ {CacheTtl, MaxTime} \subseteq Nat
  /\ NoWallet \notin Wallets

Slots == Networks \X (Tokens \cup {"history"})
Subjects == Networks \X Wallets \X Tokens

Value == [of : Subjects, asOf : Nat]

\* A balance is asked of the network's nodes; transactions of Etherscan, given a key to it,
\* and of Blockscout.
Sources(slot) ==
  IF slot[2] # "history" THEN Endpoints ELSE IF EtherscanKey THEN 2 ELSE 1

TimeoutOf(slot, url) ==
  IF slot[2] = "history" /\ url < Sources(slot) THEN EtherscanTimeout ELSE RpcTimeout

Attempt == [url : 1 .. IF Endpoints < 2 THEN 2 ELSE Endpoints, since : Nat]
Empty == [none |-> TRUE]     \* transactions, which are not told apart, or a failed read
Entry == [until : Nat, value : Value]
Request(slots) ==
  [user : Users, wallet : Wallets, failed : BOOLEAN,
   reads : [slots -> Attempt \cup Value \cup {Empty}]]

VARIABLES
  now,
  connection,  \* table wallet_connections
  cache,
  call,        \* requests whose reads are not all over
  answer,      \* the answer the last step gave, if it gave one
  newest,      \* history: the newest reading answered so far
  crossed      \* history: subjects that two requests were about at once

cacheVars == <<now, connection, cache, call, answer, newest, crossed>>

IsAttempt(r) == "url" \in DOMAIN r

NoAnswer == [wallet |-> NoWallet, balances |-> {}]

CacheInit ==
  /\ now = 0
  /\ connection = [u \in Users |-> NoWallet]
  /\ cache = [k \in Subjects |-> NoEntry]
  /\ call = [c \in Calls |-> NoRequest]
  /\ answer = NoAnswer
  /\ newest = [k \in Subjects |-> 0]
  /\ crossed = {}

-----------------------------------------------------------------------------
\* What a read is of.
Subject(wallet, slot) == <<slot[1], wallet, slot[2]>>

\* Mutant of CacheKey: the entry of the wallet that is connected now.
CacheKeyOfUser(q, slot) ==
  Subject(IF connection[q.user] = NoWallet THEN q.wallet ELSE connection[q.user], slot)

\* The key holds the address, as it was when the request came.
CacheKey(q, slot) == Subject(q.wallet, slot)

\* Mutant of Fresh: an entry is served as long as there is one.
FreshForEver(k) == cache[k] # NoEntry

Fresh(k) == cache[k] # NoEntry /\ cache[k].until > now

\* A read begins with the first node, unless the cache answers; history is not cached.
Lookup(wallet, slot) ==
  LET k == Subject(wallet, slot)
  IN IF slot[2] # "history" /\ Fresh(k) THEN cache[k].value ELSE [url |-> 1, since |-> now]

UnderWay ==
  {k \in Subjects : \E c \in Calls :
     /\ call[c] # NoRequest /\ k[2] = call[c].wallet
     /\ <<k[1], k[3]>> \in DOMAIN call[c].reads}

\* Promise.all: the request is answered when the last of its reads is over, or fails with
\* the first that fails, while the others go on.
Proceed(c, q) ==
  IF \E s \in DOMAIN q.reads : IsAttempt(q.reads[s])
  THEN call' = [call EXCEPT ![c] = q] /\ answer' = NoAnswer /\ UNCHANGED newest
  ELSE LET values == {q.reads[s] : s \in DOMAIN q.reads} \ {Empty}
       IN /\ call' = [call EXCEPT ![c] = NoRequest]
          /\ IF q.failed THEN answer' = NoAnswer /\ UNCHANGED newest
             ELSE /\ answer' = [wallet |-> q.wallet, balances |-> values]
                  /\ newest' = [k \in Subjects |->
                       IF \E v \in values : v.of = k /\ v.asOf > newest[k]
                       THEN (CHOOSE v \in values : v.of = k).asOf ELSE newest[k]]

\* The wallet is looked up once for all reads of a request: none of them waits before.
Begin(c, u, slots) ==
  /\ call[c] = NoRequest /\ connection[u] # NoWallet
  /\ LET reads == [s \in slots |-> Lookup(connection[u], s)]
     IN /\ Proceed(c, [user |-> u, wallet |-> connection[u], reads |-> reads,
                       failed |-> FALSE])
        /\ crossed' = crossed \cup (UnderWay \cap {Subject(connection[u], s) : s \in slots})
  /\ UNCHANGED <<now, connection, cache>>

GetBalance(c, u) ==
  \E n \in Networks : \E t \in TokensOf[n] : Begin(c, u, {<<n, t>>})

GetWalletSummary(c, u) ==
  \E n \in Networks :
    Begin(c, u, {<<n, t>> : t \in TokensOf[n] \cup IF n = History THEN {"history"} ELSE {}})

-----------------------------------------------------------------------------
Pending(c, s) == call[c] # NoRequest /\ s \in DOMAIN call[c].reads /\ IsAttempt(call[c].reads[s])

\* A node answers with what it knew at some moment since it was asked.  "Not found" is an
\* answer too, a balance of zero.
ReadArrives(c, s) ==
  /\ Pending(c, s)
  /\ \/ /\ s[2] = "history" /\ UNCHANGED cache
        /\ Proceed(c, [call[c] EXCEPT !.reads[s] = Empty])
     \/ /\ s[2] # "history"
        /\ \E asOf \in call[c].reads[s].since .. now :
             LET value == [of |-> Subject(call[c].wallet, s), asOf |-> asOf]
             IN /\ Proceed(c, [call[c] EXCEPT !.reads[s] = value])
                /\ cache' = [cache EXCEPT ![CacheKey(call[c], s)] =
                               [until |-> now + CacheTtl, value |-> value]]
  /\ UNCHANGED <<now, connection, crossed>>

\* Mutant of NextAttempt: one source too many.
NextAttemptPastEnd(s, r) ==
  IF r.url <= Sources(s) THEN {[url |-> r.url + 1, since |-> now]} ELSE {}

\* The next source, while there is one, is asked anew.
NextAttempt(s, r) ==
  IF r.url < Sources(s) THEN {[url |-> r.url + 1, since |-> now]} ELSE {}

\* A node refuses, answers an error or nothing until the timer aborts the request: the
\* next one is asked.  After the last the read fails, and it fails at once if a result is
\* there but no balance can be read from it.  A list of transactions that cannot be had
\* is empty, and no failure.
ReadFails(c, s) ==
  /\ Pending(c, s)
  /\ LET more == NextAttempt(s, call[c].reads[s])
     IN \/ \E r \in more : Proceed(c, [call[c] EXCEPT !.reads[s] = r])
        \/ /\ more = {} \/ s[2] # "history"
           /\ Proceed(c, [call[c] EXCEPT !.reads[s] = Empty,
                                         !.failed = @ \/ s[2] # "history"])
  /\ UNCHANGED <<now, connection, cache, crossed>>

\* A tool call stores the addresses of its session (Sessions).
ConnectOther ==
  /\ \E u \in Users, w \in Wallets : connection' = [connection EXCEPT ![u] = w]
  /\ answer' = NoAnswer
  /\ UNCHANGED <<now, cache, call, newest, crossed>>

Restart ==
  /\ cache' = [k \in Subjects |-> NoEntry] /\ call' = [c \in Calls |-> NoRequest]
  /\ answer' = NoAnswer
  /\ UNCHANGED <<now, connection, newest, crossed>>

\* Timers are on time: no request to a source is older than its timeout.
Tick ==
  /\ now < MaxTime
  /\ \A c \in Calls, s \in Slots : Pending(c, s) =>
       now < call[c].reads[s].since + TimeoutOf(s, call[c].reads[s].url)
  /\ now' = now + 1
  /\ answer' = NoAnswer
  /\ UNCHANGED <<connection, cache, call, newest, crossed>>

CacheNext ==
  \/ \E c \in Calls, u \in Users : GetBalance(c, u) \/ GetWalletSummary(c, u)
  \/ \E c \in Calls, s \in Slots : ReadArrives(c, s) \/ ReadFails(c, s)
  \/ ConnectOther \/ Restart \/ Tick

CacheSpec == CacheInit /\ [][CacheNext]_cacheVars

-----------------------------------------------------------------------------
\* Properties.

\* Types of the state.
CacheTypeOK ==
  /\ now \in 0 .. MaxTime
  /\ connection \in [Users -> Wallets \cup {NoWallet}]
  /\ cache \in [Subjects -> Entry \cup {NoEntry}]
  /\ DOMAIN call = Calls
  /\ \A c \in Calls : call[c] # NoRequest => \E slots \in SUBSET Slots : call[c] \in Request(slots)
  /\ answer.balances \subseteq Value
  /\ newest \in [Subjects -> Nat] /\ crossed \subseteq Subjects

\* The longest a request lasts: its slowest read, with every source but the last silent.
Longest ==
  LET nodes == Endpoints * RpcTimeout
      history == RpcTimeout + IF EtherscanKey THEN EtherscanTimeout ELSE 0
  IN IF nodes < history THEN history ELSE nodes

\* No balance is older than the cache's lifetime, the request to the node that answered
\* and the other reads of its summary, the list of transactions among them; also if an
\* overtaken answer was stored last.
StalenessIsBounded ==
  \A b \in answer.balances : now < b.asOf + CacheTtl + RpcTimeout + Longest

\* Answers go back in time only for a balance that two requests were about at once: for
\* all users of a wallet together, a later answer is never older than an earlier one.
OnlyCrossedReadsGoBack ==
  [][\A b \in answer'.balances :
        b.of \notin crossed' => b.asOf >= newest[b.of]]_cacheVars
=============================================================================
