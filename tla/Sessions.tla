----------------------------------- MODULE Sessions -----------------------------------
(* Who a tool call is made for.  A host asks for consent, the Vault approves it with   *)
(* its public addresses, the approval becomes a code, the code an access and a refresh *)
(* token, and every call stores the addresses of its token as the user's connection.   *)
(* All but the consumed codes, the pairing and the connections are signed claims that  *)
(* only clients hold: they stay in circulation until they expire.                      *)
EXTENDS Naturals, FiniteSets

CONSTANTS
  Clients,       \* a registered client with its redirect address and resource
  Wallets,       \* addresses a Vault may send: [keys, spelling, casper]
  DemoUser, NoPairing, NoWallet,
  RequestTtl, CodeTtl, AccessTtl, RefreshTtl,  \* lifetimes of the four claims
  MaxTime, MaxRequests, MaxCodes, MaxTokens

ASSUME ConstantsAssumption ==
  /\ Wallets \subseteq [keys: {w.keys : w \in Wallets}, spelling: {"mixed", "lower"},
                        casper: {w.casper : w \in Wallets}]
  /\ NoWallet \notin [keys: {w.keys : w \in Wallets}, spelling: {"mixed", "lower"},
                      casper: {w.casper : w \in Wallets}]
  /\ {RequestTtl, CodeTtl, AccessTtl, RefreshTtl, MaxTime} \subseteq Nat

SupportedScopes == {"read", "write"}

\* `evm` is kept in lower case; the other addresses stay as they came.
Canonical(w) == [w EXCEPT !.spelling = "lower"]

\* The identity is a hash of four addresses and leaves the Casper one out.
UserOf(w) == [keys |-> w.keys, spelling |-> Canonical(w).spelling]

Users == [keys: {w.keys : w \in Wallets}, spelling: {"mixed", "lower"}] \cup {DemoUser}
StoredWallets == Wallets \cup {Canonical(w) : w \in Wallets}

VARIABLES
  demoMode,     \* configuration, read once
  now,
  requests,     \* signed consent requests in circulation
  codes,        \* signed authorization codes in circulation
  tokens,       \* signed access and refresh tokens in circulation
  consumed,     \* table oauth_authorization_codes
  pairing,      \* the row of table wallet_pairings
  connections,  \* table wallet_connections
  exchanged,    \* history: codes that were exchanged
  repeated,     \* history: codes that were exchanged again
  consents,     \* history: what Vaults approved
  paired,       \* history: wallets connected by the pairing
  served        \* history: calls answered, for whom and with which permission

claims == <<requests, codes, tokens>>
vars == <<demoMode, now, claims, consumed, pairing, connections,
          exchanged, repeated, consents, paired, served>>

Request == [client: Clients, scopes: SUBSET SupportedScopes, exp: Nat]
Code == [client: Clients, scopes: SUBSET SupportedScopes, wallet: StoredWallets,
         user: Users, exp: Nat]
Token == [kind: {"access", "refresh"}, client: Clients, scopes: SUBSET SupportedScopes,
          wallet: StoredWallets, user: Users, exp: Nat]
Consent == [client: Clients, scopes: SUBSET SupportedScopes, wallet: StoredWallets,
            user: Users]
Pairing == [user: Users, exp: Nat, used: BOOLEAN]
Call == [user: Users, scope: SupportedScopes]

\* A release that still created pairings may have left one in the database.
Init ==
  /\ demoMode \in BOOLEAN /\ now = 0
  /\ requests = {} /\ codes = {} /\ tokens = {} /\ consumed = {}
  /\ pairing \in {NoPairing} \cup {[user |-> u, exp |-> 1, used |-> FALSE] : u \in Users}
  /\ connections = [u \in Users |-> NoWallet]
  /\ exchanged = {} /\ repeated = {} /\ consents = {} /\ paired = {} /\ served = {}

---------------------------------------------------------------------------------------
(* Claims                                                                              *)

\* Mutant of Live: a claim is still taken in the second it expires.
LiveAtExpiry(claim) == now <= claim.exp

\* verify: nothing is checked against a table, only the expiry in the claim.
Live(claim) == now < claim.exp

ValidScopes(scopes) == scopes # {} /\ scopes \subseteq SupportedScopes

\* authorize: the host sends the user to the Vault with a signed request.
Authorize(client, scopes) ==
  /\ ValidScopes(scopes)
  /\ Cardinality(requests) < MaxRequests
  /\ requests' = requests \cup
       {[client |-> client, scopes |-> scopes, exp |-> now + RequestTtl]}
  /\ UNCHANGED <<demoMode, now, codes, tokens, consumed, pairing, connections,
                 exchanged, repeated, consents, paired, served>>

\* approveAuthorization.  A request can be approved again, also by another Vault.
Approve(request, wallet) ==
  LET code == [client |-> request.client, scopes |-> request.scopes,
               wallet |-> Canonical(wallet), user |-> UserOf(wallet),
               exp |-> now + CodeTtl]
  IN /\ Live(request)
     /\ Cardinality(codes \cup {code}) <= MaxCodes
     /\ codes' = codes \cup {code}
     /\ consents' = consents \cup {[client |-> code.client, scopes |-> code.scopes,
                                    wallet |-> code.wallet, user |-> code.user]}
     /\ UNCHANGED <<demoMode, now, requests, tokens, consumed, pairing, connections,
                    exchanged, repeated, paired, served>>

\* issueTokens: both tokens carry the scopes, the wallet and the user of `subject`.
Issued(subject, scopes, at) ==
  {[kind |-> k, client |-> subject.client, scopes |-> scopes, wallet |-> subject.wallet,
    user |-> subject.user, exp |-> at + (IF k = "access" THEN AccessTtl ELSE RefreshTtl)] :
   k \in {"access", "refresh"}}

\* consumeOAuthAuthorizationCode, first statement: expired rows go.
Kept(at) == {c \in consumed : at < c.exp}

\* challengeForAuthorizationCode, which the SDK asks before the exchange.
IssuedTo(code, client) == Live(code) /\ code.client = client

\* The clock is read for the code, and again for the table: it may have moved on.
Exchange(client, code) ==
  \E later \in {now, now + 1} :
    /\ IssuedTo(code, client)
    /\ later <= MaxTime /\ now' = later
    /\ IF code \in Kept(later)
       THEN consumed' = Kept(later) /\ UNCHANGED <<tokens, exchanged, repeated>>
       ELSE /\ Cardinality(tokens \cup Issued(code, code.scopes, later)) <= MaxTokens
            /\ consumed' = Kept(later) \cup {code}
            /\ tokens' = tokens \cup Issued(code, code.scopes, later)
            /\ exchanged' = exchanged \cup {code}
            /\ repeated' = repeated \cup (exchanged \cap {code})
    /\ UNCHANGED <<demoMode, requests, codes, pairing, connections, consents, paired, served>>

\* The scopes a refresh may ask for.
Narrows(scopes, token) == ValidScopes(scopes) /\ scopes \subseteq token.scopes

\* exchangeRefreshToken: the old token stays valid, the new one lives as long again.
Refresh(client, token, scopes) ==
  /\ token.kind = "refresh" /\ Live(token) /\ token.client = client
  /\ Narrows(scopes, token)
  /\ Cardinality(tokens \cup Issued(token, scopes, now)) <= MaxTokens
  /\ tokens' = tokens \cup Issued(token, scopes, now)
  /\ UNCHANGED <<demoMode, now, requests, codes, consumed, pairing, connections,
                 exchanged, repeated, consents, paired, served>>

---------------------------------------------------------------------------------------
(* Calls and pairing                                                                   *)

\* Mutant of AllowedBy: every supported permission is granted.
AllowedAnyScope(token, scope) == scope \in SupportedScopes

\* resolveUser: the permission the tool needs.
AllowedBy(token, scope) == scope \in token.scopes

\* verifyAccessToken; index.ts drops whatever it refuses and goes on without.
Authenticates(token) == token.kind = "access" /\ Live(token)

\* resolveUser for a session: the scope is asked of the token, then its wallet is stored.
CallTool(token, scope) ==
  /\ Authenticates(token) /\ AllowedBy(token, scope)
  /\ connections' = [connections EXCEPT ![token.user] = token.wallet]
  /\ served' = served \cup {[user |-> token.user, scope |-> scope]}
  /\ UNCHANGED <<demoMode, now, claims, consumed, pairing, exchanged, repeated, consents, paired>>

\* resolveUser without a session: only a demo deployment answers, for its one user.
CallToolDemo(scope) ==
  /\ demoMode
  /\ served' = served \cup {[user |-> DemoUser, scope |-> scope]}
  /\ UNCHANGED <<demoMode, now, claims, consumed, pairing, connections, exchanged, repeated,
                 consents, paired>>

\* Mutant of Pairable: a used pairing connects again.
PairableAgain == pairing # NoPairing /\ now < pairing.exp

\* completeWalletPairing.  Used pairings are only compared, never stored again.
Pairable == pairing # NoPairing /\ ~pairing.used /\ now < pairing.exp

CompletePairing(wallet) ==
  /\ Pairable
  /\ pairing' = [pairing EXCEPT !.used = TRUE]
  /\ connections' = [connections EXCEPT ![pairing.user] = wallet]
  /\ paired' = paired \cup {wallet}
  /\ UNCHANGED <<demoMode, now, claims, consumed, exchanged, repeated, consents, served>>

Tick ==
  /\ now < MaxTime /\ now' = now + 1
  /\ UNCHANGED <<demoMode, claims, consumed, pairing, connections, exchanged, repeated, consents,
                 paired, served>>

Next ==
  \/ \E c \in Clients, s \in SUBSET SupportedScopes : Authorize(c, s)
  \/ \E r \in requests, w \in Wallets : Approve(r, w)
  \/ \E c \in Clients, d \in codes : Exchange(c, d)
  \/ \E c \in Clients, t \in tokens, s \in SUBSET SupportedScopes : Refresh(c, t, s)
  \/ \E t \in tokens, s \in SupportedScopes : CallTool(t, s)
  \/ \E s \in SupportedScopes : CallToolDemo(s)
  \/ \E w \in Wallets : CompletePairing(w)
  \/ Tick

Spec == Init /\ [][Next]_vars

---------------------------------------------------------------------------------------
(* Properties                                                                          *)

\* Every claim and every row is of its kind.
TypeOK ==
  /\ demoMode \in BOOLEAN /\ now \in Nat
  /\ requests \subseteq Request /\ codes \subseteq Code /\ tokens \subseteq Token
  /\ consumed \subseteq Code /\ exchanged \subseteq Code /\ repeated \subseteq Code
  /\ pairing \in Pairing \cup {NoPairing}
  /\ connections \in [Users -> StoredWallets \cup {NoWallet}]
  /\ consents \subseteq Consent /\ paired \subseteq StoredWallets /\ served \subseteq Call

Consented(client, user, wallet, scopes) ==
  \E a \in consents : /\ a.client = client /\ a.user = user /\ a.wallet = wallet
                      /\ scopes \subseteq a.scopes

\* Along any chain of exchanges and refreshes, a token never gives its client a user, a
\* wallet or a permission that a Vault did not approve for that client.
TokensStayWithinConsent ==
  \A t \in tokens : Consented(t.client, t.user, t.wallet, t.scopes)

\* Whoever was served as a user of the wallet held a consent with the permission the
\* call asks for; without one a call is refused or is the demo user's.
ServedCallsWereConsented ==
  \A k \in served :
    \/ k.user = DemoUser /\ demoMode
    \/ \E a \in consents : a.user = k.user /\ k.scope \in a.scopes

\* A code is exchanged once while it is valid, although the table forgets expired codes
\* and is read later than the claim: only the exchange during which the code expires can
\* be a second one.
ValidCodeIsNotExchangedTwice == \A c \in repeated : ~Live(c)

\* One wallet is one user and one user one wallet, in whatever letter case the EVM
\* address arrives and whatever Casper address comes with it.
OneUserPerWallet ==
  \A a, b \in consents : a.user = b.user <=> a.wallet.keys = b.wallet.keys

\* A connection is one the Vault approved for that user or the pairing brought, and the
\* pairing brings one wallet at most, however often the Vault sends it again.
ConnectionsHaveASource ==
  /\ \A a, b \in paired : a = b
  /\ \A u \in Users :
       \/ connections[u] \in {NoWallet} \cup paired
       \/ \E a \in consents : a.user = u /\ a.wallet = connections[u]
=======================================================================================
