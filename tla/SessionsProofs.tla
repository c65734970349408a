-------------------------------- MODULE SessionsProofs --------------------------------
(***************************************************************************)
(* Proofs about Sessions: types, and who may act for whom, for any clients,*)
(* wallets and lifetimes and without the bounds of the runs.               *)
(*                                                                         *)
(* The claims are only held by clients, so the invariants are about the    *)
(* sets of all claims in circulation: whatever a code or a token says was  *)
(* consented, and a code that was exchanged and is not yet expired is in   *)
(* the table.                                                              *)
(***************************************************************************)
EXTENDS Sessions, TLAPS

USE ConstantsAssumption

\* The ends of the lifetimes.
LEMMA Lifetimes ==
  ASSUME NEW at \in Nat
  PROVE  /\ at + RequestTtl \in Nat /\ at + CodeTtl \in Nat
         /\ at + AccessTtl \in Nat /\ at + RefreshTtl \in Nat
<1>1. RequestTtl \in Nat /\ CodeTtl \in Nat /\ AccessTtl \in Nat /\ RefreshTtl \in Nat
  OBVIOUS
<1> QED
  BY <1>1

-----------------------------------------------------------------------------
\* Facts about the helpers.

\* The canonical wallet is one the server stores, and keeps its keys.
LEMMA CanonicalFacts ==
  ASSUME NEW w \in Wallets
  PROVE  /\ Canonical(w) \in StoredWallets
         /\ Canonical(w).keys = w.keys
         /\ UserOf(w) = [keys |-> Canonical(w).keys, spelling |-> "lower"]
         /\ UserOf(w) \in Users
BY DEF Canonical, StoredWallets, UserOf, Users

\* Tokens are issued for the client, the user and the wallet of what they are issued for.
LEMMA IssuedFacts ==
  ASSUME NEW subject, NEW scopes, NEW at, NEW t \in Issued(subject, scopes, at)
  PROVE  /\ t.client = subject.client /\ t.user = subject.user
         /\ t.wallet = subject.wallet /\ t.scopes = scopes
BY DEF Issued

\* Tokens issued for a code or a token are tokens.
LEMMA IssuedType ==
  ASSUME NEW subject \in Code \cup Token, NEW scopes \in SUBSET SupportedScopes, NEW at \in Nat
  PROVE  Issued(subject, scopes, at) \subseteq Token
<1>1. at + AccessTtl \in Nat /\ at + RefreshTtl \in Nat
  BY Lifetimes
<1>2. /\ subject.client \in Clients /\ subject.wallet \in StoredWallets
      /\ subject.user \in Users
  BY DEF Code, Token
<1> QED
  BY <1>1, <1>2 DEF Issued, Token

-----------------------------------------------------------------------------
\* Types.

\* Init establishes the types.
LEMMA InitTypeOK == Init => TypeOK
<1> SUFFICES ASSUME Init PROVE TypeOK
  OBVIOUS
<1>1. \A u \in Users : [user |-> u, exp |-> 1, used |-> FALSE] \in Pairing
  BY DEF Pairing
<1>2. pairing \in Pairing \cup {NoPairing}
  BY <1>1 DEF Init
<1> QED
  BY <1>2 DEF Init, TypeOK

\* Every step keeps the types.
LEMMA NextTypeOK == TypeOK /\ [Next]_vars => TypeOK'
<1> SUFFICES ASSUME TypeOK, [Next]_vars PROVE TypeOK'
  OBVIOUS
<1>0. now \in Nat /\ now + RequestTtl \in Nat /\ now + CodeTtl \in Nat
  BY Lifetimes DEF TypeOK
<1> USE DEF TypeOK
<1>1. ASSUME NEW c \in Clients, NEW s \in SUBSET SupportedScopes, Authorize(c, s)
      PROVE  TypeOK'
  <2>1. [client |-> c, scopes |-> s, exp |-> now + RequestTtl] \in Request
    BY <1>0 DEF Request
  <2> QED
    BY <1>1, <2>1 DEF Authorize
<1>2. ASSUME NEW r \in requests, NEW w \in Wallets, Approve(r, w)
      PROVE  TypeOK'
  <2>1. r.client \in Clients /\ r.scopes \in SUBSET SupportedScopes
    BY DEF Request
  <2> DEFINE code == [client |-> r.client, scopes |-> r.scopes, wallet |-> Canonical(w),
                      user |-> UserOf(w), exp |-> now + CodeTtl]
             consent == [client |-> r.client, scopes |-> r.scopes, wallet |-> Canonical(w),
                         user |-> UserOf(w)]
  <2>2. code \in Code /\ consent \in Consent
    BY <1>0, <2>1, CanonicalFacts DEF Code, Consent
  <2>3. codes' = codes \cup {code} /\ consents' = consents \cup {consent}
    BY <1>2 DEF Approve
  <2> QED
    BY <1>2, <2>2, <2>3 DEF Approve
<1>3. ASSUME NEW c \in Clients, NEW d \in codes, Exchange(c, d)
      PROVE  TypeOK'
  <2>1. PICK later \in {now, now + 1} :
          /\ now' = later
          /\ IF d \in Kept(later)
             THEN consumed' = Kept(later) /\ UNCHANGED <<tokens, exchanged, repeated>>
             ELSE /\ consumed' = Kept(later) \cup {d}
                  /\ tokens' = tokens \cup Issued(d, d.scopes, later)
                  /\ exchanged' = exchanged \cup {d}
                  /\ repeated' = repeated \cup (exchanged \cap {d})
    BY <1>3 DEF Exchange
  <2>2. later \in Nat
    OBVIOUS
  <2>3. d \in Code /\ d.scopes \in SUBSET SupportedScopes
    BY DEF Code
  <2>4. Issued(d, d.scopes, later) \subseteq Token
    BY <2>2, <2>3, IssuedType
  <2>5. Kept(later) \subseteq consumed
    BY DEF Kept
  <2>6. UNCHANGED <<demoMode, requests, codes, pairing, connections, consents, paired, served>>
    BY <1>3 DEF Exchange
  <2> QED
    BY <2>1, <2>2, <2>3, <2>4, <2>5, <2>6
<1>4. ASSUME NEW c \in Clients, NEW t \in tokens, NEW s \in SUBSET SupportedScopes,
             Refresh(c, t, s)
      PROVE  TypeOK'
  <2>1. Issued(t, s, now) \subseteq Token
    BY IssuedType
  <2> QED
    BY <1>4, <2>1 DEF Refresh
<1>5. ASSUME NEW t \in tokens, NEW s \in SupportedScopes, CallTool(t, s)
      PROVE  TypeOK'
  <2>1. t.user \in Users /\ t.wallet \in StoredWallets
    BY DEF Token
  <2>2. [user |-> t.user, scope |-> s] \in Call
    BY <2>1 DEF Call
  <2> QED
    BY <1>5, <2>1, <2>2 DEF CallTool, claims
<1>6. ASSUME NEW s \in SupportedScopes, CallToolDemo(s)
      PROVE  TypeOK'
  BY <1>6 DEF CallToolDemo, Call, Users, claims
<1>7. ASSUME NEW w \in Wallets, CompletePairing(w)
      PROVE  TypeOK'
  <2>1. pairing \in Pairing
    BY <1>7 DEF CompletePairing, Pairable
  <2>2. [pairing EXCEPT !.used = TRUE] \in Pairing /\ pairing.user \in Users
    BY <2>1 DEF Pairing
  <2>3. w \in StoredWallets
    BY DEF StoredWallets
  <2> QED
    BY <1>7, <2>2, <2>3 DEF CompletePairing, claims
<1>8. CASE Tick
  BY <1>8 DEF Tick, claims
<1>9. CASE UNCHANGED vars
  BY <1>9 DEF vars, claims
<1> QED
  BY <1>1, <1>2, <1>3, <1>4, <1>5, <1>6, <1>7, <1>8, <1>9 DEF Next

\* Claims, rows and connections keep their types for ever.
THEOREM TypeCorrect == Spec => []TypeOK
BY InitTypeOK, NextTypeOK, PTL DEF Spec

-----------------------------------------------------------------------------
\* Consent.

\* What codes and tokens say was consented, and a consent names the user of its wallet.
ConsentInv ==
  /\ TokensStayWithinConsent
  /\ \A c \in codes : Consented(c.client, c.user, c.wallet, c.scopes)
  /\ \A a \in consents : a.user = [keys |-> a.wallet.keys, spelling |-> "lower"]

\* Consents are never withdrawn.
LEMMA ConsentsGrow == [Next]_vars => consents \subseteq consents'
BY DEF Next, vars, claims, Authorize, Approve, Exchange, Refresh, CallTool, CallToolDemo,
       CompletePairing, Tick

\* What was consented stays consented.
LEMMA ConsentedStays ==
  ASSUME consents \subseteq consents',
         NEW client, NEW user, NEW wallet, NEW scopes, NEW less \in SUBSET scopes,
         Consented(client, user, wallet, scopes)
  PROVE  Consented(client, user, wallet, less)'
BY DEF Consented

\* Tokens issued for a code or a refresh token, for its scopes or fewer, keep to its consent.
LEMMA IssuingKeepsConsent ==
  ASSUME ConsentInv, NEW d \in codes \cup tokens, NEW s \in SUBSET d.scopes, NEW at,
         tokens' \subseteq tokens \cup Issued(d, s, at), codes' = codes, consents' = consents
  PROVE  ConsentInv'
<1>1. Consented(d.client, d.user, d.wallet, s)
  BY DEF ConsentInv, TokensStayWithinConsent, Consented
<1>2. ASSUME NEW t \in Issued(d, s, at)
      PROVE  Consented(t.client, t.user, t.wallet, t.scopes)
  BY <1>1, IssuedFacts
<1>3. \A t \in tokens' : Consented(t.client, t.user, t.wallet, t.scopes)
  BY <1>2 DEF ConsentInv, TokensStayWithinConsent
<1> QED
  BY <1>3 DEF ConsentInv, TokensStayWithinConsent, Consented

\* Every step keeps codes and tokens within what was consented.
LEMMA NextConsentInv == TypeOK /\ ConsentInv /\ [Next]_vars => ConsentInv'
<1> SUFFICES ASSUME TypeOK, ConsentInv, [Next]_vars PROVE ConsentInv'
  OBVIOUS
<1>0. consents \subseteq consents'
  BY ConsentsGrow
<1>1. CASE UNCHANGED <<codes, tokens, consents>>
  BY <1>1 DEF ConsentInv, TokensStayWithinConsent, Consented
<1>2. ASSUME NEW r \in requests, NEW w \in Wallets, Approve(r, w)
      PROVE  ConsentInv'
  <2> DEFINE code == [client |-> r.client, scopes |-> r.scopes, wallet |-> Canonical(w),
                      user |-> UserOf(w), exp |-> now + CodeTtl]
             consent == [client |-> r.client, scopes |-> r.scopes, wallet |-> Canonical(w),
                         user |-> UserOf(w)]
  <2>1. /\ codes' = codes \cup {code} /\ consents' = consents \cup {consent}
        /\ tokens' = tokens
    BY <1>2 DEF Approve
  <2>2. consent.user = [keys |-> consent.wallet.keys, spelling |-> "lower"]
    BY CanonicalFacts
  <2>3. /\ consent \in consents' /\ consent.client = code.client
        /\ consent.user = code.user /\ consent.wallet = code.wallet
        /\ code.scopes \subseteq consent.scopes
    BY <2>1
  <2>4. ASSUME NEW c \in codes
        PROVE  Consented(c.client, c.user, c.wallet, c.scopes)'
    BY <1>0, ConsentedStays DEF ConsentInv
  <2>5. ASSUME NEW t \in tokens
        PROVE  Consented(t.client, t.user, t.wallet, t.scopes)'
    BY <1>0, ConsentedStays DEF ConsentInv, TokensStayWithinConsent
  <2>6. TokensStayWithinConsent'
    BY <2>1, <2>5 DEF TokensStayWithinConsent
  <2>7. \A c \in codes' : Consented(c.client, c.user, c.wallet, c.scopes)'
    <3> SUFFICES ASSUME NEW c \in codes'
                 PROVE  Consented(c.client, c.user, c.wallet, c.scopes)'
      OBVIOUS
    <3>1. CASE c \in codes
      BY <2>4, <3>1
    <3>2. CASE c = code
      BY <2>3, <3>2 DEF Consented
    <3> QED
      BY <2>1, <3>1, <3>2
  <2>8. \A a \in consents' : a.user = [keys |-> a.wallet.keys, spelling |-> "lower"]
    BY <2>1, <2>2 DEF ConsentInv
  <2> QED
    BY <2>6, <2>7, <2>8 DEF ConsentInv
<1>3. ASSUME NEW c \in Clients, NEW d \in codes, Exchange(c, d)
      PROVE  ConsentInv'
  <2>1. PICK later \in {now, now + 1} :
          IF d \in Kept(later) THEN UNCHANGED tokens
          ELSE tokens' = tokens \cup Issued(d, d.scopes, later)
    BY <1>3 DEF Exchange
  <2>2. codes' = codes /\ consents' = consents
    BY <1>3 DEF Exchange
  <2>3. tokens' \subseteq tokens \cup Issued(d, d.scopes, later)
    BY <2>1
  <2>4. d.scopes \in SUBSET d.scopes /\ d \in codes \cup tokens
    OBVIOUS
  <2> QED
    BY <2>2, <2>3, <2>4, IssuingKeepsConsent
<1>4. ASSUME NEW c \in Clients, NEW t \in tokens, NEW s \in SUBSET SupportedScopes,
             Refresh(c, t, s)
      PROVE  ConsentInv'
  <2>1. /\ s \in SUBSET t.scopes /\ tokens' \subseteq tokens \cup Issued(t, s, now)
        /\ codes' = codes /\ consents' = consents /\ t \in codes \cup tokens
    BY <1>4 DEF Refresh, Narrows
  <2> QED
    BY <2>1, IssuingKeepsConsent
<1> QED
  BY <1>1, <1>2, <1>3, <1>4
     DEF Next, vars, claims, Authorize, CallTool, CallToolDemo, CompletePairing, Tick

\* The consents hold from the start.
LEMMA InitConsentInv == Init => ConsentInv
BY DEF Init, ConsentInv, TokensStayWithinConsent

\* ConsentInv is an invariant.
LEMMA ConsentCorrect == Spec => []ConsentInv
BY InitConsentInv, NextConsentInv, TypeCorrect, PTL DEF Spec

\* No chain of exchanges and refreshes leaves what a Vault approved for the client.
THEOREM TokensCorrect == Spec => []TokensStayWithinConsent
<1>1. ConsentInv => TokensStayWithinConsent
  BY DEF ConsentInv
<1> QED
  BY <1>1, ConsentCorrect, PTL

\* Users and wallets are one to one, in any spelling and with any Casper address.
THEOREM UsersCorrect == Spec => []OneUserPerWallet
<1>1. \A x, y : [keys |-> x, spelling |-> "lower"] = [keys |-> y, spelling |-> "lower"]
               => x = y
  <2> SUFFICES ASSUME NEW x, NEW y,
                      [keys |-> x, spelling |-> "lower"] = [keys |-> y, spelling |-> "lower"]
               PROVE  x = y
    OBVIOUS
  <2>1. [keys |-> x, spelling |-> "lower"].keys = [keys |-> y, spelling |-> "lower"].keys
    OBVIOUS
  <2> QED
    BY <2>1
<1>2. ConsentInv => OneUserPerWallet
  <2> SUFFICES ASSUME ConsentInv, NEW a \in consents, NEW b \in consents
               PROVE  a.user = b.user <=> a.wallet.keys = b.wallet.keys
    BY DEF OneUserPerWallet
  <2>1. /\ a.user = [keys |-> a.wallet.keys, spelling |-> "lower"]
        /\ b.user = [keys |-> b.wallet.keys, spelling |-> "lower"]
    BY DEF ConsentInv
  <2> QED
    BY <1>1, <2>1
<1> QED
  BY <1>2, ConsentCorrect, PTL

-----------------------------------------------------------------------------
\* Calls and connections.

\* Every answered call keeps to what was consented.
LEMMA NextServed ==
  ConsentInv /\ ServedCallsWereConsented /\ [Next]_vars => ServedCallsWereConsented'
<1> SUFFICES ASSUME ConsentInv, ServedCallsWereConsented, [Next]_vars
             PROVE  ServedCallsWereConsented'
  OBVIOUS
<1>0. consents \subseteq consents' /\ demoMode' = demoMode
  BY ConsentsGrow DEF Next, vars, Authorize, Approve, Exchange, Refresh, CallTool,
     CallToolDemo, CompletePairing, Tick
<1>1. CASE served' = served
  BY <1>0, <1>1 DEF ServedCallsWereConsented
<1>2. ASSUME NEW t \in tokens, NEW s \in SupportedScopes, CallTool(t, s)
      PROVE  ServedCallsWereConsented'
  <2>1. \E a \in consents : a.user = t.user /\ s \in a.scopes
    BY <1>2 DEF CallTool, AllowedBy, ConsentInv, TokensStayWithinConsent, Consented
  <2>2. served' = served \cup {[user |-> t.user, scope |-> s]}
    BY <1>2 DEF CallTool
  <2> QED
    BY <1>0, <2>1, <2>2 DEF ServedCallsWereConsented
<1>3. ASSUME NEW s \in SupportedScopes, CallToolDemo(s)
      PROVE  ServedCallsWereConsented'
  <2>1. demoMode /\ served' = served \cup {[user |-> DemoUser, scope |-> s]}
    BY <1>3 DEF CallToolDemo
  <2> QED
    BY <1>0, <2>1 DEF ServedCallsWereConsented
<1> QED
  BY <1>1, <1>2, <1>3 DEF Next, vars, Authorize, Approve, Exchange, Refresh,
                          CompletePairing, Tick

\* Nobody is served as a user without that user's consent, but the demo user in demo mode.
THEOREM ServedCorrect == Spec => []ServedCallsWereConsented
<1>1. Init => ServedCallsWereConsented
  BY DEF Init, ServedCallsWereConsented
<1> QED
  BY <1>1, NextServed, ConsentCorrect, PTL DEF Spec

\* An unused pairing has connected nothing yet.
SourceInv ==
  /\ ConnectionsHaveASource
  /\ pairing # NoPairing /\ ~pairing.used => paired = {}

\* Every step keeps the connections' sources.
LEMMA NextSource == TypeOK /\ ConsentInv /\ SourceInv /\ [Next]_vars => SourceInv'
<1> SUFFICES ASSUME TypeOK, ConsentInv, SourceInv, [Next]_vars PROVE SourceInv'
  OBVIOUS
<1>0. consents \subseteq consents'
  BY ConsentsGrow
<1>1. CASE UNCHANGED <<pairing, paired, connections>>
  BY <1>0, <1>1 DEF SourceInv, ConnectionsHaveASource
<1>2. ASSUME NEW t \in tokens, NEW s \in SupportedScopes, CallTool(t, s)
      PROVE  SourceInv'
  <2>1. \E a \in consents : a.user = t.user /\ a.wallet = t.wallet
    BY DEF ConsentInv, TokensStayWithinConsent, Consented
  <2>2. /\ connections' = [connections EXCEPT ![t.user] = t.wallet]
        /\ pairing' = pairing /\ paired' = paired /\ consents' = consents
    BY <1>2 DEF CallTool
  <2> QED
    BY <2>1, <2>2 DEF SourceInv, ConnectionsHaveASource, TypeOK
<1>3. ASSUME NEW w \in Wallets, CompletePairing(w)
      PROVE  SourceInv'
  <2>1. pairing \in Pairing /\ paired = {}
    BY <1>3 DEF CompletePairing, Pairable, SourceInv, TypeOK
  <2>2. /\ connections' = [connections EXCEPT ![pairing.user] = w]
        /\ paired' = {w} /\ consents' = consents
        /\ pairing' = [pairing EXCEPT !.used = TRUE]
    BY <1>3, <2>1 DEF CompletePairing
  <2>3. pairing'.used
    BY <2>1, <2>2 DEF Pairing
  <2>4. ConnectionsHaveASource'
    BY <2>1, <2>2 DEF SourceInv, ConnectionsHaveASource, TypeOK
  <2> QED
    BY <2>3, <2>4 DEF SourceInv
<1> QED
  BY <1>1, <1>2, <1>3 DEF Next, vars, claims, Authorize, Approve, Exchange, Refresh,
                          CallToolDemo, Tick

\* Whatever is connected for a user was approved for that user, or is the one wallet of the
\* pairing.
THEOREM ConnectionsCorrect == Spec => []ConnectionsHaveASource
<1>1. Init => SourceInv
  BY DEF Init, SourceInv, ConnectionsHaveASource
<1>2. SourceInv => ConnectionsHaveASource
  BY DEF SourceInv
<1> QED
  BY <1>1, <1>2, NextSource, ConsentCorrect, TypeCorrect, PTL DEF Spec

-----------------------------------------------------------------------------
\* Codes.

\* A code that was exchanged and has not expired is in the table.
CodeInv ==
  /\ ValidCodeIsNotExchangedTwice
  /\ \A c \in exchanged : Live(c) => c \in consumed

\* Every step keeps exchanged codes in the table until they expire.
LEMMA NextCodeInv == TypeOK /\ CodeInv /\ [Next]_vars => CodeInv'
<1> SUFFICES ASSUME TypeOK, CodeInv, [Next]_vars PROVE CodeInv'
  OBVIOUS
<1>0. \A c \in Code : c.exp \in Nat
  BY DEF Code
<1>1. CASE UNCHANGED <<now, consumed, exchanged, repeated>>
  BY <1>1 DEF CodeInv, ValidCodeIsNotExchangedTwice, Live
<1>2. CASE Tick
  <2>1. now' = now + 1 /\ UNCHANGED <<consumed, exchanged, repeated>>
    BY <1>2 DEF Tick
  <2>2. ASSUME NEW c \in exchanged \cup repeated, Live(c)'
        PROVE  Live(c)
    BY <1>0, <2>1, <2>2 DEF Live, TypeOK
  <2> QED
    BY <2>1, <2>2 DEF CodeInv, ValidCodeIsNotExchangedTwice
<1>3. ASSUME NEW h \in Clients, NEW d \in codes, Exchange(h, d)
      PROVE  CodeInv'
  <2>1. PICK later \in {now, now + 1} :
          /\ now' = later
          /\ IF d \in Kept(later)
             THEN consumed' = Kept(later) /\ UNCHANGED <<exchanged, repeated>>
             ELSE /\ consumed' = Kept(later) \cup {d}
                  /\ exchanged' = exchanged \cup {d}
                  /\ repeated' = repeated \cup (exchanged \cap {d})
    BY <1>3 DEF Exchange
  <2>2. ASSUME NEW c \in exchanged \cup repeated, Live(c)'
        PROVE  Live(c)
    BY <1>0, <2>1, <2>2 DEF Live, TypeOK
  <2>3. ASSUME NEW c \in exchanged, Live(c)'
        PROVE  c \in Kept(later)
    <3>1. c \in consumed
      BY <2>2, <2>3 DEF CodeInv
    <3> QED
      BY <2>1, <2>3, <3>1 DEF Live, Kept
  <2>4. CASE d \in Kept(later)
    <3>1. consumed' = Kept(later) /\ exchanged' = exchanged /\ repeated' = repeated
      BY <2>1, <2>4
    <3> QED
      BY <2>2, <2>3, <3>1 DEF CodeInv, ValidCodeIsNotExchangedTwice
  <2>5. CASE d \notin Kept(later)
    <3>1. /\ consumed' = Kept(later) \cup {d} /\ exchanged' = exchanged \cup {d}
          /\ repeated' = repeated \cup (exchanged \cap {d})
      BY <2>1, <2>5
    <3>2. \A c \in exchanged' : Live(c)' => c \in consumed'
      BY <2>3, <3>1
    <3>3. \A c \in repeated' : ~Live(c)'
      BY <2>2, <2>3, <2>5, <3>1 DEF CodeInv, ValidCodeIsNotExchangedTwice
    <3> QED
      BY <3>2, <3>3 DEF CodeInv, ValidCodeIsNotExchangedTwice
  <2> QED
    BY <2>4, <2>5
<1> QED
  BY <1>1, <1>2, <1>3 DEF Next, vars, claims, Authorize, Approve, Refresh, CallTool,
                          CallToolDemo, CompletePairing

\* A code is exchanged a second time only by the exchange during which it expires.
THEOREM CodesCorrect == Spec => []ValidCodeIsNotExchangedTwice
<1>1. Init => CodeInv
  BY DEF Init, CodeInv, ValidCodeIsNotExchangedTwice
<1>2. CodeInv => ValidCodeIsNotExchangedTwice
  BY DEF CodeInv
<1> QED
  BY <1>1, <1>2, NextCodeInv, TypeCorrect, PTL DEF Spec
=======================================================================================
