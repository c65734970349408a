--------------------------------- MODULE WalletProofs ---------------------------------
(***************************************************************************)
(* Proofs about the two ends of a wallet.  The Vault page, which holds its *)
(* keys (Vault): whose signatures the server broadcasts, with whose phrase *)
(* a tab signs, and that the wallet a tab shows is the one that is         *)
(* stored.  The adapter that reads its balances (BalanceCache): how old an *)
(* answer is, and when a later one may be older than an earlier one.  No   *)
(* step of one is a step of the other; the module holds the theorems of    *)
(* both.                                                                   *)
(***************************************************************************)
EXTENDS Vault, BalanceCache, FiniteSetTheorems, TLAPS

---------------------------------------------------------------------------------------
(* Vault                                                                               *)


\* What tab t waits for fits the screen it shows, wherever the user went meanwhile: a
\* phrase is saved on the password screen only and a payment submitted on its review.
WaitInv(r) ==
  /\ r.op.kind \in {"encrypt", "check"} =>
       r.step = "password" /\ r.mnemonic \in Phrases /\ r.op.by \in Spellings
  /\ r.step \in {"phrase", "password"} => r.mnemonic \in Phrases
  /\ r.op.kind = "submit" => r.step = "sign"
  /\ r.step = "sign" => r.op.kind \in {"none", "submit"} /\ r.request \in Transactions
  /\ r.step = "signed" => r.op.kind = "none"
  /\ r.op.kind \in {"unlock", "fetch", "read", "connect"} =>
       r.op.blob \in Vaults /\ r.vault \in {NoVault, r.op.blob}
  /\ r.op.kind = "unlock" => r.op.by \in Spellings
  /\ r.op.kind \in {"fetch", "read"} => r.op.blob.addresses = r.op.blob.phrase
  /\ r.op.kind = "read" => r.op.tx \in Transactions
  /\ r.op.kind = "stuck" => r.step = "password"

\* What an opened wallet shows, holds and has sent.  While a payment is read the phrase
\* is already that of the vault being opened.
OpenInv(r) ==
  /\ r.op.kind = "read" => r.held \in {NoPhrase, r.op.blob.phrase}
  /\ r.step = "sign" /\ r.held # NoPhrase /\ r.vault # NoVault => r.vault.phrase = r.held
  /\ r.step \in {"ready", "sign", "signed"} /\ r.vault # NoVault =>
       r.vault.addresses = r.vault.phrase
  /\ r.step = "signed" => r.sent # NoPhrase /\ r.held = NoPhrase

\* The wallet of a tab is in the storage unless another tab wrote there, or a phrase is
\* being saved; then, once the vault is made, that one is.
StoredInv(t) ==
  writer \in {NoTab, t} =>
    /\ tab[t].vault # NoVault =>
         \/ storage = tab[t].vault
         \/ tab[t].step = "password" /\ tab[t].op.kind \in {"none", "encrypt", "check", "stuck"}
    /\ tab[t].op.kind = "check" => storage = Encrypt(tab[t].mnemonic, tab[t].op.by)

Inv ==
  /\ TypeOK
  /\ \A t \in Tabs : WaitInv(tab[t]) /\ OpenInv(tab[t]) /\ StoredInv(t)

\* The steps of tab t.
Acts(t) ==
  \/ Load(t) \/ Create(t) \/ Verify(t) \/ ToRestore(t) \/ BackToWelcome(t)
  \/ Restore(t) \/ Save(t) \/ Unlock(t) \/ Remove(t) \/ SignAndSubmit(t)
  \/ RejectSign(t) \/ BackToWallet(t) \/ Connect(t) \/ Settle(t)

-----------------------------------------------------------------------------
\* The vault and the signatures.

\* Parse keeps a vault and takes nothing else for one.
LEMMA ParseFacts ==
  ASSUME NEW stored
  PROVE  Parse(stored) \in Vaults \cup {NoVault} /\
         (Parse(stored) # NoVault => Parse(stored) = stored)
BY DEF Parse

\* An encrypted phrase is a vault, with the phrase's own addresses, and every spelling of
\* the password opens it.
LEMMA EncryptFacts ==
  ASSUME NEW phrase \in Phrases, NEW s \in Spellings
  PROVE  /\ Encrypt(phrase, s) \in Vaults /\ Encrypt(phrase, s) # NoVault
         /\ Encrypt(phrase, s).phrase = phrase /\ Encrypt(phrase, s).addresses = phrase
         /\ \A other \in Spellings :
              Nfkc[other] = Nfkc[s] => Decrypts(Encrypt(phrase, s), other)
<1>1. Nfkc[s] \in Spellings
  BY ConstantsAssumption
<1>2. Encrypt(phrase, s) \in Vaults
  BY <1>1 DEF Encrypt, Vaults
<1> QED
  BY <1>2, NoVaultAssumption DEF Encrypt, Decrypts

\* A signature the server takes is the connected wallet's, and a Casper deploy was built
\* for the phrase that signed it.
LEMMA ValidFacts ==
  ASSUME NEW phrase, NEW tx \in Transactions, NEW wallet,
         NEW s \in Signed(phrase, tx), Valid(s, tx, wallet)
  PROVE  s.by = wallet /\ s.by = phrase /\ (tx.family = "CASPER" => tx.sender = phrase)
BY DEF Signed, Valid, ValidUnderWallet, ValidUnderSentKey

\* Waiting for nothing.
LEMMA NoOpType == NoOp \in Ops
BY DEF NoOp, Ops

\* A page that is opened shows the stored vault, or none, and waits for nothing.
LEMMA OpenedFacts ==
  ASSUME NEW link \in {"none", "sign", "connect"}
  PROVE  /\ Opened(link) \in TabTypes
         /\ WaitInv(Opened(link)) /\ OpenInv(Opened(link))
         /\ Opened(link).op = NoOp
         /\ Opened(link).sent = NoPhrase
         /\ Opened(link).step \in {"welcome", "unlock"}
         /\ Opened(link).vault # NoVault => Opened(link).vault = storage
<1>1. Parse(storage) \in Vaults \cup {NoVault}
      /\ (Parse(storage) # NoVault => Parse(storage) = storage)
  BY ParseFacts
<1> QED
  BY <1>1, NoOpType DEF Opened, TabTypes, WaitInv, OpenInv, Steps, NoOp

-----------------------------------------------------------------------------
\* Steps.

\* A step of tab t leaves the other tabs as they are, and the storage too unless t is then
\* the tab that changed it last.
OnlyTab(t) ==
  /\ tab' = [u \in Tabs |-> IF u = t THEN tab'[t] ELSE tab[u]]
  /\ (storage' = storage /\ writer' = writer) \/ writer' = t

\* Every action of a tab is a step of that tab alone.
LEMMA ActsOnlyTab ==
  ASSUME TypeOK, NEW t \in Tabs, Acts(t)
  PROVE  OnlyTab(t)
<1> USE DEF TypeOK, OnlyTab
<1>1. CASE Load(t)
  BY <1>1 DEF Load
<1>2. CASE Create(t) \/ Verify(t) \/ ToRestore(t) \/ BackToWelcome(t) \/ Restore(t)
  BY <1>2 DEF Create, Verify, ToRestore, BackToWelcome, Restore, Goes
<1>3. CASE Save(t) \/ Unlock(t) \/ SignAndSubmit(t) \/ Connect(t)
  BY <1>3 DEF Save, Unlock, SignAndSubmit, Connect, Begins
<1>4. CASE Remove(t)
  BY <1>4 DEF Remove, Store
<1>5. CASE RejectSign(t) \/ BackToWallet(t)
  BY <1>5 DEF RejectSign, BackToWallet
<1>6. CASE SaveEncrypted(t)
  BY <1>6 DEF SaveEncrypted, Store
<1>7. CASE SaveChecked(t)
  BY <1>7 DEF SaveChecked
<1>8. CASE SaveFails(t) \/ PutBackFails(t)
  BY <1>8 DEF SaveFails, PutBackFails, Store
<1>9. CASE Unlocked(t)
  BY <1>9 DEF Unlocked
<1>10. CASE Fetched(t) \/ FetchedRead(t)
  BY <1>10 DEF Fetched, FetchedRead
<1>11. CASE Submitted(t)
  BY <1>11 DEF Submitted
<1>12. CASE Connected(t)
  BY <1>12 DEF Connected
<1>13. CASE RequestFails(t)
  BY <1>13 DEF RequestFails
<1> QED
  BY <1>1, <1>2, <1>3, <1>4, <1>5, <1>6, <1>7, <1>8, <1>9, <1>10, <1>11, <1>12, <1>13
  DEF Acts, Settle

\* The type of a tab whose screen and phrase change.
LEMMA PhraseChanges ==
  ASSUME NEW r \in TabTypes, NEW step \in Steps, NEW mnemonic \in Phrases \cup {NoPhrase}
  PROVE  [r EXCEPT !.step = step, !.mnemonic = mnemonic] \in TabTypes
BY DEF TabTypes

\* The type of a tab whose vault and work change with them.
LEMMA VaultChanges ==
  ASSUME NEW r \in TabTypes, NEW step \in Steps, NEW mnemonic \in Phrases \cup {NoPhrase},
         NEW vault \in Vaults \cup {NoVault}, NEW op \in Ops
  PROVE  [r EXCEPT !.vault = vault, !.mnemonic = mnemonic, !.step = step, !.op = op]
           \in TabTypes
BY DEF TabTypes

\* The type of a tab whose work changes.
LEMMA WorkChanges ==
  ASSUME NEW r \in TabTypes, NEW op \in Ops
  PROVE  [r EXCEPT !.op = op] \in TabTypes
BY DEF TabTypes

\* The work of a tab that saves no more.
LEMMA StuckOp ==
  /\ [NoOp EXCEPT !.kind = "stuck"] \in Ops
  /\ [NoOp EXCEPT !.kind = "stuck"].kind = "stuck"
BY DEF Ops, NoOp

\* The type of a tab that shows a payment.
LEMMA PaymentShown ==
  ASSUME NEW r \in TabTypes, NEW tx \in Transactions
  PROVE  [r EXCEPT !.request = tx, !.step = "sign", !.op = NoOp] \in TabTypes
BY NoOpType DEF TabTypes, Steps

\* The work of a tab once the payment arrived.
LEMMA ReadingOp ==
  ASSUME NEW op \in Ops, NEW tx \in Transactions
  PROVE  \E read \in Ops :
           /\ read = [op EXCEPT !.kind = "read", !.tx = tx]
           /\ read.kind = "read" /\ read.tx = tx /\ read.blob = op.blob
<1>1. [op EXCEPT !.kind = "read", !.tx = tx] \in Ops
  BY DEF Ops
<1>2. /\ [op EXCEPT !.kind = "read", !.tx = tx].kind = "read"
      /\ [op EXCEPT !.kind = "read", !.tx = tx].tx = tx
      /\ [op EXCEPT !.kind = "read", !.tx = tx].blob = op.blob
  BY DEF Ops
<1> QED
  BY <1>1, <1>2

\* What it stores is a vault, nothing, or what was there when it began to save; and what
\* it connects are addresses.
LEMMA ActsStore ==
  ASSUME TypeOK, NEW t \in Tabs, WaitInv(tab[t]), Acts(t)
  PROVE  /\ storage' \in Vaults \cup {NoVault, Malformed}
         /\ connected' \in Phrases \cup {NoPhrase}
<1>0. tab[t] \in TabTypes
  BY DEF TypeOK
<1> USE DEF TypeOK
<1>1. CASE Remove(t)
  BY <1>1 DEF Remove, Store
<1>2. CASE SaveEncrypted(t)
  BY <1>2, EncryptFacts DEF SaveEncrypted, Store, Kept, Waits, WaitInv
<1>3. CASE SaveFails(t)
  BY <1>0, <1>3 DEF SaveFails, Store, TabTypes, Ops
<1>4. CASE Connected(t)
  BY <1>4 DEF Connected, Waits, WaitInv, Vaults
<1>5. CASE UNCHANGED <<storage, connected>>
  BY <1>5
<1> QED
  BY <1>1, <1>2, <1>3, <1>4, <1>5
  DEF Acts, Settle, Load, Create, Verify, ToRestore, BackToWelcome, Restore, Save, Unlock,
      SignAndSubmit, RejectSign, BackToWallet, Connect, SaveChecked, PutBackFails, Unlocked,
      Fetched, FetchedRead, Submitted, RequestFails, Goes, Begins

\* What a step of tab t makes of it: its types and its invariants are kept.
LEMMA ActsKeepTab ==
  ASSUME TypeOK, NEW t \in Tabs, WaitInv(tab[t]), OpenInv(tab[t]), Acts(t)
  PROVE  tab'[t] \in TabTypes /\ WaitInv(tab'[t]) /\ OpenInv(tab'[t])
<1>0. tab[t] \in TabTypes /\ storage \in Vaults \cup {NoVault, Malformed}
  BY DEF TypeOK
<1> USE <1>0, ConstantsAssumption, NoVaultAssumption DEF TypeOK
<1>1. CASE Load(t)
  <2>1. PICK link \in LinksOf[t] : tab'[t] = Opened(link)
    BY <1>1 DEF Load
  <2>2. link \in {"none", "sign", "connect"}
    OBVIOUS
  <2> QED
    BY <2>1, <2>2, OpenedFacts
<1>2. CASE Create(t)
  <2>1. PICK p \in Phrases :
          tab'[t] = [tab[t] EXCEPT !.step = "phrase", !.mnemonic = p]
    BY <1>2 DEF Create
  <2>2. tab[t].step = "welcome"
    BY <1>2 DEF Create
  <2>3. tab'[t] \in TabTypes
    <3>1. "phrase" \in Steps /\ p \in Phrases \cup {NoPhrase}
      BY DEF Steps
    <3>2. [tab[t] EXCEPT !.step = "phrase", !.mnemonic = p] \in TabTypes
      BY <1>0, <3>1, PhraseChanges
    <3> QED
      BY <2>1, <3>2
  <2>4. WaitInv(tab'[t])
    BY <2>1, <2>2 DEF NoOp, WaitInv, TabTypes
  <2>5. OpenInv(tab'[t])
    BY <2>1, <2>2 DEF WaitInv, OpenInv, TabTypes
  <2> QED
    BY <2>3, <2>4, <2>5
<1>3. CASE Verify(t)
  BY <1>3 DEF Verify, Goes, TabTypes, Steps, Ops, WaitInv, OpenInv
<1>4. CASE ToRestore(t) \/ BackToWelcome(t)
  <2>1. PICK to \in {"restore", "welcome"} : tab'[t] = [tab[t] EXCEPT !.step = to]
    BY <1>4 DEF ToRestore, BackToWelcome, Goes
  <2>2. tab[t].step \in {"welcome", "unlock", "restore"}
    BY <1>4 DEF ToRestore, BackToWelcome, Goes
  <2> QED
    BY <2>1, <2>2 DEF NoOp, TabTypes, Steps, Ops, WaitInv, OpenInv
<1>5. CASE Restore(t)
  <2>1. PICK p \in Phrases :
          tab'[t] = [tab[t] EXCEPT !.step = "password", !.mnemonic = p]
    BY <1>5 DEF Restore
  <2>2. tab[t].step = "restore"
    BY <1>5 DEF Restore
  <2>3. tab'[t] \in TabTypes
    <3>1. "password" \in Steps /\ p \in Phrases \cup {NoPhrase}
      BY DEF Steps
    <3>2. [tab[t] EXCEPT !.step = "password", !.mnemonic = p] \in TabTypes
      BY <1>0, <3>1, PhraseChanges
    <3> QED
      BY <2>1, <3>2
  <2>4. WaitInv(tab'[t])
    BY <2>1, <2>2 DEF NoOp, WaitInv, TabTypes
  <2>5. OpenInv(tab'[t])
    BY <2>1, <2>2 DEF WaitInv, OpenInv, TabTypes
  <2> QED
    BY <2>3, <2>4, <2>5
<1>6. CASE Save(t)
  <2>1. PICK s \in Spellings :
          tab'[t] = [tab[t] EXCEPT !.op = [kind |-> "encrypt", by |-> s, blob |-> storage,
                                           tx |-> NoTx]]
    BY <1>6 DEF Save, Begins
  <2>2. tab[t].step = "password"
    BY <1>6 DEF Save
  <2>3. tab'[t] \in TabTypes
    <3>1. [kind |-> "encrypt", by |-> s, blob |-> storage, tx |-> NoTx] \in Ops
      BY <1>0 DEF Ops
    <3> QED
      BY <1>0, <2>1, <3>1, WorkChanges
  <2>4. WaitInv(tab'[t])
    BY <2>1, <2>2 DEF NoOp, TabTypes, WaitInv
  <2>5. OpenInv(tab'[t])
    BY <2>1, <2>2 DEF OpenInv, TabTypes
  <2> QED
    BY <2>3, <2>4, <2>5
<1>7. CASE Unlock(t)
  <2>1. PICK s \in Spellings :
          tab'[t] = [tab[t] EXCEPT !.op = [kind |-> "unlock", by |-> s,
                                           blob |-> tab[t].vault, tx |-> NoTx]]
    BY <1>7 DEF Unlock, Begins
  <2>2. tab[t].step = "unlock" /\ tab[t].vault \in Vaults
    BY <1>7 DEF Unlock, TabTypes
  <2>3. tab'[t] \in TabTypes
    <3>1. [kind |-> "unlock", by |-> s, blob |-> tab[t].vault, tx |-> NoTx] \in Ops
      BY <1>0, <2>2 DEF Ops
    <3> QED
      BY <1>0, <2>1, <3>1, WorkChanges
  <2>4. WaitInv(tab'[t])
    BY <2>1, <2>2 DEF WaitInv, TabTypes
  <2>5. OpenInv(tab'[t])
    BY <2>1, <2>2 DEF OpenInv, TabTypes
  <2> QED
    BY <2>3, <2>4, <2>5
<1>8. CASE Remove(t)
  BY <1>8 DEF Remove, TabTypes, Steps, Ops, WaitInv, OpenInv
<1>9. CASE SignAndSubmit(t)
  <2>1. PICK op \in Ops : op = [kind |-> "submit", by |-> NoTab, blob |-> NoVault, tx |-> NoTx]
    BY DEF Ops
  <2>2. tab'[t] = [tab[t] EXCEPT !.op = op] /\ op.kind = "submit" /\ tab[t].step = "sign"
    BY <1>9, <2>1 DEF SignAndSubmit, Begins
  <2>3. tab'[t] \in TabTypes
    BY <2>2, WorkChanges
  <2> QED
    BY <2>2, <2>3 DEF TabTypes, WaitInv, OpenInv
<1>10. CASE RejectSign(t)
  BY <1>10 DEF RejectSign, Idle, NoOp, TabTypes, Steps, Ops, WaitInv, OpenInv
<1>11. CASE BackToWallet(t)
  BY <1>11 DEF BackToWallet, TabTypes, Steps, Ops, WaitInv, OpenInv
<1>12. CASE Connect(t)
  <2>1. tab[t].step = "ready" /\ tab[t].vault \in Vaults
    BY <1>12 DEF Connect, TabTypes
  <2>2. PICK op \in Ops : op = [kind |-> "connect", by |-> NoTab, blob |-> tab[t].vault,
                                tx |-> NoTx]
    BY <2>1 DEF Ops
  <2>3. tab'[t] = [tab[t] EXCEPT !.op = op] /\ op.kind = "connect" /\ op.blob = tab[t].vault
    BY <1>12, <2>2 DEF Connect, Begins
  <2>4. tab'[t] \in TabTypes
    BY <2>3, WorkChanges
  <2> QED
    BY <2>1, <2>3, <2>4 DEF TabTypes, WaitInv, OpenInv
<1>13. CASE SaveEncrypted(t)
  BY <1>13 DEF SaveEncrypted, Waits, TabTypes, Steps, Ops, WaitInv, OpenInv
<1>14. CASE SaveChecked(t)
  <2>1. PICK made : made = Encrypt(tab[t].mnemonic, tab[t].op.by)
    OBVIOUS
  <2>2. tab[t].mnemonic \in Phrases /\ tab[t].op.by \in Spellings
    BY <1>14 DEF SaveChecked, Waits, WaitInv
  <2>3. made \in Vaults /\ made # NoVault /\ made.addresses = made.phrase
    BY <2>1, <2>2, EncryptFacts
  <2>4. /\ tab'[t] = [tab[t] EXCEPT !.vault = made, !.mnemonic = NoPhrase,
                                    !.step = "ready", !.op = NoOp]
        /\ tab[t].step = "password"
    BY <1>14, <2>1 DEF SaveChecked, Waits, WaitInv
  <2>5. tab'[t] \in TabTypes
    <3>1. "ready" \in Steps /\ NoPhrase \in Phrases \cup {NoPhrase}
      BY DEF Steps
    <3>2. [tab[t] EXCEPT !.vault = made, !.mnemonic = NoPhrase, !.step = "ready",
                         !.op = NoOp] \in TabTypes
      BY <1>0, <2>3, <3>1, NoOpType, VaultChanges
    <3> QED
      BY <2>4, <3>2
  <2>6. WaitInv(tab'[t])
    BY <2>3, <2>4 DEF NoOp, WaitInv, TabTypes
  <2>7. /\ tab'[t].step = "ready" /\ tab'[t].op.kind = "none"
        /\ tab'[t].vault.addresses = tab'[t].vault.phrase
    BY <2>3, <2>4 DEF TabTypes, NoOp
  <2>8. OpenInv(tab'[t])
    BY <2>7 DEF OpenInv
  <2> QED
    BY <2>5, <2>6, <2>8
<1>15. CASE SaveFails(t)
  <2>1. /\ tab'[t] = [tab[t] EXCEPT !.op = NoOp]
        /\ tab[t].step = "password" /\ tab[t].mnemonic \in Phrases
    BY <1>15 DEF SaveFails, Waits, WaitInv
  <2>2. tab'[t] \in TabTypes
    BY <2>1, NoOpType, WorkChanges
  <2> QED
    BY <2>1, <2>2 DEF NoOp, TabTypes, WaitInv, OpenInv
<1>16. CASE Unlocked(t)
  BY <1>16 DEF Unlocked, Waits, Decrypts, NoOp, TabTypes, Steps, Ops, WaitInv, OpenInv
<1>17. CASE Fetched(t)
  <2>1. PICK tx \in Transactions :
          tab'[t] = [tab[t] EXCEPT !.held = tab[t].op.blob.phrase,
                                   !.op = [tab[t].op EXCEPT !.kind = "read", !.tx = tx]]
    <3>1. PICK f \in Families :
            tab'[t] = [tab[t] EXCEPT
                         !.held = tab[t].op.blob.phrase,
                         !.op = [tab[t].op EXCEPT !.kind = "read",
                                   !.tx = [family |-> f, sender |-> connected]]]
      BY <1>17 DEF Fetched
    <3>2. [family |-> f, sender |-> connected] \in Transactions
      BY <1>17 DEF Fetched, Transactions
    <3> QED
      BY <3>1, <3>2
  <2>2. /\ tab[t].op.kind = "fetch" /\ tab[t].op.blob \in Vaults
        /\ tab[t].vault \in {NoVault, tab[t].op.blob} /\ tab[t].step # "sign"
        /\ tab[t].op.blob.addresses = tab[t].op.blob.phrase
    BY <1>17 DEF Fetched, Waits, WaitInv
  <2>3. PICK op \in Ops :
          /\ op = [tab[t].op EXCEPT !.kind = "read", !.tx = tx]
          /\ op.kind = "read" /\ op.tx = tx /\ op.blob = tab[t].op.blob
    <3>1. PICK old \in Ops : old = tab[t].op
      BY DEF TabTypes
    <3>2. \E op \in Ops :
            /\ op = [old EXCEPT !.kind = "read", !.tx = tx]
            /\ op.kind = "read" /\ op.tx = tx /\ op.blob = old.blob
      BY <2>1, ReadingOp, Zenon
    <3> QED
      BY <3>1, <3>2
  <2>4. /\ tab'[t] = [tab[t] EXCEPT !.held = tab[t].op.blob.phrase, !.op = op]
        /\ tab[t].op.blob.phrase \in Phrases
    BY <2>1, <2>2, <2>3 DEF Vaults
  <2>5. tab'[t] \in TabTypes
    BY <2>4 DEF TabTypes
  <2>6. /\ tab'[t].op = op /\ tab'[t].held = tab[t].op.blob.phrase
        /\ tab'[t].step = tab[t].step /\ tab'[t].mnemonic = tab[t].mnemonic
        /\ tab'[t].vault = tab[t].vault /\ tab'[t].sent = tab[t].sent
    BY <2>4 DEF TabTypes
  <2>7. WaitInv(tab'[t])
    BY <2>2, <2>3, <2>6 DEF WaitInv
  <2>8. tab[t].step # "signed"
    BY <2>2 DEF WaitInv
  <2>9. OpenInv(tab'[t])
    BY <2>2, <2>3, <2>6, <2>8 DEF OpenInv
  <2> QED
    BY <2>5, <2>7, <2>9
<1>21. CASE FetchedRead(t)
  <2>1. /\ tab'[t] = [tab[t] EXCEPT !.request = tab[t].op.tx, !.step = "sign", !.op = NoOp]
        /\ tab[t].op.kind = "read" /\ tab[t].op.tx \in Transactions
        /\ tab[t].op.blob \in Vaults /\ tab[t].vault \in {NoVault, tab[t].op.blob}
        /\ tab[t].op.blob.addresses = tab[t].op.blob.phrase
        /\ tab[t].held \in {NoPhrase, tab[t].op.blob.phrase}
    BY <1>21 DEF FetchedRead, Waits, WaitInv, OpenInv
  <2>2. tab'[t] \in TabTypes
    <3>1. PICK tx \in Transactions : tx = tab[t].op.tx
      BY <2>1
    <3>2. [tab[t] EXCEPT !.request = tx, !.step = "sign", !.op = NoOp] \in TabTypes
      BY <1>0, PaymentShown
    <3> QED
      BY <2>1, <3>1, <3>2
  <2>3. /\ tab'[t].step = "sign" /\ tab'[t].op.kind = "none"
        /\ tab'[t].request \in Transactions
        /\ tab'[t].held = tab[t].held /\ tab'[t].vault = tab[t].vault
    BY <2>1 DEF TabTypes, NoOp
  <2>4. WaitInv(tab'[t])
    BY <2>3 DEF WaitInv
  <2>5. OpenInv(tab'[t])
    BY <2>1, <2>3 DEF OpenInv
  <2> QED
    BY <2>2, <2>4, <2>5
<1>22. CASE PutBackFails(t)
  <2>1. PICK op \in Ops : op = [NoOp EXCEPT !.kind = "stuck"] /\ op.kind = "stuck"
    BY NoOpType, StuckOp
  <2>2. /\ tab'[t] = [tab[t] EXCEPT !.op = op]
        /\ tab[t].step = "password" /\ tab[t].mnemonic \in Phrases
    BY <1>22, <2>1 DEF PutBackFails, Waits, WaitInv
  <2>3. tab'[t] \in TabTypes
    BY <2>2, WorkChanges
  <2> QED
    BY <2>1, <2>2, <2>3 DEF WaitInv, OpenInv, TabTypes
<1>18. CASE Submitted(t)
  <2>1. PICK s \in Signed(tab[t].held, tab[t].request), answered \in BOOLEAN :
          /\ Valid(s, tab[t].request, connected)
          /\ tab'[t] = [tab[t] EXCEPT
               !.sent = s.by,
               !.held = IF answered THEN NoPhrase ELSE @,
               !.request = IF answered THEN NoTx ELSE @,
               !.step = IF answered THEN "signed" ELSE @,
               !.op = NoOp]
    BY <1>18 DEF Submitted
  <2>2. /\ tab[t].step = "sign" /\ tab[t].request \in Transactions
        /\ connected \in Phrases
    BY <1>18 DEF Submitted, Waits, WaitInv
  <2>3. s.by \in Phrases
    BY <2>1, <2>2, ValidFacts
  <2>4. CASE answered
    <3>1. tab'[t] = [tab[t] EXCEPT !.sent = s.by, !.held = NoPhrase, !.request = NoTx,
                                   !.step = "signed", !.op = NoOp]
      BY <2>1, <2>4
    <3>2. tab'[t] \in TabTypes
      BY <2>2, <2>3, <3>1, NoOpType DEF TabTypes, Steps
    <3>3. WaitInv(tab'[t])
      BY <2>2, <2>3, <3>1 DEF NoOp, WaitInv, TabTypes
    <3>4. OpenInv(tab'[t])
      BY <2>2, <2>3, <3>1 DEF WaitInv, OpenInv, TabTypes
    <3> QED
      BY <3>2, <3>3, <3>4
  <2>5. CASE ~answered
    <3>1. tab'[t] = [tab[t] EXCEPT !.sent = s.by, !.op = NoOp]
      BY <2>1, <2>5
    <3>2. tab'[t] \in TabTypes
      BY <2>2, <2>3, <3>1, NoOpType DEF TabTypes, Steps
    <3>3. WaitInv(tab'[t])
      BY <2>2, <2>3, <3>1 DEF NoOp, WaitInv, TabTypes
    <3>4. /\ tab'[t].step = "sign" /\ tab'[t].op.kind = "none"
          /\ tab'[t].vault = tab[t].vault /\ tab'[t].held = tab[t].held
      BY <2>2, <3>1 DEF NoOp, TabTypes
    <3>5. OpenInv(tab'[t])
      BY <2>2, <3>4 DEF OpenInv
    <3> QED
      BY <3>2, <3>3, <3>5
  <2> QED
    BY <2>4, <2>5
<1>19. CASE Connected(t)
  <2>1. CASE tab'[t] = Opened("connect")
    BY <2>1, OpenedFacts
  <2>2. CASE tab'[t] = [tab[t] EXCEPT !.op = NoOp]
    <3>1. tab'[t] \in TabTypes
      BY <2>2, NoOpType DEF TabTypes
    <3> QED
      BY <2>2, <3>1 DEF NoOp, TabTypes, WaitInv, OpenInv
  <2> QED
    BY <1>19, <2>1, <2>2 DEF Connected
<1>20. CASE RequestFails(t)
  BY <1>20 DEF RequestFails, NoOp, TabTypes, Steps, Ops, WaitInv, OpenInv
<1> QED
  BY <1>1, <1>2, <1>3, <1>4, <1>5, <1>6, <1>7, <1>8, <1>9, <1>10, <1>11, <1>12, <1>13,
     <1>14, <1>15, <1>16, <1>17, <1>18, <1>19, <1>20, <1>21, <1>22
  DEF Acts, Settle

\* ... and the wallet it shows stays the stored one.
LEMMA ActsKeepStored ==
  ASSUME TypeOK, NEW t \in Tabs, WaitInv(tab[t]), StoredInv(t), Acts(t)
  PROVE  StoredInv(t)'
<1>0. tab[t] \in TabTypes /\ storage \in Vaults \cup {NoVault, Malformed}
      /\ writer \in Tabs \cup {NoTab}
  BY DEF TypeOK
<1>1. CASE Load(t)
  <2>1. PICK link \in LinksOf[t] : tab'[t] = Opened(link)
    BY <1>1 DEF Load, TypeOK
  <2>2. link \in {"none", "sign", "connect"}
    BY ConstantsAssumption
  <2>3. storage' = storage
    BY <1>1 DEF Load
  <2> QED
    BY <2>1, <2>2, <2>3, OpenedFacts DEF StoredInv, NoOp
<1>2. CASE Create(t) \/ Verify(t) \/ ToRestore(t) \/ BackToWelcome(t) \/ Restore(t)
  BY <1>0, <1>2 DEF TypeOK, Create, Verify, ToRestore, BackToWelcome, Restore, Goes,
     WaitInv, StoredInv, TabTypes
<1>3. CASE Save(t)
  BY <1>0, <1>3 DEF TypeOK, Save, Begins, StoredInv, TabTypes
<1>4. CASE Unlock(t) \/ SignAndSubmit(t) \/ Connect(t)
  BY <1>0, <1>4 DEF TypeOK, Unlock, SignAndSubmit, Connect, Begins, StoredInv, TabTypes
<1>5. CASE Remove(t)
  BY <1>0, <1>5 DEF TypeOK, Remove, WaitInv, StoredInv, TabTypes
<1>6. CASE RejectSign(t) \/ BackToWallet(t)
  BY <1>0, <1>6 DEF TypeOK, RejectSign, BackToWallet, WaitInv, StoredInv, TabTypes
<1>7. CASE SaveEncrypted(t)
  <2>1. /\ tab'[t] = [tab[t] EXCEPT !.op.kind = "check"] /\ tab[t].step = "password"
        /\ storage' = Encrypt(tab[t].mnemonic, tab[t].op.by)
    BY <1>7 DEF TypeOK, SaveEncrypted, Store, Kept, Waits, WaitInv
  <2>2. /\ tab'[t].mnemonic = tab[t].mnemonic /\ tab'[t].op.by = tab[t].op.by
        /\ tab'[t].op.kind = "check" /\ tab'[t].step = "password"
    BY <1>0, <2>1 DEF TabTypes, Ops
  <2>3. storage' = Encrypt(tab[t].mnemonic, tab[t].op.by)
    BY <2>1
  <2> QED
    BY <2>2, <2>3 DEF StoredInv, Encrypt
<1>8. CASE SaveChecked(t)
  <2>1. PICK made : made = Encrypt(tab[t].mnemonic, tab[t].op.by)
    OBVIOUS
  <2>2. /\ tab'[t].vault = made /\ tab'[t].op = NoOp /\ UNCHANGED <<storage, writer>>
        /\ tab[t].op.kind = "check"
    BY <1>0, <1>8, <2>1 DEF TypeOK, SaveChecked, Waits, TabTypes
  <2> QED
    BY <2>1, <2>2 DEF StoredInv, NoOp
<1>9. CASE SaveFails(t) \/ PutBackFails(t)
  BY <1>0, <1>9 DEF TypeOK, SaveFails, PutBackFails, Waits, WaitInv, NoOp, StoredInv, TabTypes
<1>10. CASE Unlocked(t)
  BY <1>0, <1>10 DEF TypeOK, Unlocked, Waits, WaitInv, NoOp, StoredInv, TabTypes, Ops
<1>11. CASE Fetched(t)
  <2>1. PICK op, phrase :
          /\ tab'[t] = [tab[t] EXCEPT !.held = phrase, !.op = op] /\ op.kind = "read"
          /\ UNCHANGED <<storage, writer>> /\ tab[t].op.kind = "fetch"
    <3>1. PICK tx :
            tab'[t] = [tab[t] EXCEPT !.held = tab[t].op.blob.phrase,
                                     !.op = [tab[t].op EXCEPT !.kind = "read", !.tx = tx]]
      BY <1>11 DEF TypeOK, Fetched
    <3>2. [tab[t].op EXCEPT !.kind = "read", !.tx = tx].kind = "read"
      BY <1>0 DEF TabTypes, Ops
    <3> QED
      BY <1>11, <3>1, <3>2 DEF Fetched, Waits
  <2>2. /\ tab'[t].vault = tab[t].vault /\ tab'[t].op.kind = "read"
        /\ UNCHANGED <<storage, writer>> /\ tab[t].op.kind = "fetch"
    BY <1>0, <2>1 DEF TabTypes
  <2> QED
    BY <2>2 DEF StoredInv
<1>15. CASE FetchedRead(t)
  <2>1. /\ tab'[t].vault = tab[t].vault /\ tab'[t].op.kind = "none"
        /\ UNCHANGED <<storage, writer>> /\ tab[t].op.kind = "read"
    BY <1>0, <1>15 DEF TypeOK, FetchedRead, Waits, NoOp, TabTypes
  <2> QED
    BY <2>1 DEF StoredInv
<1>12. CASE Submitted(t)
  BY <1>0, <1>12 DEF TypeOK, Submitted, Waits, WaitInv, NoOp, StoredInv, TabTypes
<1>13. CASE Connected(t)
  <2>1. tab'[t] = [tab[t] EXCEPT !.op = NoOp] \/ tab'[t] = Opened("connect")
    BY <1>13 DEF TypeOK, Connected
  <2>2. UNCHANGED <<storage, writer>> /\ tab[t].op.kind = "connect"
    BY <1>13 DEF Connected, Waits
  <2>3. CASE tab'[t] = Opened("connect")
    BY <2>2, <2>3, OpenedFacts DEF StoredInv, NoOp
  <2>4. CASE tab'[t] = [tab[t] EXCEPT !.op = NoOp]
    BY <1>0, <2>2, <2>4 DEF StoredInv, NoOp, TabTypes
  <2> QED
    BY <2>1, <2>3, <2>4
<1>14. CASE RequestFails(t)
  BY <1>0, <1>14 DEF TypeOK, RequestFails, Waits, WaitInv, NoOp, StoredInv, TabTypes
<1> QED
  BY <1>1, <1>2, <1>3, <1>4, <1>5, <1>6, <1>7, <1>8, <1>9, <1>10, <1>11, <1>12, <1>13,
     <1>14, <1>15
  DEF Acts, Settle

\* Init establishes the invariant.
LEMMA InitInv == Init => Inv
<1> SUFFICES ASSUME Init PROVE Inv
  OBVIOUS
<1>1. storage \in Vaults \cup {NoVault, Malformed}
  BY NoVaultAssumption DEF Init
<1>2. ASSUME NEW t \in Tabs
      PROVE  tab[t] \in TabTypes /\ WaitInv(tab[t]) /\ OpenInv(tab[t]) /\ StoredInv(t)
  <2>1. PICK u \in Tabs : \E link \in LinksOf[u] : tab[t] = Opened(link)
    BY DEF Init
  <2>2. PICK link \in LinksOf[u] : tab[t] = Opened(link)
    BY <2>1
  <2>3. link \in {"none", "sign", "connect"}
    BY ConstantsAssumption
  <2> QED
    BY <2>2, <2>3, OpenedFacts DEF StoredInv, NoOp
<1>3. tab \in [Tabs -> TabTypes]
  BY <1>2 DEF Init
<1> QED
  BY <1>1, <1>2, <1>3 DEF Init, Inv, TypeOK

\* Every step keeps it: what another tab stores is never taken for this tab's.
LEMMA NextInv == Inv /\ [Next]_vars => Inv'
<1> SUFFICES ASSUME Inv, [Next]_vars PROVE Inv'
  OBVIOUS
<1>0. TypeOK /\ \A t \in Tabs : WaitInv(tab[t]) /\ OpenInv(tab[t]) /\ StoredInv(t)
  BY DEF Inv
<1>1. CASE UNCHANGED vars
  BY <1>0, <1>1 DEF vars, Inv, TypeOK, StoredInv
<1>2. CASE Reconnect
  BY <1>0, <1>2 DEF Reconnect, Inv, TypeOK, StoredInv
<1>3. ASSUME NEW t \in Tabs, Acts(t)
      PROVE  Inv'
  <2>1. OnlyTab(t)
    BY <1>0, <1>3, ActsOnlyTab
  <2>2. tab'[t] \in TabTypes /\ WaitInv(tab'[t]) /\ OpenInv(tab'[t])
    BY <1>0, <1>3, ActsKeepTab
  <2>3. StoredInv(t)'
    BY <1>0, <1>3, ActsKeepStored
  <2>4. ASSUME NEW u \in Tabs, u # t
        PROVE  tab'[u] = tab[u] /\ StoredInv(u)'
    <3>1. tab'[u] = tab[u]
      BY <2>1, <2>4 DEF OnlyTab
    <3>2. writer' \in {NoTab, u} => storage' = storage /\ writer' = writer
      BY <2>1, <2>4, ConstantsAssumption DEF OnlyTab
    <3> QED
      BY <1>0, <3>1, <3>2 DEF StoredInv
  <2>5. tab' \in [Tabs -> TabTypes]
    BY <1>0, <2>1, <2>2 DEF OnlyTab, TypeOK
  <2>6. writer' \in Tabs \cup {NoTab}
    BY <1>0, <2>1 DEF OnlyTab, TypeOK
  <2>7. storage' \in Vaults \cup {NoVault, Malformed}
        /\ connected' \in Phrases \cup {NoPhrase}
    BY <1>0, <1>3, ActsStore
  <2> QED
    BY <1>0, <2>2, <2>3, <2>4, <2>5, <2>6, <2>7 DEF Inv, TypeOK
<1> QED
  BY <1>1, <1>2, <1>3 DEF Next, Acts

\* The invariant holds in every behaviour.
THEOREM InvCorrect == Spec => []Inv
<1> QED
  BY InitInv, NextInv, PTL DEF Spec

\* What the storage and the tabs hold has its type.
THEOREM TypeCorrect == Spec => []TypeOK
<1>1. Inv => TypeOK
  BY DEF Inv
<1> QED
  BY <1>1, InvCorrect, PTL

\* A payment is signed with the phrase of the vault the tab shows.
THEOREM SignerCorrect == Spec => []ReviewSignsWithTheShownVault
<1>1. Inv => ReviewSignsWithTheShownVault
  BY DEF Inv, OpenInv, ReviewSignsWithTheShownVault
<1> QED
  BY <1>1, InvCorrect, PTL

\* The wallet of the ready screen is stored until another tab writes to the storage.
THEOREM ReadyCorrect == Spec => []ReadyIsStored
<1>1. Inv => ReadyIsStored
  BY DEF Inv, StoredInv, ReadyIsStored
<1> QED
  BY <1>1, InvCorrect, PTL

\* The addresses a tab shows are derived from the phrase in its vault.
THEOREM ShownCorrect == Spec => []ShownAddressesAreDerived
<1>1. Inv => ShownAddressesAreDerived
  BY DEF Inv, OpenInv, ShownAddressesAreDerived
<1> QED
  BY <1>1, InvCorrect, PTL

\* "Payment broadcast" is shown for a broadcast payment, with the phrase gone.
THEOREM SignedCorrect == Spec => []SignedMeansSent
<1>1. Inv => SignedMeansSent
  BY DEF Inv, OpenInv, SignedMeansSent
<1> QED
  BY <1>1, InvCorrect, PTL

-----------------------------------------------------------------------------
\* Action properties.

\* What a step broadcasts is signed by the connected wallet.
BroadcastStep ==
  \A t \in Tabs : tab'[t].sent \notin {NoPhrase, tab[t].sent} =>
    /\ tab'[t].sent = connected
    /\ tab[t].request.family = "CASPER" => connected = tab[t].request.sender

\* Only the answer to a submission says that something was sent.
LEMMA SentBySubmission ==
  ASSUME TypeOK, NEW t \in Tabs, Acts(t), ~Submitted(t)
  PROVE  tab'[t].sent \in {NoPhrase, tab[t].sent}
<1>0. tab[t] \in TabTypes
  BY DEF TypeOK
<1>1. CASE Load(t)
  <2>1. PICK link \in LinksOf[t] : tab'[t] = Opened(link)
    BY <1>1 DEF Load, TypeOK
  <2>2. link \in {"none", "sign", "connect"}
    BY ConstantsAssumption
  <2> QED
    BY <2>1, <2>2, OpenedFacts
<1>2. CASE Connected(t)
  <2>1. tab'[t] = [tab[t] EXCEPT !.op = NoOp] \/ tab'[t] = Opened("connect")
    BY <1>2 DEF TypeOK, Connected
  <2> QED
    BY <1>0, <2>1, OpenedFacts DEF TabTypes
<1>3. CASE Create(t) \/ Verify(t) \/ ToRestore(t) \/ BackToWelcome(t) \/ Restore(t)
  BY <1>0, <1>3 DEF TypeOK, TabTypes, Create, Verify, ToRestore, BackToWelcome, Restore, Goes
<1>4. CASE Save(t) \/ Unlock(t) \/ SignAndSubmit(t) \/ Connect(t)
  BY <1>0, <1>4 DEF TypeOK, TabTypes, Save, Unlock, SignAndSubmit, Connect, Begins
<1>5. CASE Remove(t) \/ RejectSign(t) \/ BackToWallet(t)
  BY <1>0, <1>5 DEF TypeOK, TabTypes, Remove, RejectSign, BackToWallet
<1>6. CASE SaveEncrypted(t) \/ SaveFails(t) \/ PutBackFails(t) \/ RequestFails(t)
  BY <1>0, <1>6 DEF TypeOK, TabTypes, SaveEncrypted, SaveFails, PutBackFails, RequestFails
<1>7. CASE SaveChecked(t)
  BY <1>0, <1>7 DEF TypeOK, TabTypes, SaveChecked
<1>8. CASE Unlocked(t)
  BY <1>0, <1>8 DEF TypeOK, TabTypes, Unlocked
<1>9. CASE Fetched(t)
  <2>1. PICK op : tab'[t] = [tab[t] EXCEPT !.held = tab[t].op.blob.phrase, !.op = op]
    BY <1>9 DEF TypeOK, Fetched
  <2> QED
    BY <1>0, <2>1 DEF TabTypes
<1>10. CASE FetchedRead(t)
  BY <1>0, <1>10 DEF TypeOK, TabTypes, FetchedRead
<1> QED
  BY <1>1, <1>2, <1>3, <1>4, <1>5, <1>6, <1>7, <1>8, <1>9, <1>10
  DEF Acts, Settle

\* The server broadcasts what the connected wallet signed, and a Casper payment of the
\* wallet it was built for.
THEOREM BroadcastsCorrect == Spec => BroadcastsAreOfTheConnectedWallet
<1>1. ASSUME Inv, [Next]_vars, NEW t \in Tabs, tab'[t].sent \notin {NoPhrase, tab[t].sent}
      PROVE  /\ tab'[t].sent = connected
             /\ tab[t].request.family = "CASPER" => connected = tab[t].request.sender
  <2>0. TypeOK /\ tab[t] \in TabTypes /\ WaitInv(tab[t])
    BY <1>1 DEF Inv, TypeOK
  <2>1. Acts(t)
    <3>1. CASE UNCHANGED tab
      BY <1>1, <3>1
    <3>2. ASSUME NEW u \in Tabs, Acts(u), u # t
          PROVE  FALSE
      <4>1. OnlyTab(u)
        BY <2>0, <3>2, ActsOnlyTab
      <4> QED
        BY <1>1, <3>2, <4>1 DEF OnlyTab
    <3> QED
      BY <1>1, <3>1, <3>2 DEF Next, Acts, Reconnect, vars
  <2>2. Submitted(t)
    BY <1>1, <2>0, <2>1, SentBySubmission
  <2>3. tab[t].request \in Transactions
    BY <2>0, <2>2 DEF Submitted, Waits, WaitInv
  <2>4. PICK s \in Signed(tab[t].held, tab[t].request) :
          Valid(s, tab[t].request, connected) /\ tab'[t].sent = s.by
    BY <2>0, <2>2 DEF Submitted, TypeOK, TabTypes
  <2> QED
    BY <2>3, <2>4, ValidFacts
<1>2. Inv /\ [Next]_vars => [BroadcastStep]_vars
  BY <1>1 DEF BroadcastStep
<1>3. Spec => [][BroadcastStep]_vars
  BY <1>2, InvCorrect, PTL DEF Spec
<1> QED
  BY <1>3 DEF BroadcastsAreOfTheConnectedWallet, BroadcastStep

\* What a step saves opens with every spelling of its password.
SavingStep ==
  \A t \in Tabs : Waits(t, "check") /\ tab'[t].step = "ready" =>
    \A s \in Spellings : Nfkc[s] = Nfkc[tab[t].op.by] => Decrypts(tab'[t].vault, s)

\* A tab that saves stays on the password screen and saves, unless it checks the vault,
\* fails, or is reloaded.
LEMMA SavingSteps ==
  ASSUME Inv, [Next]_vars, NEW t \in Tabs, Waits(t, "encrypt") \/ Waits(t, "check")
  PROVE  \/ tab'[t] = tab[t]
         \/ SaveEncrypted(t)
         \/ SaveChecked(t)
         \/ SaveFails(t)
         \/ PutBackFails(t)
         \/ tab'[t].step \in {"welcome", "unlock"}
<1>0. TypeOK /\ tab[t] \in TabTypes /\ tab[t].step = "password"
  BY DEF Inv, TypeOK, Waits, WaitInv
<1>1. CASE UNCHANGED tab
  BY <1>1
<1>2. ASSUME NEW u \in Tabs, Acts(u), u # t
      PROVE  tab'[t] = tab[t]
  BY <1>0, <1>2, ActsOnlyTab DEF OnlyTab
<1>3. CASE Load(t)
  <2>1. PICK link \in LinksOf[t] : tab'[t] = Opened(link)
    BY <1>0, <1>3 DEF Load, TypeOK
  <2>2. link \in {"none", "sign", "connect"}
    BY ConstantsAssumption
  <2> QED
    BY <2>1, <2>2, OpenedFacts
<1>4. ~Create(t) /\ ~Verify(t) /\ ~ToRestore(t) /\ ~BackToWelcome(t) /\ ~Restore(t)
  BY <1>0 DEF Create, Verify, ToRestore, BackToWelcome, Restore, Goes
<1>5. ~Unlock(t) /\ ~Remove(t) /\ ~SignAndSubmit(t) /\ ~RejectSign(t) /\ ~BackToWallet(t)
      /\ ~Connect(t)
  BY <1>0 DEF Unlock, Remove, SignAndSubmit, RejectSign, BackToWallet, Connect
<1>6. ~Save(t)
  BY DEF Save, Begins, Idle, NoOp, Waits
<1>7. /\ ~Unlocked(t) /\ ~Fetched(t) /\ ~FetchedRead(t) /\ ~Submitted(t) /\ ~Connected(t)
      /\ ~RequestFails(t)
  BY DEF Unlocked, Fetched, FetchedRead, Submitted, Connected, RequestFails, Waits
<1> QED
  BY <1>1, <1>2, <1>3, <1>4, <1>5, <1>6, <1>7
  DEF Next, Acts, Settle, Reconnect, vars

\* A saved vault opens with every spelling of its password.
THEOREM SavedCorrect == Spec => SavedVaultsOpenAlike
<1>1. ASSUME Inv, [Next]_vars, NEW t \in Tabs, Waits(t, "check"), tab'[t].step = "ready",
             NEW s \in Spellings, Nfkc[s] = Nfkc[tab[t].op.by]
      PROVE  Decrypts(tab'[t].vault, s)
  <2>0. /\ TypeOK /\ tab[t] \in TabTypes /\ tab[t].step = "password"
        /\ tab[t].mnemonic \in Phrases /\ tab[t].op.by \in Spellings
    BY <1>1 DEF Inv, TypeOK, Waits, WaitInv
  <2>1. SaveChecked(t)
    <3>1. CASE SaveEncrypted(t)
      BY <1>1, <3>1 DEF SaveEncrypted, Waits
    <3>2. CASE SaveFails(t) \/ PutBackFails(t)
      BY <1>1, <2>0, <3>2 DEF SaveFails, PutBackFails, TypeOK, TabTypes
    <3> QED
      BY <1>1, <2>0, <3>1, <3>2, SavingSteps
  <2>2. PICK made : made = Encrypt(tab[t].mnemonic, tab[t].op.by)
    OBVIOUS
  <2>3. tab'[t].vault = made
    BY <2>0, <2>1, <2>2 DEF SaveChecked, TypeOK, TabTypes
  <2>4. Decrypts(made, s)
    BY <1>1, <2>0, <2>2, EncryptFacts
  <2> QED
    BY <2>3, <2>4
<1>2. Inv /\ [Next]_vars => [SavingStep]_vars
  BY <1>1 DEF SavingStep
<1>3. Spec => [][SavingStep]_vars
  BY <1>2, InvCorrect, PTL DEF Spec
<1> QED
  BY <1>3 DEF SavedVaultsOpenAlike, SavingStep

---------------------------------------------------------------------------------------
(* BalanceCache                                                                      *)

\* The constants, one by one.
LEMMA CacheConstants ==
  /\ History \in Networks /\ Endpoints \in Nat /\ Endpoints >= 1
  /\ \A n \in Networks : TokensOf[n] \subseteq Tokens
  /\ RpcTimeout \in Nat /\ RpcTimeout >= 1 /\ CacheTtl \in Nat /\ MaxTime \in Nat
  /\ EtherscanTimeout \in Nat /\ EtherscanTimeout >= 1 /\ EtherscanKey \in BOOLEAN
  /\ NoWallet \notin Wallets
BY CacheAssumption

\* The time of one node more.
LEMMA OneNodeMore ==
  ASSUME NEW a \in Nat, NEW b \in Nat
  PROVE  a * b \in Nat /\ (a + 1) * b = a * b + b
OBVIOUS

\* More nodes take more time.
LEMMA MoreNodes ==
  ASSUME NEW a \in Nat, NEW b \in Nat, NEW t \in Nat, a <= b
  PROVE  a * t <= b * t
OBVIOUS

\* The time the sources before one may take.
Before(s, url) ==
  IF s[2] # "history" THEN (url - 1) * RpcTimeout
  ELSE IF url = 1 THEN 0 ELSE EtherscanTimeout

\* What the sources of a read may take, one after the other.
LEMMA SourceTimes ==
  ASSUME NEW s, NEW url \in 1 .. Sources(s)
  PROVE  /\ Before(s, url) \in Nat /\ TimeoutOf(s, url) \in Nat /\ TimeoutOf(s, url) >= 1
         /\ s[2] # "history" => TimeoutOf(s, url) = RpcTimeout
         /\ Before(s, 1) = 0 /\ Longest \in Nat
         /\ Before(s, url) + TimeoutOf(s, url) <= Longest
         /\ url < Sources(s) => Before(s, url + 1) = Before(s, url) + TimeoutOf(s, url)
<1>1. /\ RpcTimeout \in Nat /\ RpcTimeout >= 1 /\ Endpoints \in Nat /\ Endpoints >= 1
      /\ EtherscanTimeout \in Nat /\ EtherscanTimeout >= 1
  BY CacheConstants
<1> PICK all : all = Endpoints * RpcTimeout
  OBVIOUS
<1>2. all \in Nat
  BY <1>1, OneNodeMore
<1>3. /\ Longest \in Nat /\ all <= Longest
      /\ RpcTimeout + (IF EtherscanKey THEN EtherscanTimeout ELSE 0) <= Longest
  <2>1. Longest = LET history == RpcTimeout + IF EtherscanKey THEN EtherscanTimeout ELSE 0
                  IN IF all < history THEN history ELSE all
    BY DEF Longest
  <2> QED
    BY <1>1, <1>2, <2>1
<1>4. CASE s[2] # "history"
  <2>1. url \in 1 .. Endpoints /\ Sources(s) = Endpoints /\ TimeoutOf(s, url) = RpcTimeout
    BY <1>4 DEF Sources, TimeoutOf
  <2> PICK n \in Nat : n = url - 1 /\ url = n + 1
    BY <1>1, <2>1
  <2>2. /\ n * RpcTimeout \in Nat /\ url * RpcTimeout = n * RpcTimeout + RpcTimeout
        /\ url * RpcTimeout \in Nat
    BY <1>1, OneNodeMore
  <2>3. url * RpcTimeout <= all
    BY <1>1, <2>1, MoreNodes
  <2>4. Before(s, url) = n * RpcTimeout
    BY <1>4 DEF Before
  <2>5. Before(s, 1) = 0
    BY <1>1, <1>4 DEF Before
  <2>6. Before(s, url + 1) = url * RpcTimeout
    <3>1. (url + 1) - 1 = url
      BY <1>1, <2>1
    <3> QED
      BY <1>4, <3>1 DEF Before
  <2> QED
    BY <1>1, <1>2, <1>3, <2>1, <2>2, <2>3, <2>4, <2>5, <2>6
<1>5. CASE s[2] = "history" /\ EtherscanKey
  <2>1. Sources(s) = 2 /\ url \in 1 .. 2
    BY <1>5 DEF Sources
  <2>2. CASE url = 1
    BY <1>1, <1>3, <1>5, <2>1, <2>2 DEF Before, TimeoutOf
  <2>3. CASE url = 2
    BY <1>1, <1>3, <1>5, <2>1, <2>3 DEF Before, TimeoutOf
  <2> QED
    BY <2>1, <2>2, <2>3
<1>6. CASE s[2] = "history" /\ ~EtherscanKey
  <2>1. Sources(s) = 1 /\ url = 1
    BY <1>6 DEF Sources
  <2> QED
    BY <1>1, <1>3, <1>6, <2>1 DEF Before, TimeoutOf
<1> QED
  BY <1>4, <1>5, <1>6

\* A request lasts no longer than some time.
LEMMA LongestIsTime == Longest \in Nat
<1> PICK s : s = <<History, "history">>
  OBVIOUS
<1>1. 1 \in 1 .. Sources(s)
  BY DEF Sources
<1> QED
  BY <1>1, SourceTimes

\* What a read is at.
Read == Attempt \cup Value \cup {Empty}

\* An attempt is told from what a read came to.
LEMMA Kinds ==
  ASSUME NEW r \in Read
  PROVE  /\ IsAttempt(r) <=> r \in Attempt
         /\ r \in Value => r # Empty
BY DEF Read, IsAttempt, Attempt, Value, Empty

\* The subjects of a request's reads.
LEMMA Slot ==
  ASSUME NEW w \in Wallets, NEW s \in Slots
  PROVE  /\ s[1] \in Networks /\ s[2] \in Tokens \cup {"history"} /\ s = <<s[1], s[2]>>
         /\ s[2] # "history" => Subject(w, s) \in Subjects
         /\ Subject(w, s)[1] = s[1] /\ Subject(w, s)[2] = w
         /\ Subject(w, s)[3] = s[2]
BY DEF Slots, Subject, Subjects, Tokens

\* The two reads of a request are of two subjects.
LEMMA SlotsDiffer ==
  ASSUME NEW w, NEW s \in Slots, NEW x \in Slots,
         Subject(w, s) = Subject(w, x)
  PROVE  s = x
BY DEF Slots, Subject

\* A request that is being answered.
Typed(q) == \E slots \in SUBSET Slots : q \in Request(slots)

\* Its fields.
LEMMA TypedFacts ==
  ASSUME NEW q, Typed(q)
  PROVE  /\ q.user \in Users /\ q.wallet \in Wallets /\ q.failed \in BOOLEAN
         /\ DOMAIN q.reads \subseteq Slots
         /\ \A s \in DOMAIN q.reads : s \in Slots /\ q.reads[s] \in Read
BY DEF Typed, Request, Read

\* The request p is q after a step of its read s, which is now at r.
Follows(p, q, s, r) ==
  /\ Typed(p) /\ p.wallet = q.wallet /\ DOMAIN p.reads = DOMAIN q.reads
  /\ p.reads[s] = r /\ \A x \in DOMAIN q.reads : x # s => p.reads[x] = q.reads[x]

\* One of its reads fails.
LEMMA TypedFailure ==
  ASSUME NEW q, Typed(q), NEW s \in DOMAIN q.reads, NEW f \in BOOLEAN, NEW p,
         p = [q EXCEPT !.reads = [q.reads EXCEPT ![s] = Empty], !.failed = f]
  PROVE  Follows(p, q, s, Empty)
<1>1. PICK slots \in SUBSET Slots : q \in Request(slots)
  BY DEF Typed
<1> PICK reads : reads = [q.reads EXCEPT ![s] = Empty]
  OBVIOUS
<1>2. q.reads \in [slots -> Read] /\ Empty \in Read
  BY <1>1 DEF Request, Read
<1>3. /\ reads \in [slots -> Read] /\ reads[s] = Empty /\ DOMAIN reads = DOMAIN q.reads
      /\ \A x \in DOMAIN q.reads : x # s => reads[x] = q.reads[x]
  BY <1>2
<1>4. p \in Request(slots) /\ p.reads = reads /\ p.wallet = q.wallet
  BY <1>1, <1>3 DEF Request, Read
<1> QED
  BY <1>3, <1>4 DEF Typed, Follows

\* What becomes of a request when one of its reads is over: it goes on, or it fails, or it
\* is answered with the balances it read.
LEMMA ProceedFacts ==
  ASSUME CacheTypeOK, NEW c \in Calls, NEW q, Typed(q), Proceed(c, q)
  PROVE  /\ DOMAIN call' = Calls /\ \A d \in Calls : d # c => call'[d] = call[d]
         /\ \/ call'[c] = q /\ answer' = NoAnswer /\ newest' = newest
            \/ call'[c] = NoRequest /\ answer' = NoAnswer /\ newest' = newest
            \/ /\ call'[c] = NoRequest
               /\ \A b \in answer'.balances : \E s \in DOMAIN q.reads :
                    b = q.reads[s] /\ b \in Value
               /\ newest' \in [Subjects -> Nat]
               /\ \A k \in Subjects :
                    \/ newest'[k] = newest[k]
                    \/ \E s \in DOMAIN q.reads :
                         /\ q.reads[s] \in Value /\ q.reads[s].of = k
                         /\ newest'[k] = q.reads[s].asOf
<1>1. DOMAIN call = Calls /\ newest \in [Subjects -> Nat]
  BY DEF CacheTypeOK
<1>2. CASE \E s \in DOMAIN q.reads : IsAttempt(q.reads[s])
  BY <1>1, <1>2 DEF Proceed
<1>3. CASE ~\E s \in DOMAIN q.reads : IsAttempt(q.reads[s])
  <2> PICK values : values = {q.reads[s] : s \in DOMAIN q.reads} \ {Empty}
    OBVIOUS
  <2>1. /\ call' = [call EXCEPT ![c] = NoRequest]
        /\ IF q.failed THEN answer' = NoAnswer /\ newest' = newest
           ELSE /\ answer' = [wallet |-> q.wallet, balances |-> values]
                /\ newest' = [k \in Subjects |->
                     IF \E v \in values : v.of = k /\ v.asOf > newest[k]
                     THEN (CHOOSE v \in values : v.of = k).asOf ELSE newest[k]]
    BY <1>3 DEF Proceed
  <2>2. \A v \in values : v \in Value /\ \E s \in DOMAIN q.reads : v = q.reads[s]
    BY <1>3, Kinds, TypedFacts DEF Read
  <2>3. /\ DOMAIN call' = Calls /\ call'[c] = NoRequest
        /\ \A d \in Calls : d # c => call'[d] = call[d]
    BY <1>1, <2>1
  <2>4. CASE q.failed
    BY <2>1, <2>3, <2>4
  <2>5. CASE ~q.failed
    <3> HIDE DEF Value
    <3>1. /\ answer'.balances = values
          /\ newest' = [k \in Subjects |->
               IF \E v \in values : v.of = k /\ v.asOf > newest[k]
               THEN (CHOOSE v \in values : v.of = k).asOf ELSE newest[k]]
      BY <2>1, <2>5
    <3>2. ASSUME NEW k \in Subjects, newest'[k] # newest[k]
          PROVE  \E v \in values : v.of = k /\ newest'[k] = v.asOf
      <4>1. \E v \in values : v.of = k
        BY <3>1, <3>2
      <4> PICK v : v = CHOOSE x \in values : x.of = k
        OBVIOUS
      <4>2. v \in values /\ v.of = k
        BY <4>1
      <4>3. newest'[k] = v.asOf
        BY <3>1, <3>2
      <4> QED
        BY <4>2, <4>3
    <3>3. \A v \in values : v.asOf \in Nat
      BY <2>2 DEF Value
    <3>4. newest' \in [Subjects -> Nat]
      <4>1. \A k \in Subjects : newest'[k] \in Nat
        BY <1>1, <3>2, <3>3
      <4>2. newest' = [k \in Subjects |-> newest'[k]]
        BY <3>1
      <4> QED
        BY <4>1, <4>2
    <3>5. \A b \in answer'.balances : \E s \in DOMAIN q.reads :
            b = q.reads[s] /\ b \in Value
      BY <2>2, <3>1
    <3>6. \A k \in Subjects :
            \/ newest'[k] = newest[k]
            \/ \E s \in DOMAIN q.reads :
                 /\ q.reads[s] \in Value /\ q.reads[s].of = k
                 /\ newest'[k] = q.reads[s].asOf
      BY <2>2, <3>2
    <3> QED
      BY <2>3, <3>4, <3>5, <3>6
  <2> QED
    BY <2>4, <2>5, TypedFacts
<1> QED
  BY <1>2, <1>3

---------------------------------------------------------------------------------------
\* What is kept.

\* The request's reads are of a subject.
About(q, k) == \E s \in DOMAIN q.reads : k = Subject(q.wallet, s)

\* A read of a request that came at t0, when what is cached is ca, the newest readings ne,
\* the subjects with crossed requests cr and the time at.  Sources are asked one after the
\* other, each for its timeout, and a value was cached or read since the request came;
\* neither is behind the newest reading, and a value is the one that is cached.
ReadOK(q, s, t0, ca, ne, cr, at) ==
  LET k == Subject(q.wallet, s)
      r == q.reads[s]
  IN /\ r \in Attempt =>
          /\ r.url <= Sources(s) /\ t0 <= r.since /\ r.since <= t0 + Before(s, r.url)
          /\ at <= r.since + TimeoutOf(s, r.url)
          /\ k \in Subjects \ cr => ne[k] <= r.since
     /\ r \in Value =>
          /\ r.of = k /\ r.asOf <= at /\ t0 < r.asOf + RpcTimeout + CacheTtl
          /\ k \in Subjects \ cr => /\ ne[k] <= r.asOf
                                    /\ ca[k] # NoEntry => ca[k].value = r

\* All reads of a request.
ReadsOK(q, ca, ne, cr, at) ==
  \E t0 \in 0 .. at : \A s \in DOMAIN q.reads : ReadOK(q, s, t0, ca, ne, cr, at)

\* An entry is of its key, as old as its lifetime and one node's answer allow, and not
\* behind the newest reading.
EntryOK(k, ca, ne, cr, at) ==
  ca[k] # NoEntry =>
    /\ ca[k].value.of = k /\ ca[k].value.asOf <= at
    /\ ca[k].until <= ca[k].value.asOf + RpcTimeout + CacheTtl
    /\ k \notin cr => ne[k] <= ca[k].value.asOf

\* An answer is no older than promised.
AnswerOK ==
  \A b \in answer.balances : now < b.asOf + CacheTtl + RpcTimeout + Longest

CacheInv ==
  /\ \A c \in Calls : call[c] # NoRequest => ReadsOK(call[c], cache, newest, crossed, now)
  /\ \A c \in Calls, d \in Calls, k \in Subjects :
       call[c] # NoRequest /\ call[d] # NoRequest /\ c # d
         /\ About(call[c], k) /\ About(call[d], k)
         => k \in crossed
  /\ \A k \in Subjects : newest[k] <= now /\ EntryOK(k, cache, newest, crossed, now)
  /\ AnswerOK

\* How old the balances of an answer are.
LEMMA AnswerAge ==
  ASSUME NEW b \in Value, NEW at \in Nat, NEW t0 \in Nat, Longest \in Nat,
         t0 < b.asOf + RpcTimeout + CacheTtl, at <= t0 + Longest
  PROVE  at < b.asOf + CacheTtl + RpcTimeout + Longest
BY CacheConstants DEF Value

\* The steps of requests keep the invariant: what they have to see to is that the request
\* and the cache they leave behind are right for what was the newest reading before.
LEMMA ProceedKeeps ==
  ASSUME CacheTypeOK, CacheInv, now' = now,
         NEW c \in Calls, NEW q, Typed(q), Proceed(c, q), crossed \subseteq crossed',
         NEW t0 \in 0 .. now, Longest \in Nat, now <= t0 + Longest,
         \A s \in DOMAIN q.reads : ReadOK(q, s, t0, cache', newest, crossed', now),
         \A d \in Calls : d # c /\ call[d] # NoRequest =>
           ReadsOK(call[d], cache', newest, crossed', now),
         \A d \in Calls, k \in Subjects :
           d # c /\ call[d] # NoRequest /\ About(call[d], k) /\ About(q, k) => k \in crossed',
         \A k \in Subjects : EntryOK(k, cache', newest, crossed', now)
  PROVE  /\ CacheInv'
         /\ \A b \in answer'.balances : b.of \notin crossed' => b.asOf >= newest[b.of]
<1>1. /\ DOMAIN call' = Calls /\ \A d \in Calls : d # c => call'[d] = call[d]
      /\ call'[c] = q \/ call'[c] = NoRequest
  BY ProceedFacts
<1>2. /\ now \in Nat /\ newest \in [Subjects -> Nat]
      /\ \A k \in Subjects : newest[k] <= now
  BY DEF CacheTypeOK, CacheInv
<1>3. \A d \in Calls, e \in Calls, k \in Subjects :
        call'[d] # NoRequest /\ call'[e] # NoRequest /\ d # e
          /\ About(call'[d], k) /\ About(call'[e], k)
          => k \in crossed'
  <2> SUFFICES ASSUME NEW d \in Calls, NEW e \in Calls, NEW k \in Subjects,
                      call'[d] # NoRequest, call'[e] # NoRequest, d # e,
                      About(call'[d], k), About(call'[e], k)
               PROVE  k \in crossed'
    OBVIOUS
  <2>1. CASE d = c
    <3>1. call'[d] = q /\ call'[e] = call[e]
      BY <1>1, <2>1
    <3> QED
      BY <2>1, <3>1
  <2>2. CASE e = c
    <3>1. call'[e] = q /\ call'[d] = call[d]
      BY <1>1, <2>2
    <3> QED
      BY <2>2, <3>1
  <2>3. CASE d # c /\ e # c
    <3>1. call'[e] = call[e] /\ call'[d] = call[d]
      BY <1>1, <2>3
    <3> QED
      BY <3>1 DEF CacheInv
  <2> QED
    BY <2>1, <2>2, <2>3
<1>4. CASE answer' = NoAnswer /\ newest' = newest
  <2>1. \A b \in answer'.balances : FALSE
    BY <1>4 DEF NoAnswer
  <2>2. \A d \in Calls : call'[d] # NoRequest =>
          ReadsOK(call'[d], cache', newest', crossed', now')
    <3>1. ReadsOK(q, cache', newest, crossed', now)
      BY DEF ReadsOK
    <3>2. ASSUME NEW d \in Calls, call'[d] # NoRequest
          PROVE  ReadsOK(call'[d], cache', newest, crossed', now)
      <4>1. CASE d = c
        BY <1>1, <3>1, <3>2, <4>1, Zenon
      <4>2. CASE d # c
        <5>1. call'[d] = call[d]
          BY <1>1, <4>2
        <5> QED
          BY <3>2, <4>2, <5>1, Zenon
      <4> QED
        BY <4>1, <4>2
    <3> QED
      BY <1>4, <3>2, Zenon
  <2>3. \A k \in Subjects :
          newest'[k] <= now' /\ EntryOK(k, cache', newest', crossed', now')
    BY <1>2, <1>4, Zenon
  <2> QED
    BY <1>3, <2>1, <2>2, <2>3, Zenon DEF CacheInv, AnswerOK
<1>5. CASE ~(answer' = NoAnswer /\ newest' = newest)
  <2>1. /\ call'[c] = NoRequest
        /\ \A b \in answer'.balances : \E s \in DOMAIN q.reads :
             b = q.reads[s] /\ b \in Value
        /\ \A k \in Subjects :
             \/ newest'[k] = newest[k]
             \/ \E s \in DOMAIN q.reads :
                  /\ q.reads[s] \in Value /\ q.reads[s].of = k
                  /\ newest'[k] = q.reads[s].asOf
    BY <1>5, ProceedFacts
  <2>2. ASSUME NEW s \in DOMAIN q.reads, q.reads[s] \in Value
        PROVE  /\ q.reads[s].of = Subject(q.wallet, s) /\ q.reads[s].of \in Subjects
               /\ q.reads[s].asOf <= now /\ t0 < q.reads[s].asOf + RpcTimeout + CacheTtl
               /\ q.reads[s].of \notin crossed' =>
                    /\ newest[q.reads[s].of] <= q.reads[s].asOf
                    /\ cache'[q.reads[s].of] # NoEntry =>
                         cache'[q.reads[s].of].value = q.reads[s]
    <3>1. ReadOK(q, s, t0, cache', newest, crossed', now)
      OBVIOUS
    <3>2. q.reads[s].of \in Subjects
      BY <2>2 DEF Value
    <3> QED
      BY <2>2, <3>1, <3>2, Zenon DEF ReadOK
  <2>3. ASSUME NEW b \in answer'.balances
        PROVE  /\ b.of \notin crossed' => b.asOf >= newest[b.of]
               /\ now < b.asOf + CacheTtl + RpcTimeout + Longest
    <3>1. PICK s \in DOMAIN q.reads : b = q.reads[s] /\ b \in Value
      BY <2>1
    <3>2. t0 < b.asOf + RpcTimeout + CacheTtl /\ t0 \in Nat
      BY <1>2, <2>2, <3>1
    <3>3. now < b.asOf + CacheTtl + RpcTimeout + Longest
      BY <1>2, <3>1, <3>2, AnswerAge
    <3>4. b.of \notin crossed' => newest[b.of] <= b.asOf
      BY <2>2, <3>1
    <3>5. b.asOf \in Nat /\ newest[b.of] \in Nat
      BY <1>2, <3>1 DEF Value
    <3> QED
      BY <3>3, <3>4, <3>5
  <2>4. ASSUME NEW k \in Subjects
        PROVE  newest'[k] <= now' /\ EntryOK(k, cache', newest', crossed', now')
    <3>1. newest[k] <= now /\ EntryOK(k, cache', newest, crossed', now)
      BY <1>2
    <3>2. CASE newest'[k] = newest[k]
      BY <3>1, <3>2 DEF EntryOK
    <3>3. CASE newest'[k] # newest[k]
      <4>1. PICK s \in DOMAIN q.reads : /\ q.reads[s] \in Value /\ q.reads[s].of = k
                                        /\ newest'[k] = q.reads[s].asOf
        BY <2>1, <3>3
      <4> PICK v : v = q.reads[s]
        OBVIOUS
      <4>2. /\ newest'[k] = v.asOf /\ v.asOf <= now /\ v.asOf \in Nat
            /\ k \notin crossed' => (cache'[k] # NoEntry => cache'[k].value = v)
        BY <2>2, <4>1 DEF Value
      <4> QED
        BY <1>2, <3>1, <4>2 DEF EntryOK
    <3> QED
      BY <3>2, <3>3
  <2>5. ASSUME NEW d \in Calls, call'[d] # NoRequest
        PROVE  ReadsOK(call'[d], cache', newest', crossed', now')
    <3>1. d # c /\ call'[d] = call[d] /\ call[d] # NoRequest
      BY <1>1, <2>1, <2>5
    <3> PICK p : p = call[d]
      OBVIOUS
    <3>2. ReadsOK(p, cache', newest, crossed', now)
      BY <3>1, Zenon
    <3>3. \A k \in Subjects : About(p, k) /\ newest'[k] # newest[k] => k \in crossed'
      <4> SUFFICES ASSUME NEW k \in Subjects, About(p, k), newest'[k] # newest[k]
                   PROVE  k \in crossed'
        OBVIOUS
      <4>1. PICK s \in DOMAIN q.reads : q.reads[s] \in Value /\ q.reads[s].of = k
        BY <2>1
      <4>2. About(q, k)
        BY <2>2, <4>1 DEF About
      <4> QED
        BY <3>1, <4>2
    <3>4. PICK t1 \in 0 .. now : \A s \in DOMAIN p.reads :
            ReadOK(p, s, t1, cache', newest, crossed', now)
      BY <3>2 DEF ReadsOK
    <3>5. ASSUME NEW s \in DOMAIN p.reads
          PROVE  ReadOK(p, s, t1, cache', newest', crossed', now)
      <4> PICK k : k = Subject(p.wallet, s)
        OBVIOUS
      <4>1. k \in Subjects \ crossed' => newest'[k] = newest[k]
        BY <3>3 DEF About
      <4> QED
        BY <3>4, <4>1 DEF ReadOK
    <3>6. ReadsOK(p, cache', newest', crossed', now)
      BY <3>5 DEF ReadsOK
    <3> QED
      BY <3>1, <3>6, Zenon
  <2>6. AnswerOK'
    BY <2>3 DEF AnswerOK
  <2> QED
    BY <1>3, <2>3, <2>4, <2>5, <2>6, Zenon DEF CacheInv
<1> QED
  BY <1>4, <1>5

---------------------------------------------------------------------------------------
\* The steps.

\* What a step promises of the answer it gives.
Forward == \A b \in answer'.balances : b.of \notin crossed' => b.asOf >= newest[b.of]

\* The types of the state, conjunct by conjunct.
LEMMA CacheTypes ==
  ASSUME CacheTypeOK
  PROVE  /\ now \in Nat /\ now <= MaxTime /\ newest \in [Subjects -> Nat]
         /\ cache \in [Subjects -> Entry \cup {NoEntry}] /\ DOMAIN call = Calls
         /\ \A c \in Calls : call[c] # NoRequest => Typed(call[c])
         /\ crossed \subseteq Subjects
BY CacheConstants DEF CacheTypeOK, Typed

\* A read is as well off when more subjects are crossed.
LEMMA CrossingIsSafe ==
  ASSUME NEW q, NEW ca, NEW ne, NEW cr, NEW more, cr \subseteq more, NEW at
  PROVE  /\ ReadsOK(q, ca, ne, cr, at) => ReadsOK(q, ca, ne, more, at)
         /\ \A k \in Subjects : EntryOK(k, ca, ne, cr, at) => EntryOK(k, ca, ne, more, at)
<1>1. \A s, t0 : ReadOK(q, s, t0, ca, ne, cr, at) => ReadOK(q, s, t0, ca, ne, more, at)
  BY DEF ReadOK
<1> QED
  BY <1>1 DEF ReadsOK, EntryOK

\* What a read begins with.
LEMMA LookupFacts ==
  ASSUME CacheTypeOK, CacheInv, NEW w \in Wallets,
         NEW s \in Slots, NEW r, r = Lookup(w, s)
  PROVE  /\ r \in Read
         /\ \/ r = [url |-> 1, since |-> now]
            \/ LET k == Subject(w, s)
               IN /\ k \in Subjects /\ cache[k] # NoEntry /\ now < cache[k].until
                  /\ cache[k] \in Entry /\ r = cache[k].value
<1>1. now \in Nat /\ Endpoints \in Nat /\ Endpoints >= 1
  BY CacheConstants, CacheTypes
<1> PICK k : k = Subject(w, s)
  OBVIOUS
<1>2. [url |-> 1, since |-> now] \in Read
  BY <1>1 DEF Read, Attempt
<1>3. CASE s[2] # "history" /\ Fresh(k)
  <2>1. k \in Subjects /\ cache[k] # NoEntry /\ cache[k].until > now
    BY <1>3, Slot DEF Fresh
  <2>2. cache[k] \in Entry
    BY <2>1, CacheTypes
  <2>3. cache[k].value \in Read /\ cache[k].until \in Nat
    BY <2>2 DEF Entry, Read
  <2>4. r = cache[k].value
    BY <1>3 DEF Lookup
  <2> QED
    BY <1>1, <2>1, <2>2, <2>3, <2>4
<1>4. CASE ~(s[2] # "history" /\ Fresh(k))
  <2>1. r = [url |-> 1, since |-> now]
    BY <1>4 DEF Lookup
  <2> QED
    BY <1>2, <2>1
<1> QED
  BY <1>3, <1>4

\* A read that begins is right.
LEMMA LookupIsRight ==
  ASSUME CacheTypeOK, CacheInv, NEW q,
         NEW s \in Slots, q.wallet \in Wallets,
         q.reads[s] = Lookup(q.wallet, s)
  PROVE  ReadOK(q, s, now, cache, newest, crossed, now)
<1> PICK k, r : k = Subject(q.wallet, s) /\ r = q.reads[s]
  OBVIOUS
<1>1. /\ now \in Nat /\ newest \in [Subjects -> Nat] /\ RpcTimeout \in Nat /\ RpcTimeout >= 1
      /\ CacheTtl \in Nat
  BY CacheConstants, CacheTypes
<1>2. CASE r = [url |-> 1, since |-> now]
  <2>1. r.since = now /\ r.url = 1 /\ r \notin Value
    BY <1>2 DEF Value
  <2>2. /\ Before(s, 1) = 0 /\ TimeoutOf(s, 1) \in Nat /\ 1 <= Sources(s)
    <3>1. 1 \in 1 .. Sources(s)
      BY CacheConstants DEF Sources
    <3> QED
      BY <3>1, SourceTimes
  <2>3. k \in Subjects => newest[k] <= now
    BY DEF CacheInv
  <2> QED
    BY <1>1, <2>1, <2>2, <2>3 DEF ReadOK
<1>3. CASE /\ k \in Subjects /\ cache[k] # NoEntry /\ now < cache[k].until
           /\ cache[k] \in Entry /\ r = cache[k].value
  <2>1. EntryOK(k, cache, newest, crossed, now)
    BY <1>3 DEF CacheInv
  <2>2. r.asOf \in Nat /\ cache[k].until \in Nat /\ r \in Value
    BY <1>3 DEF Entry, Value
  <2>3. r \notin Attempt
    BY <2>2 DEF Attempt, Value
  <2>4. /\ r.of = k /\ r.asOf <= now /\ cache[k].until <= r.asOf + RpcTimeout + CacheTtl
        /\ k \notin crossed => newest[k] <= r.asOf
    BY <1>3, <2>1 DEF EntryOK
  <2>5. now < r.asOf + RpcTimeout + CacheTtl
    BY <1>1, <1>3, <2>2, <2>4
  <2> QED
    BY <1>3, <2>3, <2>4, <2>5 DEF ReadOK
<1> QED
  BY <1>2, <1>3, LookupFacts

\* A request that begins, with all its reads.
LEMMA BeginKeeps ==
  ASSUME CacheTypeOK, CacheInv, NEW c \in Calls, NEW u \in Users,
         NEW slots \in SUBSET Slots, Begin(c, u, slots)
  PROVE  CacheInv' /\ Forward
<1> PICK w : w = connection[u]
  OBVIOUS
<1> PICK q : q = [user |-> u, wallet |-> w, reads |-> [s \in slots |-> Lookup(w, s)],
                  failed |-> FALSE]
  OBVIOUS
<1>1. w \in Wallets
  BY DEF Begin, CacheTypeOK
<1>2. /\ call[c] = NoRequest /\ Proceed(c, q) /\ now' = now /\ cache' = cache
      /\ crossed' = crossed \cup (UnderWay \cap {Subject(w, s) : s \in slots})
  BY DEF Begin
<1>3. q.wallet = w /\ DOMAIN q.reads = slots /\ \A s \in slots : q.reads[s] = Lookup(w, s)
  OBVIOUS
<1>4. Typed(q)
  <2>1. \A s \in slots : q.reads[s] \in Read
    BY <1>1, <1>3, LookupFacts
  <2>2. q.reads \in [slots -> Read] /\ q.user = u /\ q.failed = FALSE
    BY <2>1
  <2> QED
    BY <1>1, <2>2 DEF Typed, Request, Read
<1>5. now \in Nat /\ now \in 0 .. now /\ Longest \in Nat /\ now <= now + Longest
  BY LongestIsTime, CacheTypes
<1>6. \A s \in DOMAIN q.reads : ReadOK(q, s, now, cache', newest, crossed', now)
  <2>1. \A s \in DOMAIN q.reads : ReadOK(q, s, now, cache, newest, crossed, now)
    BY <1>1, <1>3, LookupIsRight
  <2> QED
    BY <1>2, <2>1 DEF ReadOK
<1>7. \A d \in Calls : d # c /\ call[d] # NoRequest =>
        ReadsOK(call[d], cache', newest, crossed', now)
  <2>1. ASSUME NEW d \in Calls, call[d] # NoRequest
        PROVE  ReadsOK(call[d], cache, newest, crossed', now)
    <3>1. ReadsOK(call[d], cache, newest, crossed, now) /\ crossed \subseteq crossed'
      BY <1>2, <2>1 DEF CacheInv
    <3> QED
      BY <3>1, CrossingIsSafe
  <2> QED
    BY <1>2, <2>1
<1>8. ASSUME NEW d \in Calls, NEW k \in Subjects, call[d] # NoRequest,
             About(call[d], k), About(q, k)
      PROVE  k \in crossed'
  <2>1. PICK s \in DOMAIN call[d].reads : k = Subject(call[d].wallet, s)
    BY <1>8 DEF About
  <2>2. s \in Slots /\ call[d].wallet \in Wallets
    BY <1>8, CacheTypes, TypedFacts
  <2>3. k[2] = call[d].wallet /\ <<k[1], k[3]>> = s
    BY <2>1, <2>2, Slot
  <2>4. k \in UnderWay
    BY <1>8, <2>1, <2>3 DEF UnderWay
  <2>5. k \in {Subject(w, x) : x \in slots}
    BY <1>3, <1>8 DEF About
  <2> QED
    BY <1>2, <2>4, <2>5
<1>9. \A k \in Subjects : EntryOK(k, cache', newest, crossed', now)
  <2>1. \A k \in Subjects : EntryOK(k, cache, newest, crossed', now)
    BY <1>2, CrossingIsSafe DEF CacheInv
  <2> QED
    BY <1>2, <2>1
<1>10. crossed \subseteq crossed'
  BY <1>2
<1> QED
  BY <1>2, <1>4, <1>5, <1>6, <1>7, <1>8, <1>9, <1>10, ProceedKeeps DEF Forward

\* One of its reads takes another step, and nothing else happens to the request.
LEMMA TypedRead ==
  ASSUME NEW q, Typed(q), NEW s \in DOMAIN q.reads, NEW r \in Read, NEW p,
         p = [q EXCEPT !.reads[s] = r]
  PROVE  Follows(p, q, s, r)
<1>1. PICK slots \in SUBSET Slots : q \in Request(slots)
  BY DEF Typed
<1> PICK reads : reads = [q.reads EXCEPT ![s] = r]
  OBVIOUS
<1>2. q.reads \in [slots -> Read]
  BY <1>1 DEF Request, Read
<1>3. /\ reads \in [slots -> Read] /\ reads[s] = r /\ DOMAIN reads = DOMAIN q.reads
      /\ \A x \in DOMAIN q.reads : x # s => reads[x] = q.reads[x]
  BY <1>2
<1>4. p \in Request(slots) /\ p.reads = reads /\ p.wallet = q.wallet
  BY <1>1, <1>3 DEF Request, Read
<1> QED
  BY <1>3, <1>4 DEF Typed, Follows

\* While a source is asked the request is younger than all its sources may take.
LEMMA AttemptAge ==
  ASSUME NEW s, NEW r \in Attempt, NEW at \in Nat, NEW t0 \in Nat, r.url <= Sources(s),
         r.since <= t0 + Before(s, r.url), at <= r.since + TimeoutOf(s, r.url)
  PROVE  /\ at <= t0 + Longest
         /\ r.url < Sources(s) => at <= t0 + Before(s, r.url + 1)
<1>1. r.since \in Nat /\ r.url \in 1 .. Sources(s)
  <2>1. r.since \in Nat /\ r.url \in Nat /\ r.url >= 1 /\ Sources(s) \in Nat
    BY CacheConstants DEF Attempt, Sources
  <2> QED
    BY <2>1
<1> PICK before, own : before = Before(s, r.url) /\ own = TimeoutOf(s, r.url)
  OBVIOUS
<1>2. /\ before \in Nat /\ own \in Nat /\ before + own <= Longest /\ Longest \in Nat
      /\ r.url < Sources(s) => Before(s, r.url + 1) = before + own
  BY <1>1, SourceTimes
<1> QED
  BY <1>1, <1>2

\* A read takes its next step: what it comes to must be right, and so must what is cached.
LEMMA StepKeeps ==
  ASSUME CacheTypeOK, CacheInv, NEW c \in Calls, call[c] # NoRequest,
         NEW s \in DOMAIN call[c].reads, call[c].reads[s] \in Attempt,
         NEW q, Typed(q), q.wallet = call[c].wallet, DOMAIN q.reads = DOMAIN call[c].reads,
         \A x \in DOMAIN q.reads : x # s => q.reads[x] = call[c].reads[x],
         Proceed(c, q), UNCHANGED <<now, crossed>>,
         \A t0 \in 0 .. now :
           ReadOK(call[c], s, t0, cache, newest, crossed, now) =>
             ReadOK(q, s, t0, cache', newest, crossed, now),
         \A k \in Subjects : EntryOK(k, cache', newest, crossed, now),
         \A k \in Subjects : k # Subject(q.wallet, s) => cache'[k] = cache[k]
  PROVE  CacheInv' /\ Forward
<1> PICK p : p = call[c]
  OBVIOUS
<1>1. /\ now \in Nat /\ Typed(p) /\ p.wallet \in Wallets /\ DOMAIN p.reads \subseteq Slots
  BY CacheTypes, TypedFacts
<1>2. PICK t0 \in 0 .. now : \A x \in DOMAIN p.reads :
        ReadOK(p, x, t0, cache, newest, crossed, now)
  BY DEF CacheInv, ReadsOK
<1>3. now <= t0 + Longest /\ Longest \in Nat
  <2> PICK r : r = p.reads[s]
    OBVIOUS
  <2>1. /\ r \in Attempt /\ r.since <= t0 + Before(s, r.url) /\ r.url <= Sources(s)
        /\ now <= r.since + TimeoutOf(s, r.url) /\ t0 \in Nat
    BY <1>1, <1>2 DEF ReadOK
  <2> QED
    BY <1>1, <2>1, AttemptAge, LongestIsTime
<1> PICK changed : changed = Subject(q.wallet, s)
  OBVIOUS
<1>4. ASSUME NEW x \in DOMAIN q.reads
      PROVE  ReadOK(q, x, t0, cache', newest, crossed', now)
  <2>1. CASE x = s
    <3>1. ReadOK(p, s, t0, cache, newest, crossed, now)
      BY <1>2
    <3>2. ReadOK(q, s, t0, cache', newest, crossed, now)
      BY <3>1, Zenon
    <3> QED
      BY <2>1, <3>2, Zenon
  <2>2. CASE x # s
    <3>1. ReadOK(p, x, t0, cache, newest, crossed, now) /\ q.reads[x] = p.reads[x]
      BY <1>2, <2>2
    <3> PICK k : k = Subject(p.wallet, x)
      OBVIOUS
    <3>2. k # changed
      BY <1>1, <2>2, SlotsDiffer
    <3>3. k \in Subjects => cache'[k] = cache[k]
      BY <3>2
    <3> QED
      BY <3>1, <3>3 DEF ReadOK
  <2> QED
    BY <2>1, <2>2
<1>5. ASSUME NEW d \in Calls, NEW k \in Subjects, d # c, call[d] # NoRequest,
             About(call[d], k), About(q, k)
      PROVE  k \in crossed'
  <2>1. About(call[c], k)
    BY <1>5 DEF About
  <2> QED
    BY <1>5, <2>1 DEF CacheInv
<1>6. ASSUME NEW d \in Calls, d # c, call[d] # NoRequest
      PROVE  ReadsOK(call[d], cache', newest, crossed', now)
  <2> PICK e : e = call[d]
    OBVIOUS
  <2>1. PICK t1 \in 0 .. now : \A x \in DOMAIN e.reads :
          ReadOK(e, x, t1, cache, newest, crossed, now)
    BY <1>6 DEF CacheInv, ReadsOK
  <2>2. ASSUME NEW x \in DOMAIN e.reads
        PROVE  ReadOK(e, x, t1, cache', newest, crossed, now)
    <3> PICK k : k = Subject(e.wallet, x)
      OBVIOUS
    <3>1. k \in Subjects \ crossed => k # changed
      <4>1. About(call[d], k)
        BY DEF About
      <4>2. k = changed => About(q, k)
        BY DEF About
      <4> QED
        BY <1>5, <1>6, <4>1, <4>2
    <3>2. k \in Subjects \ crossed => cache'[k] = cache[k]
      BY <3>1
    <3>3. ReadOK(e, x, t1, cache, newest, crossed, now)
      BY <2>1
    <3> QED
      BY <3>2, <3>3 DEF ReadOK
  <2> QED
    BY <2>2 DEF ReadsOK
<1>7. \A k \in Subjects : EntryOK(k, cache', newest, crossed', now)
  OBVIOUS
<1> QED
  BY <1>3, <1>4, <1>5, <1>6, <1>7, ProceedKeeps DEF Forward

\* Whatever is not said of a value or an attempt: a read that came to nothing.
LEMMA EmptyIsRight ==
  ASSUME NEW q, NEW s, NEW t0, NEW ca, NEW ne, NEW cr, NEW at, q.reads[s] = Empty
  PROVE  ReadOK(q, s, t0, ca, ne, cr, at)
<1>1. Empty \notin Attempt /\ Empty \notin Value
  BY DEF Empty, Attempt, Value
<1> QED
  BY <1>1 DEF ReadOK

\* A read that waits.
LEMMA WaitsFacts ==
  ASSUME CacheTypeOK, NEW c \in Calls, NEW s \in Slots,
         Pending(c, s)
  PROVE  /\ call[c] # NoRequest /\ Typed(call[c]) /\ s \in DOMAIN call[c].reads
         /\ call[c].reads[s] \in Attempt /\ call[c].wallet \in Wallets
BY CacheTypes, TypedFacts, Kinds DEF Pending

\* A node answers.
LEMMA ArrivalKeeps ==
  ASSUME CacheTypeOK, CacheInv, NEW c \in Calls,
         NEW s \in Slots, ReadArrives(c, s)
  PROVE  CacheInv' /\ Forward
<1> PICK p : p = call[c]
  OBVIOUS
<1>1. /\ p # NoRequest /\ Typed(p) /\ s \in DOMAIN p.reads
      /\ p.reads[s] \in Attempt /\ p.wallet \in Wallets
      /\ UNCHANGED <<now, crossed>>
  BY WaitsFacts DEF ReadArrives
<1>2. /\ now \in Nat /\ RpcTimeout \in Nat /\ RpcTimeout >= 1 /\ CacheTtl \in Nat
      /\ cache \in [Subjects -> Entry \cup {NoEntry}]
      /\ newest \in [Subjects -> Nat] /\ crossed \subseteq Subjects
  BY CacheConstants, CacheTypes
<1>3. ASSUME s[2] = "history", UNCHANGED cache,
             Proceed(c, [p EXCEPT !.reads[s] = Empty])
      PROVE  CacheInv' /\ Forward
  <2> PICK q : q = [p EXCEPT !.reads[s] = Empty]
    OBVIOUS
  <2>1. Empty \in Read
    BY DEF Read
  <2>2. /\ Typed(q) /\ q.wallet = p.wallet /\ DOMAIN q.reads = DOMAIN p.reads
        /\ q.reads[s] = Empty
        /\ \A x \in DOMAIN p.reads : x # s => q.reads[x] = p.reads[x]
    BY <1>1, <2>1, TypedRead DEF Follows
  <2>3. Proceed(c, q)
    BY <1>3, Zenon
  <2>4. \A t0 : ReadOK(q, s, t0, cache', newest, crossed, now)
    BY <2>2, EmptyIsRight
  <2>5. \A k \in Subjects : EntryOK(k, cache', newest, crossed, now)
    BY <1>3 DEF CacheInv
  <2> QED
    BY <1>1, <1>3, <2>2, <2>3, <2>4, <2>5, StepKeeps
<1>4. ASSUME NEW asOf \in p.reads[s].since .. now, NEW value, s[2] # "history",
             value = [of |-> Subject(p.wallet, s), asOf |-> asOf],
             Proceed(c, [p EXCEPT !.reads[s] = value]),
             cache' = [cache EXCEPT ![CacheKey(p, s)] =
                         [until |-> now + CacheTtl, value |-> value]]
      PROVE  CacheInv' /\ Forward
  <2> PICK k, old : k = Subject(p.wallet, s) /\ old = p.reads[s]
    OBVIOUS
  <2> PICK entry : entry = [until |-> now + CacheTtl, value |-> value]
    OBVIOUS
  <2>1. k \in Subjects /\ old.since \in Nat
    BY <1>1, <1>4, Slot DEF Attempt
  <2>2. /\ asOf \in Nat /\ old.since <= asOf /\ asOf <= now
        /\ value \in Value /\ value.of = k /\ value.asOf = asOf
    BY <1>2, <1>4, <2>1 DEF Value
  <2>3. value \in Read /\ value \notin Attempt
    BY <2>2 DEF Read, Value, Attempt
  <2>4. /\ cache'[k] = entry /\ entry.value = value /\ entry.until = now + CacheTtl
        /\ \A x \in Subjects : x # k => cache'[x] = cache[x]
    BY <1>2, <1>4, <2>1 DEF CacheKey
  <2> PICK q : q = [p EXCEPT !.reads[s] = value]
    OBVIOUS
  <2>5. /\ Typed(q) /\ q.wallet = p.wallet /\ DOMAIN q.reads = DOMAIN p.reads
        /\ q.reads[s] = value
        /\ \A x \in DOMAIN p.reads : x # s => q.reads[x] = p.reads[x]
    BY <1>1, <2>3, TypedRead DEF Follows
  <2>6. Proceed(c, q)
    BY <1>4, Zenon
  <2>7. ASSUME NEW t0 \in 0 .. now, ReadOK(p, s, t0, cache, newest, crossed, now)
        PROVE  /\ ReadOK(q, s, t0, cache', newest, crossed, now)
               /\ now <= asOf + RpcTimeout
               /\ k \notin crossed => newest[k] <= asOf
    <3>1. /\ t0 <= old.since /\ now <= old.since + RpcTimeout
          /\ k \notin crossed => newest[k] <= old.since
      <4>1. TimeoutOf(s, old.url) = RpcTimeout
        BY <1>4 DEF TimeoutOf
      <4> QED
        BY <1>1, <2>1, <2>7, <4>1 DEF ReadOK
    <3>2. /\ t0 < value.asOf + RpcTimeout + CacheTtl
          /\ now <= asOf + RpcTimeout
          /\ k \notin crossed => newest[k] <= asOf
      BY <1>2, <2>1, <2>2, <3>1
    <3>3. ReadOK(q, s, t0, cache', newest, crossed, now)
      BY <2>2, <2>3, <2>4, <2>5, <3>2 DEF ReadOK
    <3> QED
      BY <3>2, <3>3
  <2>8. ASSUME NEW x \in Subjects
        PROVE  EntryOK(x, cache', newest, crossed, now)
    <3>1. EntryOK(x, cache, newest, crossed, now)
      BY DEF CacheInv
    <3>2. CASE x # k
      BY <2>4, <3>1, <3>2 DEF EntryOK
    <3>3. CASE x = k
      <4>1. PICK t0 \in 0 .. now : ReadOK(p, s, t0, cache, newest, crossed, now)
        BY <1>1 DEF CacheInv, ReadsOK
      <4>2. now <= asOf + RpcTimeout
        BY <2>7, <4>1
      <4>3. entry.until <= asOf + RpcTimeout + CacheTtl
        BY <1>2, <2>2, <2>4, <4>2
      <4>4. k \notin crossed => newest[k] <= asOf
        BY <2>7, <4>1
      <4> QED
        BY <2>2, <2>4, <3>3, <4>3, <4>4 DEF EntryOK
    <3> QED
      BY <3>2, <3>3
  <2>9. \A x \in Subjects : x # Subject(q.wallet, s) => cache'[x] = cache[x]
    BY <2>4, <2>5
  <2>10. \A t0 \in 0 .. now : ReadOK(p, s, t0, cache, newest, crossed, now) =>
           ReadOK(q, s, t0, cache', newest, crossed, now)
    BY <2>7
  <2>11. /\ call[c] # NoRequest /\ s \in DOMAIN call[c].reads
         /\ call[c].reads[s] \in Attempt
         /\ q.wallet = call[c].wallet /\ DOMAIN q.reads = DOMAIN call[c].reads
         /\ \A x \in DOMAIN q.reads : x # s => q.reads[x] = call[c].reads[x]
         /\ \A t0 \in 0 .. now : ReadOK(call[c], s, t0, cache, newest, crossed, now) =>
              ReadOK(q, s, t0, cache', newest, crossed, now)
    BY <1>1, <2>5, <2>10
  <2> QED
    BY <1>1, <2>5, <2>6, <2>8, <2>9, <2>11, StepKeeps, Zenon
<1> QED
  BY <1>3, <1>4 DEF ReadArrives

\* The next attempt.
LEMMA NextAttemptType ==
  ASSUME CacheTypeOK, NEW s, NEW r \in Attempt,
         NEW next \in NextAttempt(s, r)
  PROVE  /\ next \in Attempt /\ next.url = r.url + 1 /\ next.since = now
         /\ r.url < Sources(s) /\ next.url <= Sources(s)
<1>1. /\ now \in Nat /\ Endpoints \in Nat /\ r.url \in Nat /\ r.url >= 1
      /\ Sources(s) \in Nat /\ Sources(s) <= IF Endpoints < 2 THEN 2 ELSE Endpoints
  BY CacheConstants, CacheTypes DEF Attempt, Sources
<1>2. next = [url |-> r.url + 1, since |-> now] /\ r.url < Sources(s)
  BY DEF NextAttempt
<1> QED
  BY <1>1, <1>2 DEF Attempt

\* The next source is asked no later than the sources before it may take.
LEMMA NextAttemptIsRight ==
  ASSUME CacheTypeOK, CacheInv, NEW p, NEW q, NEW s,
         NEW r \in Attempt, p.reads[s] = r, NEW t0 \in 0 .. now,
         NEW next \in NextAttempt(s, r), q.reads[s] = next,
         ReadOK(p, s, t0, cache, newest, crossed, now)
  PROVE  ReadOK(q, s, t0, cache, newest, crossed, now)
<1> PICK k : k = Subject(q.wallet, s)
  OBVIOUS
<1>1. now \in Nat /\ t0 \in Nat /\ t0 <= now /\ newest \in [Subjects -> Nat]
  BY CacheTypes
<1>2. /\ next \in Attempt /\ next.url = r.url + 1 /\ next.since = now
      /\ r.url < Sources(s) /\ next.url <= Sources(s)
  BY NextAttemptType
<1>3. next \notin Value
  BY <1>2 DEF Attempt, Value
<1>4. /\ r.url <= Sources(s) /\ r.since <= t0 + Before(s, r.url)
      /\ now <= r.since + TimeoutOf(s, r.url)
  BY DEF ReadOK
<1>5. now <= t0 + Before(s, next.url)
  BY <1>1, <1>2, <1>4, AttemptAge
<1>6. now <= now + TimeoutOf(s, next.url)
  <2>1. next.url \in 1 .. Sources(s)
    BY <1>2, CacheConstants DEF Attempt, Sources
  <2> QED
    BY <1>1, <2>1, SourceTimes
<1>7. k \in Subjects => newest[k] <= now
  BY DEF CacheInv
<1> QED
  BY <1>1, <1>2, <1>3, <1>5, <1>6, <1>7 DEF ReadOK

\* A node fails.
LEMMA FailureKeeps ==
  ASSUME CacheTypeOK, CacheInv, NEW c \in Calls,
         NEW s \in Slots, ReadFails(c, s)
  PROVE  CacheInv' /\ Forward
<1> PICK p, old : p = call[c] /\ old = p.reads[s]
  OBVIOUS
<1>1. /\ p # NoRequest /\ Typed(p) /\ s \in DOMAIN p.reads
      /\ old \in Attempt /\ p.wallet \in Wallets
      /\ UNCHANGED <<now, cache, crossed>>
  BY WaitsFacts DEF ReadFails
<1>2. \A k \in Subjects : EntryOK(k, cache', newest, crossed, now)
  BY <1>1 DEF CacheInv
<1>3. ASSUME NEW q, Typed(q), q.wallet = p.wallet, DOMAIN q.reads = DOMAIN p.reads,
             \A x \in DOMAIN p.reads : x # s => q.reads[x] = p.reads[x],
             \A t0 \in 0 .. now : ReadOK(p, s, t0, cache, newest, crossed, now) =>
               ReadOK(q, s, t0, cache, newest, crossed, now),
             Proceed(c, q)
      PROVE  CacheInv' /\ Forward
  <2>1. /\ call[c] # NoRequest /\ s \in DOMAIN call[c].reads
        /\ call[c].reads[s] \in Attempt
        /\ q.wallet = call[c].wallet /\ DOMAIN q.reads = DOMAIN call[c].reads
        /\ \A x \in DOMAIN q.reads : x # s => q.reads[x] = call[c].reads[x]
    BY <1>1, <1>3
  <2>2. \A t0 \in 0 .. now : ReadOK(call[c], s, t0, cache, newest, crossed, now) =>
          ReadOK(q, s, t0, cache', newest, crossed, now)
    BY <1>1, <1>3, Zenon
  <2>3. \A k \in Subjects : k # Subject(q.wallet, s) => cache'[k] = cache[k]
    BY <1>1
  <2> QED
    BY <1>1, <1>2, <1>3, <2>1, <2>2, <2>3, StepKeeps, Zenon
<1>4. ASSUME NEW r \in NextAttempt(s, old), Proceed(c, [p EXCEPT !.reads[s] = r])
      PROVE  CacheInv' /\ Forward
  <2> PICK q : q = [p EXCEPT !.reads[s] = r]
    OBVIOUS
  <2>1. Proceed(c, q)
    BY <1>4, Zenon
  <2>2. r \in Read
    BY <1>1, <1>4, NextAttemptType DEF Read
  <2>3. /\ Typed(q) /\ q.wallet = p.wallet /\ DOMAIN q.reads = DOMAIN p.reads
        /\ q.reads[s] = r
        /\ \A x \in DOMAIN p.reads : x # s => q.reads[x] = p.reads[x]
    BY <1>1, <2>2, TypedRead DEF Follows
  <2>4. \A t0 \in 0 .. now : ReadOK(p, s, t0, cache, newest, crossed, now) =>
          ReadOK(q, s, t0, cache, newest, crossed, now)
    BY <1>1, <2>3, NextAttemptIsRight
  <2> QED
    BY <1>3, <2>1, <2>3, <2>4
<1>5. ASSUME NEW f \in BOOLEAN,
             Proceed(c, [p EXCEPT !.reads = [p.reads EXCEPT ![s] = Empty],
                                        !.failed = f])
      PROVE  CacheInv' /\ Forward
  <2> PICK q : q = [p EXCEPT !.reads = [p.reads EXCEPT ![s] = Empty], !.failed = f]
    OBVIOUS
  <2>1. Proceed(c, q)
    BY <1>5, Zenon
  <2>2. /\ Typed(q) /\ q.wallet = p.wallet /\ DOMAIN q.reads = DOMAIN p.reads
        /\ q.reads[s] = Empty
        /\ \A x \in DOMAIN p.reads : x # s => q.reads[x] = p.reads[x]
    <3>1. Follows(q, p, s, Empty)
      BY <1>1, TypedFailure
    <3> QED
      BY <3>1 DEF Follows
  <2>3. \A t0 : ReadOK(q, s, t0, cache, newest, crossed, now)
    BY <2>2, EmptyIsRight
  <2> QED
    BY <1>3, <2>1, <2>2, <2>3
<1>6. \/ \E r \in NextAttempt(s, old) : Proceed(c, [p EXCEPT !.reads[s] = r])
      \/ Proceed(c, [p EXCEPT !.reads = [p.reads EXCEPT ![s] = Empty],
                                    !.failed = p.failed \/ s[2] # "history"])
  BY DEF ReadFails
<1>7. (p.failed \/ s[2] # "history") \in BOOLEAN
  BY <1>1, TypedFacts
<1> QED
  BY <1>4, <1>5, <1>6, <1>7, Zenon

\* A wallet is connected anew: what is under way goes on for the wallet it began with.
LEMMA ReconnectKeeps ==
  ASSUME CacheInv, ConnectOther
  PROVE  CacheInv' /\ Forward
BY DEF CacheInv, ConnectOther, NoAnswer, AnswerOK, Forward

\* A new process begins with an empty cache, and with nothing under way.
LEMMA CacheRestartKeeps ==
  ASSUME CacheTypeOK, CacheInv, Restart
  PROVE  CacheInv' /\ Forward
<1>1. /\ \A k \in Subjects : cache'[k] = NoEntry
      /\ \A c \in Calls : call'[c] = NoRequest
      /\ UNCHANGED <<now, newest, crossed>> /\ \A b \in answer'.balances : FALSE
  BY DEF Restart, NoAnswer
<1>2. \A k \in Subjects : EntryOK(k, cache', newest, crossed, now)
  BY <1>1 DEF EntryOK
<1> QED
  BY <1>1, <1>2, Zenon DEF CacheInv, AnswerOK, Forward

\* Time passes, no longer than a node that is asked may take.
LEMMA CacheTickKeeps ==
  ASSUME CacheTypeOK, CacheInv, Tick
  PROVE  CacheInv' /\ Forward
<1>1. /\ now \in Nat /\ now' \in Nat /\ now' = now + 1
      /\ UNCHANGED <<cache, call, newest, crossed>> /\ \A b \in answer'.balances : FALSE
      /\ RpcTimeout \in Nat /\ newest \in [Subjects -> Nat]
      /\ cache \in [Subjects -> Entry \cup {NoEntry}]
  BY CacheConstants, CacheTypes DEF Tick, NoAnswer
<1>2. ASSUME NEW c \in Calls, call[c] # NoRequest
      PROVE  ReadsOK(call[c], cache, newest, crossed, now')
  <2> PICK q : q = call[c]
    OBVIOUS
  <2>1. Typed(q) /\ q.wallet \in Wallets
    BY <1>2, CacheTypes, TypedFacts
  <2>2. PICK t0 \in 0 .. now : \A s \in DOMAIN q.reads :
          ReadOK(q, s, t0, cache, newest, crossed, now)
    BY <1>2 DEF CacheInv, ReadsOK
  <2>3. ASSUME NEW s \in DOMAIN q.reads
        PROVE  ReadOK(q, s, t0, cache, newest, crossed, now')
    <3> PICK r : r = q.reads[s]
      OBVIOUS
    <3>1. s \in Slots /\ r \in Read
      BY <2>1, TypedFacts
    <3>2. r \in Attempt => now' <= r.since + TimeoutOf(s, r.url)
      <4>1. r \in Attempt => Pending(c, s)
        BY <1>2, <3>1, Kinds DEF Pending
      <4>2. r \in Attempt => now < r.since + TimeoutOf(s, r.url) /\ r.since \in Nat
        BY <3>1, <4>1 DEF Tick, Attempt
      <4>3. TimeoutOf(s, r.url) \in Nat
        BY CacheConstants DEF TimeoutOf
      <4> QED
        BY <1>1, <4>2, <4>3
    <3>3. r \in Value => r.asOf \in Nat
      BY DEF Value
    <3> QED
      BY <1>1, <2>2, <3>2, <3>3 DEF ReadOK
  <2>4. t0 \in 0 .. now'
    BY <1>1
  <2>5. ReadsOK(q, cache, newest, crossed, now')
    BY <2>3, <2>4 DEF ReadsOK
  <2> QED
    BY <2>5, Zenon
<1>3. ASSUME NEW k \in Subjects
      PROVE  newest[k] <= now' /\ EntryOK(k, cache, newest, crossed, now')
  <2>1. newest[k] <= now /\ EntryOK(k, cache, newest, crossed, now)
    BY DEF CacheInv
  <2>2. cache[k] # NoEntry => cache[k].value.asOf \in Nat
    BY <1>1 DEF Entry, Value
  <2> QED
    BY <1>1, <2>1, <2>2 DEF EntryOK
<1>4. \A c \in Calls, d \in Calls, k \in Subjects :
        call'[c] # NoRequest /\ call'[d] # NoRequest /\ c # d
          /\ About(call'[c], k) /\ About(call'[d], k)
          => k \in crossed'
  BY <1>1, Zenon DEF CacheInv
<1>5. /\ \A c \in Calls : call'[c] # NoRequest =>
           ReadsOK(call'[c], cache', newest', crossed', now')
      /\ \A k \in Subjects :
           newest'[k] <= now' /\ EntryOK(k, cache', newest', crossed', now')
  BY <1>1, <1>2, <1>3, Zenon
<1> QED
  BY <1>1, <1>4, <1>5, Zenon DEF CacheInv, AnswerOK, Forward

---------------------------------------------------------------------------------------
\* Types.

\* A request's next state, or its answer, has its type.
LEMMA ProceedTypes ==
  ASSUME CacheTypeOK, NEW c \in Calls, NEW q, Typed(q), Proceed(c, q),
         now' \in 0 .. MaxTime, connection' \in [Users -> Wallets \cup {NoWallet}],
         cache' \in [Subjects -> Entry \cup {NoEntry}],
         crossed' \subseteq Subjects
  PROVE  CacheTypeOK'
<1>1. /\ DOMAIN call' = Calls /\ \A d \in Calls : d # c => call'[d] = call[d]
      /\ call'[c] = q \/ call'[c] = NoRequest
  BY ProceedFacts
<1>2. \A d \in Calls : call'[d] # NoRequest =>
        \E slots \in SUBSET Slots : call'[d] \in Request(slots)
  <2>1. \A d \in Calls : call[d] # NoRequest => Typed(call[d])
    BY DEF CacheTypeOK, Typed
  <2>2. \A d \in Calls : call'[d] # NoRequest => Typed(call'[d])
    BY <1>1, <2>1
  <2> QED
    BY <2>2, Zenon DEF Typed
<1>3. answer'.balances \subseteq Value /\ newest' \in [Subjects -> Nat]
  <2>1. NoAnswer.balances \subseteq Value /\ newest \in [Subjects -> Nat]
    BY DEF NoAnswer, CacheTypeOK
  <2>2. \/ answer' = NoAnswer /\ newest' = newest
        \/ /\ \A b \in answer'.balances : b \in Value
           /\ newest' \in [Subjects -> Nat]
    BY ProceedFacts
  <2> QED
    BY <2>1, <2>2
<1> QED
  BY <1>1, <1>2, <1>3, Zenon DEF CacheTypeOK

\* Every step keeps the types.
LEMMA CacheTypesKept ==
  ASSUME CacheTypeOK, CacheInv, [CacheNext]_cacheVars
  PROVE  CacheTypeOK'
<1>1. /\ now \in 0 .. MaxTime /\ connection \in [Users -> Wallets \cup {NoWallet}]
      /\ cache \in [Subjects -> Entry \cup {NoEntry}]
      /\ crossed \subseteq Subjects
  BY DEF CacheTypeOK
<1>2. now \in Nat /\ CacheTtl \in Nat /\ MaxTime \in Nat
  BY CacheConstants, CacheTypes
<1>3. ASSUME NEW c \in Calls, NEW u \in Users, NEW slots \in SUBSET Slots,
             Begin(c, u, slots)
      PROVE  CacheTypeOK'
  <2> PICK w : w = connection[u]
    OBVIOUS
  <2> PICK q : q = [user |-> u, wallet |-> w, reads |-> [s \in slots |-> Lookup(w, s)],
                    failed |-> FALSE]
    OBVIOUS
  <2>1. w \in Wallets
    BY <1>1, <1>3 DEF Begin
  <2>2. /\ Proceed(c, q) /\ UNCHANGED <<now, connection, cache>>
        /\ crossed' \subseteq Subjects
    BY <1>1, <1>3 DEF Begin, UnderWay
  <2>3. Typed(q)
    <3>1. \A s \in slots : Lookup(w, s) \in Read
      BY <2>1, LookupFacts
    <3>2. q.reads \in [slots -> Read] /\ q.user = u /\ q.wallet = w /\ q.failed = FALSE
      BY <3>1
    <3> QED
      BY <2>1, <3>2 DEF Typed, Request, Read
  <2> QED
    BY <1>1, <2>2, <2>3, ProceedTypes
<1>4. ASSUME NEW c \in Calls, NEW u \in Users, GetBalance(c, u)
      PROVE  CacheTypeOK'
  <2>1. PICK n \in Networks : \E t \in TokensOf[n] : Begin(c, u, {<<n, t>>})
    BY <1>4 DEF GetBalance
  <2>2. \A t \in TokensOf[n] : {<<n, t>>} \in SUBSET Slots
    BY CacheConstants DEF Slots
  <2> QED
    BY <1>3, <2>1, <2>2
<1>5. ASSUME NEW c \in Calls, NEW u \in Users, GetWalletSummary(c, u)
      PROVE  CacheTypeOK'
  <2>1. PICK n \in Networks :
          Begin(c, u, {<<n, t>> : t \in TokensOf[n] \cup
                                           IF n = History THEN {"history"} ELSE {}})
    BY <1>5 DEF GetWalletSummary
  <2> PICK slots : slots = {<<n, t>> : t \in TokensOf[n] \cup
                                              IF n = History THEN {"history"} ELSE {}}
    OBVIOUS
  <2>2. slots \in SUBSET Slots
    BY CacheConstants DEF Slots
  <2> QED
    BY <1>3, <2>1, <2>2, Zenon
<1>6. ASSUME NEW c \in Calls, NEW s \in Slots, ReadArrives(c, s)
      PROVE  CacheTypeOK'
  <2> PICK p : p = call[c]
    OBVIOUS
  <2>1. /\ p # NoRequest /\ Typed(p) /\ s \in DOMAIN p.reads
        /\ p.reads[s] \in Attempt /\ p.wallet \in Wallets
        /\ UNCHANGED <<now, connection, crossed>>
    BY <1>6, WaitsFacts DEF ReadArrives
  <2>2. CASE UNCHANGED cache /\ Proceed(c, [p EXCEPT !.reads[s] = Empty])
    <3> PICK q : q = [p EXCEPT !.reads[s] = Empty]
      OBVIOUS
    <3>1. Empty \in Read
      BY DEF Read
    <3>2. Typed(q)
      BY <2>1, <3>1, TypedRead DEF Follows
    <3>3. Proceed(c, q)
      BY <2>2, Zenon
    <3> QED
      BY <1>1, <2>1, <2>2, <3>2, <3>3, ProceedTypes
  <2>3. ASSUME NEW asOf \in p.reads[s].since .. now, NEW value, s[2] # "history",
               value = [of |-> Subject(p.wallet, s), asOf |-> asOf],
               Proceed(c, [p EXCEPT !.reads[s] = value]),
               cache' = [cache EXCEPT ![CacheKey(p, s)] =
                           [until |-> now + CacheTtl, value |-> value]]
        PROVE  CacheTypeOK'
    <3>1. Subject(p.wallet, s) \in Subjects /\ p.reads[s].since \in Nat
      BY <2>1, <2>3, Slot DEF Attempt
    <3>2. value \in Value
      BY <1>2, <2>3, <3>1 DEF Value
    <3>3. value \in Read
      BY <3>2 DEF Read
    <3> PICK entry : entry = [until |-> now + CacheTtl, value |-> value]
      OBVIOUS
    <3>4. entry \in Entry \cup {NoEntry}
      BY <1>2, <3>2 DEF Entry
    <3>5. cache' \in [Subjects -> Entry \cup {NoEntry}]
      BY <1>1, <2>3, <3>4
    <3> PICK q : q = [p EXCEPT !.reads[s] = value]
      OBVIOUS
    <3>6. Typed(q)
      BY <2>1, <3>3, TypedRead DEF Follows
    <3>7. Proceed(c, q)
      BY <2>3, Zenon
    <3> QED
      BY <1>1, <2>1, <3>5, <3>6, <3>7, ProceedTypes
  <2> QED
    BY <1>6, <2>2, <2>3 DEF ReadArrives
<1>7. ASSUME NEW c \in Calls, NEW s \in Slots, ReadFails(c, s)
      PROVE  CacheTypeOK'
  <2> PICK p, old : p = call[c] /\ old = p.reads[s]
    OBVIOUS
  <2>1. /\ p # NoRequest /\ Typed(p) /\ s \in DOMAIN p.reads
        /\ old \in Attempt /\ p.wallet \in Wallets
        /\ UNCHANGED <<now, connection, cache, crossed>>
    BY <1>7, WaitsFacts DEF ReadFails
  <2>2. ASSUME NEW q, Typed(q), Proceed(c, q)
        PROVE  CacheTypeOK'
    BY <1>1, <2>1, <2>2, ProceedTypes
  <2>3. ASSUME NEW r \in NextAttempt(s, old), Proceed(c, [p EXCEPT !.reads[s] = r])
        PROVE  CacheTypeOK'
    <3> PICK q : q = [p EXCEPT !.reads[s] = r]
      OBVIOUS
    <3>1. r \in Read
      BY <2>1, <2>3, NextAttemptType DEF Read
    <3>2. Typed(q)
      BY <2>1, <3>1, TypedRead DEF Follows
    <3> QED
      BY <2>2, <2>3, <3>2, Zenon
  <2>4. ASSUME NEW f \in BOOLEAN,
               Proceed(c, [p EXCEPT !.reads = [p.reads EXCEPT ![s] = Empty],
                                          !.failed = f])
        PROVE  CacheTypeOK'
    <3> PICK q : q = [p EXCEPT !.reads = [p.reads EXCEPT ![s] = Empty], !.failed = f]
      OBVIOUS
    <3>1. Typed(q)
      BY <2>1, TypedFailure DEF Follows
    <3> QED
      BY <2>2, <2>4, <3>1, Zenon
  <2>5. \/ \E r \in NextAttempt(s, old) : Proceed(c, [p EXCEPT !.reads[s] = r])
        \/ Proceed(c, [p EXCEPT !.reads = [p.reads EXCEPT ![s] = Empty],
                                      !.failed = p.failed \/ s[2] # "history"])
    BY <1>7 DEF ReadFails
  <2>6. (p.failed \/ s[2] # "history") \in BOOLEAN
    BY <2>1, TypedFacts
  <2> QED
    BY <2>3, <2>4, <2>5, <2>6, Zenon
<1>8. CASE ConnectOther
  <2>1. connection' \in [Users -> Wallets \cup {NoWallet}]
    BY <1>1, <1>8 DEF ConnectOther
  <2>2. answer'.balances = {}
    BY <1>8 DEF ConnectOther, NoAnswer
  <2> QED
    BY <1>8, <2>1, <2>2 DEF CacheTypeOK, ConnectOther
<1>9. CASE Restart
  <2>1. answer'.balances = {}
    BY <1>9 DEF Restart, NoAnswer
  <2> QED
    BY <1>9, <2>1 DEF CacheTypeOK, Restart
<1>10. CASE Tick
  <2>1. now' \in 0 .. MaxTime /\ answer'.balances = {}
    BY <1>1, <1>2, <1>10 DEF Tick, NoAnswer
  <2> QED
    BY <1>10, <2>1 DEF CacheTypeOK, Tick
<1>11. CASE UNCHANGED cacheVars
  BY <1>11 DEF CacheTypeOK, cacheVars
<1> QED
  BY <1>4, <1>5, <1>6, <1>7, <1>8, <1>9, <1>10, <1>11 DEF CacheNext

---------------------------------------------------------------------------------------
\* The theorems.

\* Every step keeps the invariant, and answers no balance older than one answered before.
LEMMA CacheInvKept ==
  ASSUME CacheTypeOK, CacheInv, CacheNext
  PROVE  CacheInv' /\ Forward
<1>1. ASSUME NEW c \in Calls, NEW u \in Users, GetBalance(c, u)
      PROVE  CacheInv' /\ Forward
  <2>1. PICK n \in Networks : \E t \in TokensOf[n] : Begin(c, u, {<<n, t>>})
    BY <1>1 DEF GetBalance
  <2>2. \A t \in TokensOf[n] : {<<n, t>>} \in SUBSET Slots
    BY CacheConstants DEF Slots
  <2> QED
    BY <2>1, <2>2, BeginKeeps
<1>2. ASSUME NEW c \in Calls, NEW u \in Users, GetWalletSummary(c, u)
      PROVE  CacheInv' /\ Forward
  <2>1. PICK n \in Networks :
          Begin(c, u, {<<n, t>> : t \in TokensOf[n] \cup
                                           IF n = History THEN {"history"} ELSE {}})
    BY <1>2 DEF GetWalletSummary
  <2> PICK slots : slots = {<<n, t>> : t \in TokensOf[n] \cup
                                              IF n = History THEN {"history"} ELSE {}}
    OBVIOUS
  <2>2. slots \in SUBSET Slots
    BY CacheConstants DEF Slots
  <2> QED
    BY <2>1, <2>2, BeginKeeps, Zenon
<1> QED
  BY <1>1, <1>2, ArrivalKeeps, FailureKeeps, ReconnectKeeps, CacheRestartKeeps,
     CacheTickKeeps DEF CacheNext

\* The invariant is one: it holds at first and every step keeps it.
LEMMA CacheInvCorrect == CacheSpec => [](CacheTypeOK /\ CacheInv)
<1>1. ASSUME CacheInit PROVE CacheTypeOK /\ CacheInv
  <2>1. CacheTypeOK
    BY <1>1, CacheConstants DEF CacheInit, CacheTypeOK, NoAnswer
  <2>2. \A k \in Subjects : newest[k] <= now /\ EntryOK(k, cache, newest, crossed, now)
    BY <1>1 DEF CacheInit, EntryOK
  <2> QED
    BY <1>1, <2>1, <2>2 DEF CacheInit, NoAnswer, CacheInv, AnswerOK
<1>2. ASSUME CacheTypeOK, CacheInv, [CacheNext]_cacheVars
      PROVE  CacheTypeOK' /\ CacheInv'
  <2>1. CASE UNCHANGED cacheVars
    <3>1. CacheInv'
      <4>1. UNCHANGED <<now, call, cache, answer, newest, crossed>>
        BY <2>1 DEF cacheVars
      <4> QED
        BY <1>2, <4>1, Zenon DEF CacheInv, AnswerOK
    <3>2. CacheTypeOK'
      BY <1>2, CacheTypesKept
    <3> QED
      BY <3>1, <3>2
  <2> QED
    BY <1>2, <2>1, CacheTypesKept, CacheInvKept
<1> QED
  BY <1>1, <1>2, PTL DEF CacheSpec

\* The types of the adapter's state: the shared cache, the requests under way.
THEOREM CacheTypesCorrect == CacheSpec => []CacheTypeOK
BY CacheInvCorrect, PTL

\* getBalance and getWalletSummary: no balance answered is older than the cache's
\* lifetime, one node's answer and the slowest read of a summary together, for any number of users, requests
\* and nodes, and with or without a key to Etherscan.
THEOREM StalenessCorrect == CacheSpec => []StalenessIsBounded
<1>1. CacheInv => StalenessIsBounded
  BY DEF CacheInv, AnswerOK, StalenessIsBounded
<1> QED
  BY <1>1, CacheInvCorrect, PTL

\* Only when two requests are about a balance at once can a later answer be older than an
\* earlier one: the shared cache alone never takes a user back.
THEOREM CrossedCorrect == CacheSpec => OnlyCrossedReadsGoBack
<1>1. ASSUME CacheTypeOK, CacheInv, [CacheNext]_cacheVars
      PROVE  [\A b \in answer'.balances :
                b.of \notin crossed' => b.asOf >= newest[b.of]]_cacheVars
  BY <1>1, CacheInvKept DEF Forward
<1> QED
  BY <1>1, CacheInvCorrect, PTL DEF CacheSpec, OnlyCrossedReadsGoBack
=======================================================================================
