------------------------------------ MODULE Vault ------------------------------------
(***************************************************************************)
(* The Vault page (VaultApp): recovery phrases that never leave the        *)
(* device, the encrypted vault in the browser's storage, and the signing   *)
(* of a prepared payment, up to the server's check of the signature.       *)
(*                                                                         *)
(* Several tabs of one browser share the storage.  A tab goes on while a   *)
(* key is derived or a request is on its way, so what it stored or read    *)
(* may be replaced by another tab, by the user or by a reload.             *)
(*                                                                         *)
(* A set of addresses stands for the phrase it is derived from.  Whether a *)
(* payment may still be made is PaymentIntents; here the server refuses at *)
(* will.                                                                   *)
(***************************************************************************)
EXTENDS Naturals, FiniteSets

CONSTANTS
  Phrases,      \* recovery phrases
  Spellings,    \* passwords as keyboards spell them
  Nfkc,         \* their normal form
  Tabs, LinksOf,    \* tabs, and the links each can be opened with
  Families,     \* chain families payments are made on
  Found,        \* what the storage may hold before the page is opened
  NoPhrase, NoVault, Malformed, NoTab, NoTx

ASSUME ConstantsAssumption ==
  /\ Nfkc \in [Spellings -> Spellings] /\ \A s \in Spellings : Nfkc[Nfkc[s]] = Nfkc[s]
  /\ LinksOf \in [Tabs -> SUBSET {"none", "sign", "connect"}]
  /\ Families \subseteq {"EVM", "SOLANA", "NEAR", "APTOS", "CASPER"}
  /\ NoPhrase \notin Phrases /\ NoTab \notin Tabs

\* An encrypted vault: the phrase inside, the addresses beside it and the password
\* its key was derived from.
Vaults == [phrase : Phrases, addresses : Phrases, key : Spellings]
ASSUME NoVaultAssumption ==
  /\ NoVault \notin Vaults /\ Malformed \notin Vaults \cup {NoVault}
  /\ Found \subseteq Vaults \cup {NoVault, Malformed}

Transactions == [family : Families, sender : Phrases]
ASSUME NoTxAssumption == NoTx \notin Transactions

Steps == {"welcome", "phrase", "password", "restore", "unlock", "ready", "sign", "signed"}

\* What a tab waits for: with which password, of which vault (or, to save, with which
\* stored before), and which payment is being read.  After "stuck" nothing comes.
Ops == [kind : {"none", "encrypt", "check", "unlock", "fetch", "read", "submit", "connect",
                "stuck"},
        by : Spellings \cup {NoTab}, blob : Vaults \cup {NoVault, Malformed},
        tx : Transactions \cup {NoTx}]
NoOp == [kind |-> "none", by |-> NoTab, blob |-> NoVault, tx |-> NoTx]

VARIABLES
  storage,     \* the vault in the browser's storage
  writer,      \* history: the tab that changed it last
  tab,         \* the tabs
  connected    \* whose addresses the server has for the user of the links

vars == <<storage, writer, tab, connected>>

TabTypes ==
  [link : {"none", "sign", "connect"}, step : Steps,
   mnemonic : Phrases \cup {NoPhrase},      \* a phrase that is created or restored
   vault : Vaults \cup {NoVault},
   held : Phrases \cup {NoPhrase},          \* mnemonicRef
   request : Transactions \cup {NoTx},      \* signRequest
   sent : Phrases \cup {NoPhrase},          \* history: who signed what it broadcast
   op : Ops]                                \* what it waits for (busy)

-----------------------------------------------------------------------------
\* The encrypted vault.

\* parseEncryptedVault
Parse(stored) == IF stored \in Vaults THEN stored ELSE NoVault

Encrypt(phrase, s) == [phrase |-> phrase, addresses |-> phrase, key |-> Nfkc[s]]

\* decryptVault succeeds: the password as spelled, for vaults made before passwords were
\* normalized, or its normal form, and the addresses are the phrase's.
Decrypts(v, s) == v.key \in {s, Nfkc[s]} /\ v.addresses = v.phrase

-----------------------------------------------------------------------------
\* Signatures, and the server's check of them against the connected wallet.

\* What the Vault signs with the phrase it holds: nothing, for a Casper deploy of
\* another account.
Signed(phrase, tx) ==
  IF tx.family = "CASPER" /\ tx.sender # phrase THEN {}
  ELSE {[tx |-> tx, key |-> phrase, by |-> phrase]}

\* EVM, Solana and NEAR: the signature is the connected wallet's.
ValidUnderWallet(s, expected, wallet) == s.tx = expected /\ s.by = wallet

\* Aptos and Casper: the key comes with the signature.  It has to be the connected
\* account's, and the signature has to verify under it.
ValidUnderSentKey(s, expected, wallet) == s.tx = expected /\ s.key = wallet /\ s.by = s.key

\* Mutant of Valid: the key that comes with a signature may be any.
ValidUnconnected(s, expected, wallet) ==
  IF expected.family \in {"APTOS", "CASPER"} THEN s.tx = expected /\ s.by = s.key
  ELSE ValidUnderWallet(s, expected, wallet)

Valid(s, expected, wallet) ==
  IF expected.family \in {"APTOS", "CASPER"} THEN ValidUnderSentKey(s, expected, wallet)
  ELSE ValidUnderWallet(s, expected, wallet)

-----------------------------------------------------------------------------
Opened(link) ==
  [link |-> link, step |-> IF Parse(storage) = NoVault THEN "welcome" ELSE "unlock",
   mnemonic |-> NoPhrase, vault |-> Parse(storage), held |-> NoPhrase, request |-> NoTx,
   sent |-> NoPhrase, op |-> NoOp]

\* A device without a vault or with one: of this version, of an earlier one (its key is
\* the password as it was spelled), with other addresses than its phrase's, or damaged.
Init ==
  /\ storage \in Found
  /\ writer = NoTab
  /\ connected \in Phrases \cup {NoPhrase}
  /\ tab \in [Tabs -> {Opened(link) : link \in UNION {LinksOf[t] : t \in Tabs}}]
  /\ \A t \in Tabs : tab[t].link \in LinksOf[t]

\* A page is opened, or reloaded at any moment.
Load(t) ==
  /\ \E link \in LinksOf[t] : tab' = [tab EXCEPT ![t] = Opened(link)]
  /\ UNCHANGED <<storage, writer, connected>>

\* Tab t changes the storage, or leaves it as it is.
Store(t, stored) ==
  storage' = stored /\ writer' = IF stored = storage THEN writer ELSE t

Idle(t) == tab[t].op = NoOp
Waits(t, kind) == tab[t].op.kind = kind

\* A step of tab t's own state.
Goes(t, from, to) ==
  /\ tab[t].step = from
  /\ tab' = [tab EXCEPT ![t].step = to]
  /\ UNCHANGED <<storage, writer, connected>>

-----------------------------------------------------------------------------
\* A phrase is created and confirmed, or restored.

Create(t) ==
  /\ tab[t].step = "welcome"
  /\ \E p \in Phrases : tab' = [tab EXCEPT ![t].step = "phrase", ![t].mnemonic = p]
  /\ UNCHANGED <<storage, writer, connected>>

\* beginVerify and verify: the words are put in order, at last.
Verify(t) == Goes(t, "phrase", "password")

\* To the entry of a phrase, also from the unlock screen ("Forgot password?").
ToRestore(t) == Goes(t, "welcome", "restore") \/ Goes(t, "unlock", "restore")

BackToWelcome(t) == Goes(t, "restore", "welcome")

Restore(t) ==
  /\ tab[t].step = "restore"
  /\ \E p \in Phrases : tab' = [tab EXCEPT ![t].step = "password", ![t].mnemonic = p]
  /\ UNCHANGED <<storage, writer, connected>>

-----------------------------------------------------------------------------
\* The phrase is encrypted, stored, read back and opened before it counts as saved.

\* The operation of kind begins, with the password s.
Begins(t, kind, s, blob) ==
  /\ Idle(t)
  /\ tab' = [tab EXCEPT ![t].op = [kind |-> kind, by |-> s, blob |-> blob, tx |-> NoTx]]
  /\ UNCHANGED <<storage, writer, connected>>

\* save, with an acceptable password given twice; previous is what is stored now.
Save(t) ==
  tab[t].step = "password" /\ \E s \in Spellings : Begins(t, "encrypt", s, storage)

\* Mutant of Kept: a vault that is there is not overwritten.
KeptOnce(stored, made) == IF stored \in Vaults THEN stored ELSE made

\* What the storage holds once made is set.
Kept(stored, made) == made

SaveEncrypted(t) ==
  /\ Waits(t, "encrypt")
  /\ Store(t, Kept(storage, Encrypt(tab[t].mnemonic, tab[t].op.by)))
  /\ tab' = [tab EXCEPT ![t].op.kind = "check"]
  /\ UNCHANGED connected

SaveChecked(t) ==
  /\ Waits(t, "check")
  /\ LET made == Encrypt(tab[t].mnemonic, tab[t].op.by)
     IN /\ Decrypts(made, tab[t].op.by)
        /\ tab' = [tab EXCEPT ![t].vault = made, ![t].mnemonic = NoPhrase,
                              ![t].step = "ready", ![t].op = NoOp]
  /\ UNCHANGED <<storage, writer, connected>>

\* The cipher, the storage or the check fails: what was stored before is put back, also
\* over what another tab stored meanwhile.
SaveFails(t) ==
  /\ Waits(t, "encrypt") \/ Waits(t, "check")
  /\ Store(t, tab[t].op.blob)
  /\ tab' = [tab EXCEPT ![t].op = NoOp]
  /\ UNCHANGED connected

\* ... unless the storage fails again when it is put back: it keeps what it has, and the
\* tab stays busy until it is reloaded.
PutBackFails(t) ==
  /\ Waits(t, "encrypt") \/ Waits(t, "check")
  /\ tab' = [tab EXCEPT ![t].op = [NoOp EXCEPT !.kind = "stuck"]]
  /\ UNCHANGED <<storage, writer, connected>>

-----------------------------------------------------------------------------
\* The vault is opened, and removed.

Unlock(t) ==
  /\ tab[t].step = "unlock" /\ tab[t].vault # NoVault
  /\ \E s \in Spellings : Begins(t, "unlock", s, tab[t].vault)

\* The vault that was there when unlocking began is open, whatever the screen shows by
\* now; with a payment to sign, its request is fetched.
Unlocked(t) ==
  /\ Waits(t, "unlock")
  /\ IF ~Decrypts(tab[t].op.blob, tab[t].op.by) THEN tab' = [tab EXCEPT ![t].op = NoOp]
     ELSE IF tab[t].link = "sign" THEN tab' = [tab EXCEPT ![t].op.kind = "fetch"]
     ELSE tab' = [tab EXCEPT ![t].step = "ready", ![t].op = NoOp]
  /\ UNCHANGED <<storage, writer, connected>>

\* The server built the payment for the connected wallet and its answer arrives: the
\* phrase is held from then on, also if the vault was removed meanwhile.
Fetched(t) ==
  /\ Waits(t, "fetch") /\ connected # NoPhrase
  /\ \E f \in Families :
       tab' = [tab EXCEPT
                 ![t].held = tab[t].op.blob.phrase,
                 ![t].op = [@ EXCEPT !.kind = "read",
                                     !.tx = [family |-> f, sender |-> connected]]]
  /\ UNCHANGED <<storage, writer, connected>>

\* The answer is read, and the payment shown for review.
FetchedRead(t) ==
  /\ Waits(t, "read")
  /\ tab' = [tab EXCEPT ![t].request = tab[t].op.tx, ![t].step = "sign", ![t].op = NoOp]
  /\ UNCHANGED <<storage, writer, connected>>

\* Remove is tapped twice within five seconds, on one of these screens or on both; nothing
\* keeps the second tap from falling into an operation.
Remove(t) ==
  /\ tab[t].step \in {"unlock", "ready"}
  /\ Store(t, NoVault)
  /\ tab' = [tab EXCEPT ![t].held = NoPhrase, ![t].vault = NoVault, ![t].step = "welcome"]
  /\ UNCHANGED connected

-----------------------------------------------------------------------------
\* A payment is signed and submitted, or rejected.

\* Without a phrase, as after a removal while the payment was read, nothing begins.
SignAndSubmit(t) ==
  tab[t].step = "sign" /\ tab[t].held # NoPhrase /\ Begins(t, "submit", NoTab, NoVault)

\* The server accepts and broadcasts what was signed; its answer may be lost.  The page
\* keeps an answered request, but never reads it again.
Submitted(t) ==
  /\ Waits(t, "submit") /\ connected # NoPhrase
  /\ LET tx == tab[t].request
     IN \E s \in Signed(tab[t].held, tx), answered \in BOOLEAN :
          /\ Valid(s, tx, connected)
          /\ tab' = [tab EXCEPT
               ![t].sent = s.by,
               ![t].held = IF answered THEN NoPhrase ELSE @,
               ![t].request = IF answered THEN NoTx ELSE @,
               ![t].step = IF answered THEN "signed" ELSE @,
               ![t].op = NoOp]
  /\ UNCHANGED <<storage, writer, connected>>

RejectSign(t) ==
  /\ tab[t].step = "sign" /\ Idle(t)
  /\ tab' = [tab EXCEPT ![t].held = NoPhrase, ![t].request = NoTx, ![t].step = "ready",
                          ![t].sent = NoPhrase]
  /\ UNCHANGED <<storage, writer, connected>>

BackToWallet(t) ==
  /\ tab[t].step = "signed"
  /\ tab' = [tab EXCEPT ![t].step = "ready", ![t].sent = NoPhrase]
  /\ UNCHANGED <<storage, writer, connected>>

-----------------------------------------------------------------------------
\* The wallet's addresses are connected to the chat.

\* pair, with a pairing link, and authorizeChatGPT, with the provider's.
Connect(t) ==
  /\ tab[t].step = "ready" /\ tab[t].vault # NoVault /\ tab[t].link = "connect"
  /\ Begins(t, "connect", NoTab, tab[t].vault)

\* The server takes the addresses (Sessions).  An authorized page is left for the chat.
Connected(t) ==
  /\ Waits(t, "connect")
  /\ connected' = tab[t].op.blob.addresses
  /\ \/ tab' = [tab EXCEPT ![t].op = NoOp]
     \/ tab' = [tab EXCEPT ![t] = Opened("connect")]
  /\ UNCHANGED <<storage, writer>>

\* Nothing was signed, the server refuses, the request does not reach it or its answer
\* cannot be read: only the error is shown, and a phrase that is held stays.
RequestFails(t) ==
  /\ tab[t].op.kind \in {"fetch", "read", "submit", "connect"}
  /\ tab' = [tab EXCEPT ![t].op = NoOp]
  /\ UNCHANGED <<storage, writer, connected>>

\* Another device, or another link, connects another wallet for the user.
Reconnect == connected' \in Phrases /\ UNCHANGED <<storage, writer, tab>>

Settle(t) ==
  \/ SaveEncrypted(t) \/ SaveChecked(t) \/ SaveFails(t) \/ PutBackFails(t) \/ Unlocked(t)
  \/ Fetched(t) \/ FetchedRead(t) \/ Submitted(t) \/ Connected(t) \/ RequestFails(t)

Next ==
  \/ \E t \in Tabs :
       \/ Load(t) \/ Create(t) \/ Verify(t) \/ ToRestore(t) \/ BackToWelcome(t)
       \/ Restore(t) \/ Save(t) \/ Unlock(t) \/ Remove(t) \/ SignAndSubmit(t)
       \/ RejectSign(t) \/ BackToWallet(t) \/ Connect(t) \/ Settle(t)
  \/ Reconnect

Spec == Init /\ [][Next]_vars

-----------------------------------------------------------------------------
\* Properties.

\* Types of the storage and the tabs.
TypeOK ==
  /\ storage \in Vaults \cup {NoVault, Malformed}
  /\ writer \in Tabs \cup {NoTab}
  /\ connected \in Phrases \cup {NoPhrase}
  /\ tab \in [Tabs -> TabTypes]

\* What the server broadcasts was signed by the wallet that is connected when it checks
\* the signature, also when another wallet was connected between review and signature;
\* and a Casper payment by the wallet it was built for, because the Vault compares the
\* account.
BroadcastsAreOfTheConnectedWallet ==
  [][\A t \in Tabs : tab'[t].sent \notin {NoPhrase, tab[t].sent} =>
       /\ tab'[t].sent = connected
       /\ tab[t].request.family = "CASPER" => connected = tab[t].request.sender]_vars

\* What a review signs with is the phrase of the vault the tab shows, if that was not
\* removed meanwhile: also after an answer that could not be read left a phrase behind,
\* and whatever was restored and saved since.
ReviewSignsWithTheShownVault ==
  \A t \in Tabs : tab[t].step = "sign" /\ tab[t].held # NoPhrase /\ tab[t].vault # NoVault
    => tab[t].vault.phrase = tab[t].held

\* "Saved and verified on this device": the wallet of the ready screen is the one in the
\* storage, however saving, failing, removing and reloading went, until another tab
\* writes there.
ReadyIsStored ==
  \A t \in Tabs : tab[t].step = "ready" /\ tab[t].vault # NoVault /\ writer \in {NoTab, t}
    => storage = tab[t].vault

\* The addresses the ready screen shows and hands to the chat are derived from the phrase
\* in the vault, also when the stored vault was altered.
ShownAddressesAreDerived ==
  \A t \in Tabs : tab[t].step \in {"ready", "sign", "signed"} /\ tab[t].vault # NoVault
    => tab[t].vault.addresses = tab[t].vault.phrase

\* "Payment broadcast" is only shown for a payment the server broadcast, and the phrase
\* is gone by then.
SignedMeansSent ==
  \A t \in Tabs : tab[t].step = "signed" => tab[t].sent # NoPhrase /\ tab[t].held = NoPhrase

\* A saved vault opens with every spelling of its password another keyboard may send.
SavedVaultsOpenAlike ==
  [][\A t \in Tabs : Waits(t, "check") /\ tab'[t].step = "ready" =>
       \A s \in Spellings : Nfkc[s] = Nfkc[tab[t].op.by] => Decrypts(tab'[t].vault, s)]_vars
=======================================================================================
