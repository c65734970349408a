---------------------------------- MODULE AuditLog ----------------------------------
(***************************************************************************)
(* The audit_events table as a hash chain: AuditService.record appends,    *)
(* get_audit_log lists a user's newest events and verifies the listing.    *)
(* All users share one table and one chain.                                *)
(*                                                                         *)
(* A hash is named by what went into it: the previous hash and the content *)
(* of the event.  Two hashes are then equal exactly when everything they   *)
(* cover is, which is what SHA-256 is relied upon for.                     *)
(***************************************************************************)
EXTENDS Naturals, Sequences, SequencesExt

CONSTANTS
  Users,
  Contents,    \* action, entity, decision, reason and metadata of an event
  MaxLimit,    \* the largest listing asked for
  MaxEvents    \* bound on the chain

ASSUME AuditAssumption == MaxLimit \in Nat \ {0} /\ MaxEvents \in Nat

VARIABLES
  chain,     \* the table audit_events in rowid order
  history    \* history: what was recorded, <<user, content>> in order

auditVars == <<chain, history>>

Genesis == <<>>

\* Mutant of HashOf: the previous hash is left out.
HashOfContent(previous, user, content) == <<content>>

\* The hash of an event covers the previous hash and everything the event says.
HashOf(previous, user, content) == Append(previous, <<user, content>>)

\* The newest event's hash, whoever it is about.
LatestHash == IF chain = <<>> THEN Genesis ELSE Last(chain).hash

AuditInit == chain = <<>> /\ history = <<>>

\* AuditService.record: read the latest hash and append, without an await between.
Record(user, content) ==
  /\ Len(chain) < MaxEvents
  /\ chain' = Append(chain, [user |-> user, content |-> content,
                             previous |-> LatestHash,
                             hash |-> HashOf(LatestHash, user, content)])
  /\ history' = Append(history, <<user, content>>)

\* Somebody edits a stored row and leaves its hashes (audit-service.test.ts does).
Edit(i, content) ==
  /\ chain' = [chain EXCEPT ![i].content = content]
  /\ UNCHANGED history

AuditNext ==
  \/ \E u \in Users, w \in Contents : Record(u, w)
  \/ \E i \in DOMAIN chain, w \in Contents : Edit(i, w)

AuditSpec == AuditInit /\ [][AuditNext]_auditVars

-----------------------------------------------------------------------------------
(* Reading.                                                                *)

\* SELECT ... WHERE user_id = user ORDER BY rowid DESC LIMIT limit: the rows it returns are
\* the user's, newest first, and a row it leaves out is older than all of them, which are
\* as many as were asked for.
Selects(rowids, user, limit) ==
  /\ \A i \in DOMAIN rowids : chain[rowids[i]].user = user
  /\ \A i, j \in DOMAIN rowids : i < j => rowids[j] < rowids[i]
  /\ \A k \in DOMAIN chain : chain[k].user = user =>
       \/ \E i \in DOMAIN rowids : rowids[i] = k
       \/ Len(rowids) = limit /\ \A i \in DOMAIN rowids : k < rowids[i]

\* Store.listAudit: what the query may return, which is one listing.
ListAudit(user, limit) ==
  {[i \in DOMAIN rowids |-> chain[rowids[i]]] :
     rowids \in {r \in SeqOf(DOMAIN chain, limit) : Selects(r, user, limit)}}

\* Mutants of Verify: only the links are checked; the list is not reversed.
VerifyLinks(events) ==
  LET chronological == Reverse(events)
  IN \A i \in DOMAIN chronological :
       chronological[i].previous =
         IF i = 1 THEN Genesis ELSE chronological[i - 1].hash
VerifyNewestFirst(events) ==
  \A i \in DOMAIN events :
    /\ events[i].previous = IF i = 1 THEN Genesis ELSE events[i - 1].hash
    /\ events[i].hash = HashOf(events[i].previous, events[i].user, events[i].content)

\* AuditService.verify: oldest first, each event must continue the one before and
\* hash to what it says; the first must continue GENESIS.
Verify(events) ==
  LET chronological == Reverse(events)
  IN \A i \in DOMAIN chronological :
       LET e == chronological[i]
       IN /\ e.previous = IF i = 1 THEN Genesis ELSE chronological[i - 1].hash
          /\ e.hash = HashOf(e.previous, e.user, e.content)

-----------------------------------------------------------------------------------
(* Properties.                                                             *)

Event == [user : Users, content : Contents, previous : Seq(Users \X Contents),
          hash : Seq(Users \X Contents)]

AuditTypeOK ==
  /\ chain \in Seq(Event)
  /\ history \in Seq(Users \X Contents)
  /\ Len(chain) = Len(history)

Said(events) == [i \in DOMAIN events |-> <<events[i].user, events[i].content>>]

Listings == UNION {ListAudit(u, n) : u \in Users, n \in 1 .. MaxLimit}

\* A listing that verifies tells the truth and leaves nothing out: it is, word for
\* word, the beginning of what was recorded.
VerifiedListingIsTrue ==
  \A events \in Listings : Verify(events) =>
    Said(Reverse(events)) = SubSeq(history, 1, Len(events))

\* The log of a server with one user verifies as long as nobody edits it and the
\* listing reaches back to its beginning.
SoleUsersLogVerifies ==
  \A u \in Users :
    /\ Said(chain) = history
    /\ Len(chain) <= MaxLimit
    /\ \A i \in DOMAIN chain : chain[i].user = u
    => \A events \in ListAudit(u, MaxLimit) : Verify(events)
===================================================================================
