------------------------------- MODULE BoxSync -------------------------------
(* Synchronization of an offline box with the central installation
   (src/src/modules/sync, src/src/database/subscribers/sync-outbox.subscriber.ts):
   a subscriber on the box numbers every save of a syncable row and stores a copy
   of it in the outbox, in the same transaction; a loop pushes the outbox in
   batches; the central installation keeps what it received in its inbox.

   A content of a row is named by the number of the save that wrote it.  One box
   is rented, once; its token was set by hand.                                *)
EXTENDS Naturals, FiniteSets

CONSTANTS
  Rows,         \* syncable rows: orders, order_items, payments, print_jobs
  MaxWorkers,   \* transactions open at the same time
  BatchSize,    \* rows in one push
  MaxSaves,     \* saves ever started
  MaxBypasses,  \* writes that run no subscriber
  MaxFailures   \* lost connections and restarts of the box

ASSUME BoundsAssumption == BatchSize \in Nat \ {0} /\ MaxSaves \in Nat /\ MaxFailures \in Nat

VARIABLES
  table,        \* the save whose content a row has
  lastVersion,  \* sync_version_seq
  tx,           \* the save a transaction is about to commit
  outbox,
  push,         \* the batch the loop is waiting for
  requests,     \* pushes on their way
  admitted,     \* pushes the guard let through
  answers, inbox, rental, used,
  raced         \* history: rows that two transactions saved at the same time

box == <<table, lastVersion, tx, outbox, raced>>
network == <<push, requests, admitted, answers>>
vars == <<box, network, inbox, rental, used>>

Writers == 1..MaxWorkers
Versions == 1..MaxSaves
NoSave == 0
Unrecorded == MaxSaves + 1    \* a content that no subscriber saw
Idle == [row |-> "none", version |-> NoSave]
NoPush == [id |-> 0, rows |-> {}]

Snapshot == [row : Rows, version : Versions]
PushIds == 1..(MaxFailures + 1)
Push == [id : PushIds, rows : SUBSET Snapshot]

Snapshots(entries) == {[row |-> o.row, version |-> o.version] : o \in entries}

TypeOK ==
  /\ table \in [Rows -> Versions \cup {NoSave, Unrecorded}]
  /\ lastVersion \in Versions \cup {NoSave}
  /\ tx \in [Writers -> Snapshot \cup {Idle}]
  /\ outbox \subseteq [row : Rows, version : Versions, pushed : BOOLEAN]
  /\ push \in Push \cup {NoPush} /\ requests \subseteq Push /\ admitted \subseteq Push
  /\ answers \subseteq [id : PushIds, ok : BOOLEAN]
  /\ inbox \subseteq Snapshot
  /\ rental \in {"pending", "confirmed", "active", "returned", "cancelled"}
  /\ used \in [bypasses : Nat, failures : Nat]
  /\ raced \subseteq Rows

Init ==
  /\ table = [r \in Rows |-> NoSave] /\ lastVersion = NoSave
  /\ tx = [w \in Writers |-> Idle]
  /\ outbox = {} /\ inbox = {}
  /\ push = NoPush /\ requests = {} /\ admitted = {} /\ answers = {}
  /\ rental = "pending"
  /\ used = [bypasses |-> 0, failures |-> 0]
  /\ raced = {}

----------------------------------------------------------------------------
(* The box: saves and the subscriber.  *)

Saving(r) == {w \in Writers : tx[w] # Idle /\ tx[w].row = r}

(* Mutant: the copy is stored outside the transaction.  *)
StampAndEnqueue(w, r) ==
  /\ tx[w] = Idle /\ lastVersion < MaxSaves
  /\ table[r] # NoSave \/ Saving(r) = {}
  /\ lastVersion' = lastVersion + 1
  /\ tx' = [tx EXCEPT ![w] = [row |-> r, version |-> lastVersion + 1]]
  /\ raced' = IF Saving(r) = {} THEN raced ELSE raced \cup {r}
  /\ outbox' = outbox \cup {[row |-> r, version |-> lastVersion + 1, pushed |-> FALSE]}
  /\ UNCHANGED <<table, network, inbox, rental, used>>

(* beforeInsert, beforeUpdate: the transaction takes the next number.  A row that
   is not there yet is inserted by one transaction.  *)
Stamp(w, r) ==
  /\ tx[w] = Idle /\ lastVersion < MaxSaves
  /\ table[r] # NoSave \/ Saving(r) = {}
  /\ lastVersion' = lastVersion + 1
  /\ tx' = [tx EXCEPT ![w] = [row |-> r, version |-> lastVersion + 1]]
  /\ raced' = IF Saving(r) = {} THEN raced ELSE raced \cup {r}
  /\ UNCHANGED <<table, outbox, network, inbox, rental, used>>

(* The row is written, afterInsert or afterUpdate stores the copy, and both are
   committed.  *)
Commit(w) ==
  /\ tx[w] # Idle
  /\ table' = [table EXCEPT ![tx[w].row] = tx[w].version]
  /\ outbox' = outbox \cup {[row |-> tx[w].row, version |-> tx[w].version, pushed |-> FALSE]}
  /\ tx' = [tx EXCEPT ![w] = Idle]
  /\ UNCHANGED <<lastVersion, network, inbox, rental, used, raced>>

(* A statement of the transaction fails; the number is not given back.  *)
Rollback(w) ==
  /\ tx[w] # Idle
  /\ tx' = [tx EXCEPT ![w] = Idle]
  /\ UNCHANGED <<table, lastVersion, outbox, network, inbox, rental, used, raced>>

(* printJobRepository.update, orderRepository.softRemove and
   orderItemRepository.remove: the subscriber has no entity or no hook.  *)
Bypass(r) ==
  /\ used.bypasses < MaxBypasses /\ table[r] # NoSave
  /\ used' = [used EXCEPT !.bypasses = @ + 1]
  /\ table' = [table EXCEPT ![r] = Unrecorded]
  /\ UNCHANGED <<lastVersion, tx, outbox, network, inbox, rental, raced>>

----------------------------------------------------------------------------
(* The box: the push loop.  *)

(* Mutant: the loop remembers how far it got.  *)
AfterCursor == {o \in outbox : \A p \in outbox : p.pushed => p.version < o.version}

Pending == {o \in outbox : ~o.pushed}

NextBatch ==
  {o \in Pending : Cardinality({p \in Pending : p.version < o.version}) < BatchSize}

(* The least id that no request still under way has.  *)
IsFree(id) ==
  /\ \A q \in requests \cup admitted : q.id # id
  /\ \A taken \in 1..(id - 1) : \E q \in requests \cup admitted : q.id = taken

(* A tick: one push at a time, the oldest rows first.  *)
HandlePush ==
  /\ push = NoPush /\ NextBatch # {}
  /\ \E id \in PushIds : IsFree(id) /\ push' = [id |-> id, rows |-> Snapshots(NextBatch)]
  /\ requests' = requests \cup {push'}
  /\ UNCHANGED <<box, admitted, answers, inbox, rental, used>>

(* Mutant: what is pending when the answer arrives is marked.  *)
AllPending(rows) == Pending

Sent(rows) == {o \in Pending : [row |-> o.row, version |-> o.version] \in rows}

MarkPushed(entries) ==
  (outbox \ entries) \cup {[o EXCEPT !.pushed = TRUE] : o \in entries}

(* The answer: the rows of the batch are marked, or stay as they are.  *)
Answered(a) ==
  /\ a.id = push.id
  /\ outbox' = IF a.ok THEN MarkPushed(Sent(push.rows)) ELSE outbox
  /\ push' = NoPush /\ answers' = {}
  /\ UNCHANGED <<table, lastVersion, tx, raced, requests, admitted, inbox, rental, used>>

(* The connection breaks: fetch throws, the next tick tries again.  The request
   may still arrive; nobody waits for its answer.  *)
LoseConnection ==
  /\ used.failures < MaxFailures /\ push # NoPush
  /\ used' = [used EXCEPT !.failures = @ + 1]
  /\ push' = NoPush /\ answers' = {}
  /\ requests' \in {requests, {q \in requests : q.id # push.id}}
  /\ UNCHANGED <<box, admitted, inbox, rental>>

(* The box is switched off and on again.  *)
Restart ==
  /\ used.failures < MaxFailures
  /\ used' = [used EXCEPT !.failures = @ + 1]
  /\ tx' = [w \in Writers |-> Idle]
  /\ push' = NoPush /\ answers' = {}
  /\ UNCHANGED <<table, lastVersion, outbox, raced, requests, admitted, inbox, rental>>

----------------------------------------------------------------------------
(* The central installation.  *)

(* SyncTokenGuard: the token of an active rental.  *)
CanActivate == rental = "active"

Answer(q, ok) == IF q.id = push.id THEN answers \cup {[id |-> q.id, ok |-> ok]} ELSE answers

Admit(q) ==
  /\ q \in requests /\ CanActivate
  /\ requests' = requests \ {q} /\ admitted' = admitted \cup {q}
  /\ UNCHANGED <<box, push, answers, inbox, rental, used>>

Refuse(q) ==
  /\ q \in requests /\ ~CanActivate
  /\ requests' = requests \ {q} /\ answers' = Answer(q, FALSE)
  /\ UNCHANGED <<box, push, admitted, inbox, rental, used>>

(* Rows that are there already are ignored; the guard is not asked again.  *)
Ingest(q) ==
  /\ q \in admitted
  /\ admitted' = admitted \ {q}
  /\ inbox' = inbox \cup q.rows /\ answers' = Answer(q, TRUE)
  /\ UNCHANGED <<box, push, requests, rental, used>>

SetRental(from, to) ==
  /\ rental \in from /\ rental' = to
  /\ UNCHANGED <<box, network, inbox, used>>

ConfirmAssignment == SetRental({"pending"}, "confirmed")
DeclineAssignment == SetRental({"pending"}, "cancelled")
ActivateRental == SetRental({"confirmed"}, "active")

(* No status is refused; a second return changes nothing here.  *)
ReturnRental == SetRental({"pending", "confirmed", "active", "cancelled"}, "returned")

----------------------------------------------------------------------------

Box ==
  \/ \E w \in Writers : Commit(w) \/ Rollback(w) \/ \E r \in Rows : Stamp(w, r)
  \/ \E r \in Rows : Bypass(r)

Answers == \E a \in answers : Answered(a)
Ingests == (\E q \in requests : Admit(q) \/ Refuse(q)) \/ \E q \in admitted : Ingest(q)

Next ==
  \/ Box \/ HandlePush \/ Answers \/ LoseConnection \/ Restart
  \/ Ingests \/ ConfirmAssignment \/ DeclineAssignment \/ ActivateRental \/ ReturnRental

Spec == Init /\ [][Next]_vars

(* The interval timer ticks on (@Interval), and a request on a connection that
   holds is answered; users need not save, nor administrators rent.  *)
FairSpec ==
  Spec /\ WF_vars(HandlePush) /\ WF_vars(Ingests) /\ WF_vars(Answers)

----------------------------------------------------------------------------
(* A row is only marked as pushed when the central installation has it, whatever
   was committed while the push was under way (pushedAt in pushPendingBatch).  *)
PushedIsReceived ==
  \A o \in outbox : o.pushed => [row |-> o.row, version |-> o.version] \in inbox

Newest(r) == {o \in outbox : o.row = r /\ \A p \in outbox : p.row = r => p.version <= o.version}

(* The newest copy of a row is the row as it is, unless two transactions saved it
   at once or something wrote it past the subscriber (SyncOutboxSubscriber).  *)
NewestIsCurrent ==
  \A r \in Rows : r \in raced \/ table[r] = Unrecorded \/ \A o \in Newest(r) : o.version = table[r]

(* The synchronization keeps what its design promises.  *)
Promise == INSTANCE SyncPromise WITH
  Changes <- Snapshot, committed <- Snapshots(outbox), received <- inbox,
  phase <- CASE rental \in {"pending", "confirmed"} -> "before"
             [] rental = "active" -> "active"
             [] OTHER -> "over"

PromiseKept == Promise!Spec
=============================================================================
