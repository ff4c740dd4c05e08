-------------------------- MODULE Standalone_proofs --------------------------
(* What the two components that share no row with another one keep, each under
   a specification of its own: the synchronization of a box (BoxSync) and the
   helper shifts (ShiftPlanning).

   BoxSync, for any number of rows, transactions, saves and failures: nothing is
   marked as pushed that did not arrive, and the system implements the safety part
   of SyncPromise.  The argument follows a batch.  Rows of the outbox are never
   deleted, so a batch that was read from it stays a part of it wherever the push
   is (BatchesKnown); an answer belongs to the push the loop waits for, and a good
   one was given after its rows reached the inbox, which only grows (AnswersTrue).

   ShiftPlanning, for any plan and any interleaving of handlers that save what they
   read earlier: a confirmed helper is a proven one, and nothing exists without
   what it belongs to.  The argument follows the statements a handler has still to
   run: whatever the tables look like by then, each of them carries rows and values
   that keep the tables right (TasksProven), and each save looks once more for the
   row its own belongs to.                                                       *)
EXTENDS BoxSync, ShiftPlanning, FiniteSetTheorems, SequenceTheorems, TLAPS


Committed == Snapshots(outbox)
Underway == requests \cup admitted

BatchesKnown ==
  /\ push.rows \subseteq Committed
  /\ \A q \in Underway :
       /\ q.rows \subseteq Committed
       /\ q.id = push.id => q.rows = push.rows

AnswersTrue == \A a \in answers : a.id = push.id /\ (a.ok => push.rows \subseteq inbox)

\* Nothing is let through before the rental is active, which it is once.
AdmittedLater == admitted # {} => rental \notin {"pending", "confirmed"}

IInv == TypeOK /\ BatchesKnown /\ AnswersTrue /\ AdmittedLater /\ PushedIsReceived

-----------------------------------------------------------------------------
(* The outbox and the contents it holds.                                     *)

\* What a set of outbox rows contains.
LEMMA SnapshotsMember ==
  ASSUME NEW entries
  PROVE  \A s : s \in Snapshots(entries) <=>
                  \E o \in entries : s = [row |-> o.row, version |-> o.version]
BY DEF Snapshots

\* More rows contain more.
LEMMA SnapshotsGrow ==
  ASSUME NEW fewer, NEW more, fewer \subseteq more
  PROVE  Snapshots(fewer) \subseteq Snapshots(more)
BY DEF Snapshots

\* One more row contains one more.
LEMMA SnapshotsAdd ==
  ASSUME NEW entries, NEW row, NEW version
  PROVE  Snapshots(entries \cup {[row |-> row, version |-> version, pushed |-> FALSE]})
           = Snapshots(entries) \cup {[row |-> row, version |-> version]}
<1> DEFINE o == [row |-> row, version |-> version, pushed |-> FALSE]
           s == [row |-> row, version |-> version]
<1>1. s = [row |-> o.row, version |-> o.version] OBVIOUS
<1> HIDE DEF o, s
<1>2. Snapshots(entries \cup {o}) = Snapshots(entries) \cup {s} BY <1>1 DEF Snapshots
<1> QED BY <1>2 DEF o, s

\* The rows of an outbox of the right type are contents of known rows.
LEMMA SnapshotsType ==
  ASSUME NEW entries \in SUBSET [row : Rows, version : Versions, pushed : BOOLEAN]
  PROVE  Snapshots(entries) \subseteq Snapshot
BY DEF Snapshots, Snapshot

\* pushPendingBatch marks rows and leaves what they contain as it is.
LEMMA MarkKeepsSnapshots ==
  ASSUME NEW entries \in SUBSET outbox,
         outbox \subseteq [row : Rows, version : Versions, pushed : BOOLEAN]
  PROVE  /\ MarkPushed(entries) \subseteq [row : Rows, version : Versions, pushed : BOOLEAN]
         /\ Snapshots(MarkPushed(entries)) = Committed
<1> DEFINE Marked(o) == [o EXCEPT !.pushed = TRUE]
<1>1. \A o \in outbox : /\ Marked(o) \in [row : Rows, version : Versions, pushed : BOOLEAN]
                        /\ Marked(o).row = o.row /\ Marked(o).version = o.version
  OBVIOUS
<1>2. MarkPushed(entries) = (outbox \ entries) \cup {Marked(o) : o \in entries}
  BY DEF MarkPushed
<1> HIDE DEF Marked
<1>3. \A s : s \in Snapshots(MarkPushed(entries)) <=> s \in Committed
  <2>1. ASSUME NEW s \in Snapshots(MarkPushed(entries)) PROVE s \in Committed
    <3>1. PICK p \in MarkPushed(entries) : s = [row |-> p.row, version |-> p.version]
      BY <2>1, SnapshotsMember
    <3>2. \E o \in outbox : p.row = o.row /\ p.version = o.version
      BY <1>1, <1>2, <3>1
    <3> QED BY <3>1, <3>2, SnapshotsMember DEF Committed
  <2>2. ASSUME NEW s \in Committed PROVE s \in Snapshots(MarkPushed(entries))
    <3>1. PICK o \in outbox : s = [row |-> o.row, version |-> o.version]
      BY <2>2, SnapshotsMember DEF Committed
    <3>2. CASE o \in entries
      <4>1. Marked(o) \in MarkPushed(entries) BY <1>2, <3>2
      <4>2. s = [row |-> Marked(o).row, version |-> Marked(o).version] BY <1>1, <3>1
      <4> QED BY <4>1, <4>2, SnapshotsMember
    <3>3. CASE o \notin entries
      <4>1. o \in MarkPushed(entries) BY <1>2, <3>3
      <4> QED BY <3>1, <4>1, SnapshotsMember
    <3> QED BY <3>2, <3>3
  <2> QED BY <2>1, <2>2
<1>4. MarkPushed(entries) \subseteq [row : Rows, version : Versions, pushed : BOOLEAN]
  BY <1>1, <1>2
<1>5. Snapshots(MarkPushed(entries)) = Committed BY <1>3
<1> QED BY <1>4, <1>5

-----------------------------------------------------------------------------
(* Types.                                                                    *)

\* The rows, the pushes and the rental keep their types.
LEMMA NextType == ASSUME TypeOK, [Next]_vars PROVE TypeOK'
<1> USE BoundsAssumption DEF Versions, NoSave
<1>1. ASSUME NEW w \in Writers, NEW r \in Rows, Stamp(w, r) PROVE TypeOK'
  <2>1. lastVersion + 1 \in 1..MaxSaves BY <1>1 DEF Stamp, TypeOK
  <2>2. [row |-> r, version |-> lastVersion + 1] \in Snapshot BY <2>1 DEF Snapshot
  <2> QED BY <1>1, <2>1, <2>2 DEF Stamp, TypeOK, network
<1>2. ASSUME NEW w \in Writers, Commit(w) PROVE TypeOK'
  <2>1. tx[w] \in Snapshot BY <1>2 DEF Commit, TypeOK
  <2>2. tx[w].row \in Rows /\ tx[w].version \in 1..MaxSaves BY <2>1 DEF Snapshot
  <2>3. table' \in [Rows -> Versions \cup {NoSave, Unrecorded}]
    BY <1>2, <2>2 DEF Commit, TypeOK
  <2>4. outbox' \subseteq [row : Rows, version : Versions, pushed : BOOLEAN]
    <3> DEFINE o == [row |-> tx[w].row, version |-> tx[w].version, pushed |-> FALSE]
    <3>1. o \in [row : Rows, version : Versions, pushed : BOOLEAN] BY <2>2
    <3>2. outbox' = outbox \cup {o} BY <1>2 DEF Commit
    <3> HIDE DEF o
    <3> QED BY <3>1, <3>2 DEF TypeOK
  <2>5. tx' \in [Writers -> Snapshot \cup {Idle}] BY <1>2 DEF Commit, TypeOK
  <2> QED BY <1>2, <2>3, <2>4, <2>5 DEF Commit, TypeOK, network
<1>3. ASSUME NEW w \in Writers, Rollback(w) PROVE TypeOK'
  BY <1>3 DEF Rollback, TypeOK, network
<1>4. ASSUME NEW r \in Rows, Bypass(r) PROVE TypeOK'
  BY <1>4 DEF Bypass, TypeOK, network
<1>5. CASE HandlePush
  <2>1. NextBatch \in SUBSET outbox BY DEF NextBatch, Pending
  <2>2. Snapshots(NextBatch) \subseteq Snapshot BY <2>1, SnapshotsType DEF TypeOK
  <2>3. push' \in Push BY <1>5, <2>2 DEF HandlePush, Push
  <2> QED BY <1>5, <2>3 DEF HandlePush, TypeOK, box
<1>6. ASSUME NEW a \in answers, Answered(a) PROVE TypeOK'
  <2>1. Sent(push.rows) \in SUBSET outbox BY DEF Sent, Pending
  <2>2. outbox' \subseteq [row : Rows, version : Versions, pushed : BOOLEAN]
    BY <1>6, <2>1, MarkKeepsSnapshots DEF Answered, TypeOK
  <2> QED BY <1>6, <2>2 DEF Answered, TypeOK
<1>7. CASE LoseConnection BY <1>7 DEF LoseConnection, TypeOK, box
<1>8. CASE Restart BY <1>8 DEF Restart, TypeOK
<1>9. ASSUME NEW q \in requests, Admit(q) PROVE TypeOK'
  BY <1>9 DEF Admit, TypeOK, box
<1>10. ASSUME NEW q \in requests, Refuse(q) PROVE TypeOK'
  <2>1. q.id \in PushIds BY DEF TypeOK, Push
  <2>2. answers' \subseteq [id : PushIds, ok : BOOLEAN]
    <3> DEFINE a == [id |-> q.id, ok |-> FALSE]
    <3>1. a \in [id : PushIds, ok : BOOLEAN] BY <2>1
    <3>2. answers' \subseteq answers \cup {a} BY <1>10 DEF Refuse, Answer
    <3> HIDE DEF a
    <3> QED BY <3>1, <3>2 DEF TypeOK
  <2> QED BY <1>10, <2>2 DEF Refuse, TypeOK, box
<1>11. ASSUME NEW q \in admitted, Ingest(q) PROVE TypeOK'
  <2>1. q.id \in PushIds /\ q.rows \subseteq Snapshot BY DEF TypeOK, Push
  <2>2. answers' \subseteq [id : PushIds, ok : BOOLEAN]
    <3> DEFINE a == [id |-> q.id, ok |-> TRUE]
    <3>1. a \in [id : PushIds, ok : BOOLEAN] BY <2>1
    <3>2. answers' \subseteq answers \cup {a} BY <1>11 DEF Ingest, Answer
    <3> HIDE DEF a
    <3> QED BY <3>1, <3>2 DEF TypeOK
  <2> QED BY <1>11, <2>1, <2>2 DEF Ingest, TypeOK, box
<1>12. CASE ConfirmAssignment \/ DeclineAssignment \/ ActivateRental \/ ReturnRental
  BY <1>12 DEF ConfirmAssignment, DeclineAssignment, ActivateRental, ReturnRental, SetRental,
     TypeOK, box, network
<1>13. CASE UNCHANGED vars BY <1>13 DEF vars, box, network, TypeOK
<1> QED
  BY <1>1, <1>2, <1>3, <1>4, <1>5, <1>6, <1>7, <1>8, <1>9, <1>10, <1>11, <1>12, <1>13
  DEF Next, Box, Answers, Ingests

-----------------------------------------------------------------------------
(* The invariant.                                                            *)

\* Nothing is committed, sent or answered at the beginning.
LEMMA InitInvariant == Init => IInv
<1> SUFFICES ASSUME Init PROVE IInv OBVIOUS
<1>1. TypeOK BY BoundsAssumption DEF Init, TypeOK, Writers, Versions, NoSave, NoPush
<1>2. BatchesKnown /\ AnswersTrue /\ AdmittedLater /\ PushedIsReceived
  BY DEF Init, NoPush, BatchesKnown, Underway, AnswersTrue, AdmittedLater, PushedIsReceived
<1> QED BY <1>1, <1>2 DEF IInv

\* The box saves: the outbox grows by rows that are not pushed.
LEMMA BoxInvariant == ASSUME IInv, TypeOK', Box PROVE IInv'
<1>1. /\ UNCHANGED <<network, inbox, rental>>
      /\ outbox \subseteq outbox' /\ \A o \in outbox' \ outbox : o.pushed = FALSE
  BY DEF Box, Stamp, Commit, Rollback, Bypass
<1>2. Committed \subseteq Committed' BY <1>1, SnapshotsGrow DEF Committed
<1>3. BatchesKnown' BY <1>1, <1>2 DEF IInv, BatchesKnown, Underway, network
<1>4. AnswersTrue' /\ AdmittedLater' BY <1>1 DEF IInv, AnswersTrue, AdmittedLater, network
<1>5. PushedIsReceived' BY <1>1 DEF IInv, PushedIsReceived
<1> QED BY <1>3, <1>4, <1>5 DEF IInv

\* A tick reads a batch from the outbox and gives the push an id of its own.
LEMMA PushInvariant == ASSUME IInv, TypeOK', HandlePush PROVE IInv'
<1>1. PICK id \in PushIds : IsFree(id) /\ push' = [id |-> id, rows |-> Snapshots(NextBatch)]
  BY DEF HandlePush
<1>2. /\ UNCHANGED <<outbox, admitted, answers, inbox, rental>> /\ push.id = 0
      /\ requests' = requests \cup {push'}
  BY DEF HandlePush, box, NoPush
<1>3. answers = {}
  <2>1. \A a \in answers : a.id = 0 /\ a.id \in PushIds BY <1>2 DEF IInv, AnswersTrue, TypeOK
  <2> QED BY <2>1 DEF PushIds
<1>4. NextBatch \subseteq outbox BY DEF NextBatch, Pending
<1>5. Snapshots(NextBatch) \subseteq Committed BY <1>4, SnapshotsGrow DEF Committed
<1>6. Committed' = Committed BY <1>2 DEF Committed, Snapshots
<1>7. \A q \in Underway : q.id # id BY <1>1 DEF IsFree, Underway
<1>8. BatchesKnown'
  BY <1>1, <1>2, <1>5, <1>6, <1>7 DEF IInv, BatchesKnown, Underway
<1>9. AnswersTrue' /\ AdmittedLater' /\ PushedIsReceived'
  BY <1>2, <1>3 DEF IInv, AnswersTrue, AdmittedLater, PushedIsReceived
<1> QED BY <1>8, <1>9 DEF IInv

\* The loop stops waiting for its push, with or without its rows marked: a row is
\* marked when it is in the batch of a good answer, so it has arrived.
LEMMA DoneInvariant ==
  ASSUME IInv, TypeOK', Answers \/ LoseConnection \/ Restart
  PROVE  IInv' /\ Committed' = Committed
<1>1. /\ push' = NoPush /\ answers' = {} /\ UNCHANGED <<admitted, inbox, rental>>
      /\ requests' \subseteq requests
  BY DEF Answers, Answered, LoseConnection, Restart
<1>2. Committed' = Committed /\ PushedIsReceived'
  <2>1. CASE UNCHANGED outbox
    BY <2>1, <1>1 DEF IInv, PushedIsReceived, Committed, Snapshots
  <2>2. ASSUME NEW a \in answers, Answered(a), a.ok PROVE Committed' = Committed /\ PushedIsReceived'
    <3>1. push.rows \subseteq inbox BY <2>2 DEF IInv, AnswersTrue
    <3>2. outbox' = MarkPushed(Sent(push.rows)) BY <2>2 DEF Answered
    <3>3. Sent(push.rows) \in SUBSET outbox BY DEF Sent, Pending
    <3>4. Snapshots(outbox') = Committed
      BY <3>2, <3>3, MarkKeepsSnapshots DEF IInv, TypeOK
    <3>5. ASSUME NEW o \in Sent(push.rows)
          PROVE  LET m == [o EXCEPT !.pushed = TRUE] IN [row |-> m.row, version |-> m.version] \in inbox
      <4>1. o \in [row : Rows, version : Versions, pushed : BOOLEAN]
        BY <3>3, <3>5 DEF IInv, TypeOK
      <4>2. [row |-> o.row, version |-> o.version] \in inbox BY <3>1, <3>5 DEF Sent
      <4> QED BY <4>1, <4>2
    <3>6. PushedIsReceived'
      <4> SUFFICES ASSUME NEW o \in outbox', o.pushed
                   PROVE  [row |-> o.row, version |-> o.version] \in inbox
        BY <1>1 DEF PushedIsReceived
      <4>1. CASE o \in outbox BY <4>1 DEF IInv, PushedIsReceived
      <4>2. CASE o \notin outbox BY <4>2, <3>2, <3>5 DEF MarkPushed
      <4> QED BY <4>1, <4>2
    <3> QED BY <3>4, <3>6 DEF Committed
  <2>3. ASSUME NEW a \in answers, Answered(a), ~a.ok PROVE UNCHANGED outbox
    BY <2>3 DEF Answered
  <2>4. CASE LoseConnection \/ Restart BY <2>1, <2>4 DEF LoseConnection, Restart, box
  <2> QED BY <2>1, <2>2, <2>3, <2>4 DEF Answers
<1>3. BatchesKnown'
  <2>1. \A q \in Underway' : q \in Underway /\ q.id \in PushIds
    BY <1>1 DEF Underway, IInv, TypeOK, Push
  <2> QED BY <1>1, <1>2, <2>1 DEF IInv, BatchesKnown, NoPush, PushIds
<1>4. AnswersTrue' /\ AdmittedLater' BY <1>1 DEF IInv, AnswersTrue, AdmittedLater
<1> QED BY <1>2, <1>3, <1>4 DEF IInv

\* The central installation refuses a push, lets it through or stores its rows
\* before it answers.
LEMMA IngestInvariant == ASSUME IInv, TypeOK', Ingests PROVE IInv'
<1>1. /\ UNCHANGED <<outbox, push, rental>> /\ inbox \subseteq inbox'
      /\ Underway' \subseteq Underway
  BY DEF Ingests, Admit, Refuse, Ingest, Underway, box
<1>2. Committed' = Committed BY <1>1 DEF Committed, Snapshots
<1>3. BatchesKnown' BY <1>1, <1>2 DEF IInv, BatchesKnown
<1>4. PushedIsReceived' BY <1>1 DEF IInv, PushedIsReceived
<1>5. AdmittedLater'
  BY <1>1 DEF IInv, AdmittedLater, Ingests, Admit, Refuse, Ingest, CanActivate
<1>6. ASSUME NEW a \in answers' PROVE a.id = push.id /\ (a.ok => push.rows \subseteq inbox')
  <2>1. CASE a \in answers BY <1>1, <2>1 DEF IInv, AnswersTrue
  <2>2. ASSUME NEW q \in admitted, Ingest(q), a \notin answers
        PROVE  a.id = push.id /\ push.rows \subseteq inbox'
    <3>1. q.id = push.id /\ a = [id |-> q.id, ok |-> TRUE] BY <1>6, <2>2 DEF Ingest, Answer
    <3>2. q.rows = push.rows BY <3>1 DEF IInv, BatchesKnown, Underway
    <3> QED BY <2>2, <3>1, <3>2 DEF Ingest
  <2>3. ASSUME NEW q \in requests, Admit(q) \/ Refuse(q), a \notin answers
        PROVE  a.id = push.id /\ a.ok = FALSE
    BY <1>6, <2>3 DEF Admit, Refuse, Answer
  <2> QED BY <1>6, <2>1, <2>2, <2>3 DEF Ingests
<1>7. AnswersTrue' BY <1>1, <1>6 DEF AnswersTrue
<1> QED BY <1>3, <1>4, <1>5, <1>7 DEF IInv

Rented == ConfirmAssignment \/ DeclineAssignment \/ ActivateRental \/ ReturnRental

\* A rental never goes back to where nothing may be pushed.
LEMMA RentalInvariant == ASSUME IInv, TypeOK', Rented \/ UNCHANGED vars PROVE IInv'
<1>1. /\ UNCHANGED <<outbox, push, requests, admitted, answers, inbox>>
      /\ rental' \in {"pending", "confirmed"} => rental \in {"pending", "confirmed"}
  BY DEF Rented, ConfirmAssignment, DeclineAssignment, ActivateRental, ReturnRental, SetRental,
     vars, box, network
<1>2. Committed' = Committed BY <1>1 DEF Committed, Snapshots
<1>3. BatchesKnown' BY <1>1, <1>2 DEF IInv, BatchesKnown, Underway
<1>4. AnswersTrue' /\ AdmittedLater' /\ PushedIsReceived'
  BY <1>1 DEF IInv, AnswersTrue, AdmittedLater, PushedIsReceived
<1> QED BY <1>3, <1>4 DEF IInv

\* Every step keeps the invariant.
LEMMA NextInvariant == ASSUME IInv, [Next]_vars PROVE IInv'
<1>1. TypeOK' BY NextType DEF IInv
<1> QED
  BY <1>1, BoxInvariant, PushInvariant, DoneInvariant, IngestInvariant, RentalInvariant
  DEF Next, Rented

\* The invariant holds in every reachable state.
LEMMA Invariant == Spec => []IInv
BY InitInvariant, NextInvariant, PTL DEF Spec

\* Only what the central installation has is marked as pushed (pushedAt), whatever
\* is committed, lost or restarted meanwhile.
THEOREM PushesReceived == Spec => []PushedIsReceived
<1>1. IInv => PushedIsReceived BY DEF IInv
<1> QED BY <1>1, Invariant, PTL

-----------------------------------------------------------------------------
(* The refinement.                                                           *)

Phase ==
  CASE rental \in {"pending", "confirmed"} -> "before"
    [] rental = "active" -> "active"
    [] OTHER -> "over"

\* The initial states are those of the promise.
LEMMA InitMaps == Init => Promise!Init
BY DEF Init, Promise!Init, Snapshots

\* Every step is a step of the promise, or changes nothing it speaks of.
LEMMA NextMaps ==
  ASSUME IInv, IInv', [Next]_vars
  PROVE  [Promise!Next]_(<<Committed, inbox, Phase>>)
<1> DEFINE Stutter == UNCHANGED <<Committed, inbox, Phase>>
<1>1. ASSUME NEW w \in Writers, Commit(w) PROVE Promise!Commit \/ Stutter
  <2> DEFINE s == [row |-> tx[w].row, version |-> tx[w].version]
  <2>1. tx[w] \in Snapshot BY <1>1 DEF Commit, IInv, TypeOK
  <2>2. s \in Snapshot BY <2>1 DEF Snapshot
  <2>3. Committed' = Committed \cup {s}
    <3> DEFINE o == [row |-> tx[w].row, version |-> tx[w].version, pushed |-> FALSE]
    <3>1. outbox' = outbox \cup {o} BY <1>1 DEF Commit
    <3>2. \A row, version :
            Snapshots(outbox \cup {[row |-> row, version |-> version, pushed |-> FALSE]})
              = Snapshots(outbox) \cup {[row |-> row, version |-> version]}
      BY SnapshotsAdd
    <3>3. Snapshots(outbox \cup {o}) = Snapshots(outbox) \cup {s} BY <3>2, Zenon
    <3> HIDE DEF o, s
    <3> QED BY <3>1, <3>3 DEF Committed
  <2>4. UNCHANGED <<inbox, Phase>> BY <1>1 DEF Commit, Phase
  <2>5. CASE s \in Committed BY <2>3, <2>4, <2>5
  <2>6. CASE s \notin Committed
    BY <2>2, <2>3, <2>4, <2>6 DEF Promise!Commit, Committed, Phase
  <2> QED BY <2>5, <2>6
<1>2. ASSUME NEW q \in admitted, Ingest(q) PROVE Promise!Receive
  <2>1. q.rows \subseteq Committed /\ rental \notin {"pending", "confirmed"}
    BY DEF IInv, BatchesKnown, Underway, AdmittedLater
  <2>2. q.rows \ inbox \in SUBSET (Committed \ inbox) BY <2>1
  <2>3. inbox' = inbox \cup (q.rows \ inbox) BY <1>2 DEF Ingest
  <2>4. UNCHANGED <<Committed, Phase>> BY <1>2 DEF Ingest, box, Committed, Snapshots, Phase
  <2>5. Phase # "before" BY <2>1 DEF Phase
  <2> QED BY <2>2, <2>3, <2>4, <2>5 DEF Promise!Receive, Committed, Phase
<1>3. ASSUME Rented PROVE Promise!Begin \/ Promise!End \/ Stutter
  <2>1. UNCHANGED <<Committed, inbox>>
    BY <1>3 DEF Rented, ConfirmAssignment, DeclineAssignment, ActivateRental, ReturnRental,
       SetRental, box, Committed, Snapshots
  <2>2. \/ UNCHANGED Phase
        \/ Phase = "before" /\ Phase' = "active"
        \/ Phase # "over" /\ Phase' = "over"
    BY <1>3 DEF Rented, ConfirmAssignment, DeclineAssignment, ActivateRental, ReturnRental,
       SetRental, Phase
  <2> QED BY <2>1, <2>2 DEF Promise!Begin, Promise!End, Committed, Phase
<1>4. ASSUME Answers \/ LoseConnection \/ Restart PROVE Stutter
  <2>1. Committed' = Committed BY <1>4, DoneInvariant DEF IInv
  <2>2. UNCHANGED <<inbox, rental>> BY <1>4 DEF Answers, Answered, LoseConnection, Restart
  <2> QED BY <2>1, <2>2 DEF Phase
<1>5. ASSUME NEW w \in Writers, NEW r \in Rows, Stamp(w, r)
      PROVE  Stutter
  BY <1>5 DEF Stamp, Committed, Snapshots, Phase
<1>6. ASSUME NEW q \in requests, Admit(q) \/ Refuse(q) PROVE Stutter
  BY <1>6 DEF Admit, Refuse, box, Committed, Snapshots, Phase
<1>7. ASSUME HandlePush \/ UNCHANGED vars PROVE Stutter
  BY <1>7 DEF HandlePush, vars, box, Committed, Snapshots, Phase
<1>8. ASSUME NEW w \in Writers, Rollback(w) PROVE Stutter
  BY <1>8 DEF Rollback, Committed, Snapshots, Phase
<1>9. ASSUME NEW r \in Rows, Bypass(r) PROVE Stutter
  BY <1>9 DEF Bypass, Committed, Snapshots, Phase
<1>10. Promise!Commit \/ Promise!Receive \/ Promise!Begin \/ Promise!End \/ Stutter
  <2> HIDE DEF Stutter
  <2>1. CASE Box BY <2>1, <1>1, <1>5, <1>8, <1>9 DEF Box
  <2>2. CASE Ingests BY <2>2, <1>2, <1>6 DEF Ingests
  <2>3. CASE HandlePush \/ UNCHANGED vars BY <2>3, <1>7
  <2>4. CASE Answers \/ LoseConnection \/ Restart BY <2>4, <1>4
  <2>5. CASE Rented BY <2>5, <1>3
  <2> QED BY <2>1, <2>2, <2>3, <2>4, <2>5 DEF Next, Rented
<1> QED BY <1>10 DEF Promise!Next

\* The outbox, the push loop, the guard and the ingest together implement what
\* docs/design/offline-box-sync.md promises: the central installation receives the
\* committed changes and no others, none before the rental is active, and never
\* loses one.
THEOREM SafelySynced == Spec => Promise!Safe
<1>1. IInv /\ IInv' /\ [Next]_vars => [Promise!Next]_(<<Committed, inbox, Phase>>)
  BY NextMaps
<1> QED BY <1>1, InitMaps, Invariant, PTL DEF Spec, Promise!Safe, Committed, Phase

-----------------------------------------------------------------------------
(* The newest copy of a row.                                                 *)

\* Numbers are given out once, and every one in use was given out.
NumbersTaken ==
  /\ \A s \in Committed : s.version <= lastVersion
  /\ \A w \in Writers : tx[w].version <= lastVersion

\* A row that no two transactions saved at once has one transaction at most, which
\* has a newer number than every copy; the row is what its newest copy says.
SavedInOrder ==
  \A r \in Rows \ raced :
    /\ \A v, w \in Saving(r) : v = w
    /\ \A w \in Saving(r), s \in Committed : s.row = r => s.version < tx[w].version
    /\ table[r] = NoSave => \A s \in Committed : s.row # r
    /\ table[r] \in Versions =>
         /\ \E s \in Committed : s.row = r /\ s.version = table[r]
         /\ \A s \in Committed : s.row = r => s.version <= table[r]

OrderInv == NumbersTaken /\ SavedInOrder

\* Every transaction in progress has a row and a number.
LEMMA SavingType ==
  ASSUME TypeOK, NEW w \in Writers, tx[w] # Idle
  PROVE  tx[w].row \in Rows /\ tx[w].version \in 1..MaxSaves
BY DEF TypeOK, Snapshot, Versions

\* The beforeInsert and beforeUpdate of a save take a number above all others.
LEMMA StampInOrder ==
  ASSUME TypeOK, OrderInv, NEW v \in Writers, NEW q \in Rows, Stamp(v, q)
  PROVE  OrderInv'
<1> USE BoundsAssumption
<1>1. /\ lastVersion \in Nat /\ lastVersion' = lastVersion + 1
      /\ tx' = [tx EXCEPT ![v] = [row |-> q, version |-> lastVersion + 1]]
      /\ UNCHANGED <<table, outbox>>
  BY DEF Stamp, TypeOK, Versions, NoSave
<1>2. Committed' = Committed BY <1>1 DEF Committed, Snapshots
<1>3. \A s \in Committed : s.version \in Nat
  BY SnapshotsType DEF TypeOK, Committed, Snapshot, Versions
<1>4. \A w \in Writers : tx[w].version \in Nat
  BY DEF TypeOK, Snapshot, Versions, Idle, NoSave
<1>5. \A w \in Writers : tx'[w] = IF w = v THEN [row |-> q, version |-> lastVersion + 1] ELSE tx[w]
  BY <1>1 DEF TypeOK
<1>6. NumbersTaken' BY <1>1, <1>2, <1>3, <1>4, <1>5 DEF OrderInv, NumbersTaken
<1>7. \A r \in Rows : Saving(r)' = IF r = q THEN Saving(r) \cup {v} ELSE Saving(r)
  <2>1. [row |-> q, version |-> lastVersion + 1] # Idle
    BY <1>1 DEF Idle, NoSave
  <2> QED BY <1>5, <2>1 DEF Saving, Stamp
<1>8. q \notin raced' => Saving(q) = {} BY DEF Stamp
<1>9. SavedInOrder'
  <2> SUFFICES ASSUME NEW r \in Rows \ raced'
               PROVE  /\ \A u, w \in Saving(r)' : u = w
                      /\ \A w \in Saving(r)', s \in Committed : s.row = r => s.version < tx'[w].version
    BY <1>1, <1>2 DEF SavedInOrder, OrderInv, Stamp
  <2>1. r \in Rows \ raced BY DEF Stamp
  <2>2. CASE r = q
    <3>1. Saving(r)' = {v} BY <1>7, <1>8, <2>2
    <3> QED BY <1>1, <1>3, <1>5, <3>1 DEF OrderInv, NumbersTaken
  <2>3. CASE r # q
    <3>1. Saving(r)' = Saving(r) /\ v \notin Saving(r) BY <1>7, <2>3 DEF Saving, Stamp
    <3>2. \A w \in Saving(r) : tx'[w] = tx[w] BY <1>5, <3>1 DEF Saving
    <3> QED BY <2>1, <3>1, <3>2 DEF OrderInv, SavedInOrder
  <2> QED BY <2>2, <2>3
<1> QED BY <1>6, <1>9 DEF OrderInv

\* A commit makes the row what its newest copy says.
LEMMA CommitInOrder ==
  ASSUME TypeOK, OrderInv, NEW v \in Writers, Commit(v)
  PROVE  OrderInv'
<1> USE BoundsAssumption
<1> DEFINE q == tx[v].row
           s0 == [row |-> q, version |-> tx[v].version]
<1>1. tx[v] # Idle /\ q \in Rows /\ tx[v].version \in 1..MaxSaves BY SavingType DEF Commit
<1>2. Committed' = Committed \cup {s0}
  <2> DEFINE o == [row |-> tx[v].row, version |-> tx[v].version, pushed |-> FALSE]
  <2>1. outbox' = outbox \cup {o} BY DEF Commit
  <2>2. \A row, version :
          Snapshots(outbox \cup {[row |-> row, version |-> version, pushed |-> FALSE]})
            = Snapshots(outbox) \cup {[row |-> row, version |-> version]}
    BY SnapshotsAdd
  <2>3. Snapshots(outbox \cup {o}) = Snapshots(outbox) \cup {s0} BY <2>2, Zenon
  <2> HIDE DEF o, s0
  <2> QED BY <2>1, <2>3 DEF Committed
<1>3. s0.row = q /\ s0.version = tx[v].version OBVIOUS
<1>4. /\ \A r \in Rows : table'[r] = IF r = q THEN tx[v].version ELSE table[r]
      /\ \A w \in Writers : tx'[w] = IF w = v THEN Idle ELSE tx[w]
      /\ UNCHANGED <<lastVersion, raced>>
  BY <1>1 DEF Commit, TypeOK
<1>5. \A s \in Committed : s.version \in Nat
  BY SnapshotsType DEF TypeOK, Committed, Snapshot, Versions
<1>6. lastVersion \in Nat BY DEF TypeOK, Versions, NoSave
<1> HIDE DEF q, s0
<1>7. NumbersTaken'
  BY <1>2, <1>3, <1>4, <1>6 DEF OrderInv, NumbersTaken, Idle, NoSave
<1>8. \A r \in Rows : Saving(r)' = Saving(r) \ {v} BY <1>4 DEF Saving
<1>9. v \in Saving(q) BY <1>1 DEF Saving, q
<1>10. SavedInOrder'
  <2> SUFFICES ASSUME NEW r \in Rows \ raced
               PROVE  /\ \A u, w \in Saving(r)' : u = w
                      /\ \A w \in Saving(r)', s \in Committed' : s.row = r => s.version < tx'[w].version
                      /\ table'[r] = NoSave => \A s \in Committed' : s.row # r
                      /\ table'[r] \in Versions =>
                           /\ \E s \in Committed' : s.row = r /\ s.version = table'[r]
                           /\ \A s \in Committed' : s.row = r => s.version <= table'[r]
    BY <1>4 DEF SavedInOrder
  <2>1. /\ \A u, w \in Saving(r) : u = w
        /\ \A w \in Saving(r), s \in Committed : s.row = r => s.version < tx[w].version
        /\ table[r] = NoSave => \A s \in Committed : s.row # r
        /\ table[r] \in Versions =>
             /\ \E s \in Committed : s.row = r /\ s.version = table[r]
             /\ \A s \in Committed : s.row = r => s.version <= table[r]
    BY DEF OrderInv, SavedInOrder
  <2>2. CASE r = q
    <3>1. Saving(r)' = {} BY <1>8, <1>9, <2>1, <2>2
    <3>2. table'[r] = tx[v].version BY <1>4, <2>2
    <3>3. \A s \in Committed : s.row = r => s.version < tx[v].version BY <1>9, <2>1, <2>2
    <3> QED BY <1>1, <1>2, <1>3, <1>5, <2>2, <3>1, <3>2, <3>3 DEF NoSave
  <2>3. CASE r # q
    <3>1. \A w \in Saving(r)' : w \in Saving(r) /\ tx'[w] = tx[w] BY <1>4, <1>8 DEF Saving
    <3>2. \A s \in Committed' : s.row = r => s \in Committed BY <1>2, <1>3, <2>3
    <3>3. table'[r] = table[r] /\ Committed \subseteq Committed' BY <1>2, <1>4, <2>3
    <3> QED BY <2>1, <3>1, <3>2, <3>3
  <2> QED BY <2>2, <2>3
<1> QED BY <1>7, <1>10 DEF OrderInv

\* A step that commits nothing and starts no transaction, but may end some, or
\* write a row past the subscriber, keeps the order.
LEMMA OtherwiseInOrder ==
  ASSUME TypeOK, OrderInv, Committed' = Committed, UNCHANGED <<lastVersion, raced>>,
         \A w \in Writers : tx'[w] \in {tx[w], Idle},
         \A r \in Rows : table'[r] \in {table[r], Unrecorded}
  PROVE  OrderInv'
<1> USE BoundsAssumption
<1>1. \A r \in Rows : \A w \in Saving(r)' : w \in Saving(r) /\ tx'[w] = tx[w] BY DEF Saving
<1>2. lastVersion \in Nat BY DEF TypeOK, Versions, NoSave
<1>3. NumbersTaken' BY <1>2 DEF OrderInv, NumbersTaken, Idle, NoSave
<1>4. Unrecorded \notin Versions /\ Unrecorded # NoSave BY DEF Unrecorded, Versions, NoSave
<1>5. SavedInOrder'
  <2> SUFFICES ASSUME NEW r \in Rows \ raced
               PROVE  /\ \A u, w \in Saving(r)' : u = w
                      /\ \A w \in Saving(r)', s \in Committed : s.row = r => s.version < tx'[w].version
                      /\ table'[r] = NoSave => \A s \in Committed : s.row # r
                      /\ table'[r] \in Versions =>
                           /\ \E s \in Committed : s.row = r /\ s.version = table'[r]
                           /\ \A s \in Committed : s.row = r => s.version <= table'[r]
    BY DEF SavedInOrder
  <2>1. table'[r] \in {NoSave} \cup Versions => table'[r] = table[r] BY <1>4
  <2> QED BY <1>1, <2>1 DEF OrderInv, SavedInOrder
<1> QED BY <1>3, <1>5 DEF OrderInv

\* Every step keeps the order.
LEMMA NextInOrder == ASSUME IInv, IInv', OrderInv, [Next]_vars PROVE OrderInv'
<1>0. TypeOK BY DEF IInv
<1>1. ASSUME NEW w \in Writers, NEW r \in Rows, Stamp(w, r) PROVE OrderInv'
  BY <1>0, <1>1, StampInOrder
<1>2. ASSUME NEW w \in Writers, Commit(w) PROVE OrderInv'
  BY <1>0, <1>2, CommitInOrder
<1>3. ASSUME NEW w \in Writers, Rollback(w) PROVE OrderInv'
  <2>1. Committed' = Committed BY <1>3 DEF Rollback, Committed, Snapshots
  <2> QED BY <1>0, <1>3, <2>1, OtherwiseInOrder DEF Rollback, TypeOK
<1>4. ASSUME NEW r \in Rows, Bypass(r) PROVE OrderInv'
  <2>1. Committed' = Committed BY <1>4 DEF Bypass, Committed, Snapshots
  <2> QED BY <1>0, <1>4, <2>1, OtherwiseInOrder DEF Bypass, TypeOK
<1>5. CASE Answers \/ LoseConnection \/ Restart
  <2>1. Committed' = Committed BY <1>5, DoneInvariant DEF IInv
  <2>2. UNCHANGED <<table, lastVersion, raced>>
    BY <1>5 DEF Answers, Answered, LoseConnection, Restart, box
  <2>3. \A w \in Writers : tx'[w] \in {tx[w], Idle}
    BY <1>5 DEF Answers, Answered, LoseConnection, Restart, box
  <2> QED BY <1>0, <2>1, <2>2, <2>3, OtherwiseInOrder
<1>6. CASE HandlePush \/ Ingests \/ Rented \/ UNCHANGED vars
  <2>1. UNCHANGED box
    BY <1>6 DEF HandlePush, Ingests, Admit, Refuse, Ingest, Rented, ConfirmAssignment,
       DeclineAssignment, ActivateRental, ReturnRental, SetRental, vars
  <2>2. Committed' = Committed BY <2>1 DEF box, Committed, Snapshots
  <2> QED BY <1>0, <2>1, <2>2, OtherwiseInOrder DEF box
<1> QED BY <1>1, <1>2, <1>3, <1>4, <1>5, <1>6 DEF Next, Box, Rented

\* No copy is there at the beginning.
LEMMA InitInOrder == Init => OrderInv
BY DEF Init, OrderInv, NumbersTaken, SavedInOrder, Committed, Snapshots, Saving, Idle, NoSave,
   Versions, Writers

\* The order is kept in every reachable state.
LEMMA AlwaysInOrder == Spec => []OrderInv
BY Invariant, InitInOrder, NextInOrder, PTL DEF Spec

\* The newest copy of a row in the outbox is the row as it is, unless two
\* transactions saved it at once or something wrote it past the subscriber
\* (SyncOutboxSubscriber), whatever is pushed, lost or rolled back meanwhile.
THEOREM NewestCopyIsCurrent == Spec => []NewestIsCurrent
<1>1. ASSUME TypeOK, OrderInv PROVE NewestIsCurrent
  <2> SUFFICES ASSUME NEW r \in Rows \ raced, table[r] # Unrecorded, NEW o \in Newest(r)
               PROVE  o.version = table[r]
    BY DEF NewestIsCurrent
  <2> DEFINE s == [row |-> o.row, version |-> o.version]
  <2>1. o \in outbox /\ o.row = r /\ \A p \in outbox : p.row = r => p.version <= o.version
    BY DEF Newest
  <2>2. s \in Committed /\ s.row = r /\ s.version = o.version
    BY <2>1, SnapshotsMember DEF Committed
  <2>3. table[r] \in Versions BY <1>1, <2>2 DEF TypeOK, OrderInv, SavedInOrder
  <2> HIDE DEF s
  <2>4. o.version <= table[r] BY <1>1, <2>2, <2>3 DEF OrderInv, SavedInOrder
  <2>5. PICK z \in Committed : z.row = r /\ z.version = table[r]
    BY <1>1, <2>3 DEF OrderInv, SavedInOrder
  <2>6. PICK p \in outbox : z = [row |-> p.row, version |-> p.version]
    BY <2>5, SnapshotsMember DEF Committed
  <2>7. table[r] <= o.version BY <2>1, <2>5, <2>6
  <2>8. o.version \in Nat /\ table[r] \in Nat BY <1>1, <2>1, <2>3 DEF TypeOK, Versions
  <2> QED BY <2>4, <2>7, <2>8
<1>2. IInv => TypeOK BY DEF IInv
<1> QED BY <1>1, <1>2, Invariant, AlwaysInOrder, PTL

-----------------------------------------------------------------------------
(* The helper shifts.                                                        *)

(* What a row must say to be stored: when it waits for the administrator or is
   confirmed, the mail address was proved, an administrator entered it, or its
   helper accepted a proposal.                                               *)
Proven(row) ==
  row.status \in {"pending_approval", "confirmed"} =>
    row.verified \/ row.source \in {"admin", "proposal"}

HelperRow == [shift : Shifts, group : Nat, email : Emails \cup {None}, status : Statuses,
              verified : BOOLEAN, reminders : Nat, reminded : BOOLEAN, source : Sources]
ProvenRow == {row \in HelperRow : Proven(row)}

Change == {c \in [op : {"add", "remove"}, shift : Shifts \cup {None}, row : Nat \cup {None}] :
             c.op = "add" => c.shift \in Shifts}
Offer == [group : Nat, ops : Seq(Change), status : {"pending", "accepted", "declined", "deleted"}]

\* The statements a handler may have before it, each with what it must carry.
Statements ==
  [do : {"savePlan"}, plan : PlanRow, jobs : SUBSET Jobs]
    \cup [do : {"saveJob", "cascade"}, job : Jobs, required : Needs]
    \cup [do : {"saveShift"}, shift : Shifts, as : ShiftRow]
    \cup [do : {"removePlan", "skip"}] \cup [do : {"removeJob"}, job : Jobs]
    \cup [do : {"removeShift"}, shift : Shifts]
    \cup [do : {"saveRow"}, row : Nat, as : ProvenRow] \cup [do : {"insert"}, as : ProvenRow]
    \cup [do : {"deleteRows"}, rows : SUBSET (Nat \cup {None})]
    \cup [do : {"deleteGroup", "approveGroup", "bump"}, group : Nat]
    \cup [do : {"verify"}, group : Nat, status : {"pending_approval", "confirmed"}]
    \cup [do : {"mail"}, row : Nat \cup {None}] \cup [do : {"link"}, email : Emails]
    \cup [do : {"propose"}, as : Offer]
    \cup [do : {"answer"}, proposal : Nat, status : {"accepted", "declined"}]
    \cup [do : {"reminderQuery"}, column : {QueriedColumn}]

PlanKept ==
  /\ plan \in PlanRow \cup {None}
  /\ jobs \in [Jobs -> Needs \cup {None}]
  /\ shifts \in [Shifts -> ShiftRow \cup {None}]

RowsProven ==
  /\ IsFiniteSet(DOMAIN regs) /\ DOMAIN regs \subseteq Nat
  /\ \A r \in DOMAIN regs : regs[r] \in ProvenRow

TasksProven == task \in [Actors -> Seq(Statements)]

CountsKept == made \in [rows : Nat, requests : Nat, names : SUBSET (Jobs \cup Shifts \cup {PlanName})]

PlanningInv ==
  /\ PlanKept /\ RowsProven /\ TasksProven /\ CountsKept
  /\ proposals \in Seq(Offer)
  /\ NothingDangles
-----------------------------------------------------------------------------
(* Sequences of statements.                                                  *)

\* A finite set can be put in an order.
LEMMA OrderOfSet ==
  ASSUME NEW S, IsFiniteSet(S)
  PROVE  SetToSeq(S) \in Seq(S)
<1>1. Cardinality(S) \in Nat /\ ExistsBijection(1..Cardinality(S), S)
  BY FS_CardinalityType
<1>2. PICK f : f \in Bijection(1..Cardinality(S), S) BY <1>1 DEF ExistsBijection
<1>3. f \in [1..Cardinality(S) -> S] /\ IsInjective(f)
  BY <1>2 DEF Bijection, Injection
<1>4. SetToSeq(S) \in [1..Cardinality(S) -> S] BY <1>3 DEF SetToSeq
<1> QED BY <1>1, <1>4, SeqDef

\* What is said of every element of an order makes a sequence.
LEMMA SeqOfSame ==
  ASSUME NEW S, NEW T, NEW order \in Seq(T), NEW todo, DOMAIN todo = DOMAIN order,
         todo = [i \in DOMAIN todo |-> todo[i]],
         \A i \in DOMAIN order : todo[i] \in S
  PROVE  todo \in Seq(S)
<1>1. Len(order) \in Nat /\ DOMAIN order = 1..Len(order) BY LenProperties
<1>2. todo \in [1..Len(order) -> S] BY <1>1
<1> QED BY <1>1, <1>2, SeqDef

\* One statement makes a sequence.
LEMMA SeqOfOne == ASSUME NEW S, NEW a \in S PROVE <<a>> \in Seq(S) OBVIOUS

\* Two statements make a sequence.
LEMMA SeqOfTwo == ASSUME NEW S, NEW a \in S, NEW b \in S PROVE <<a, b>> \in Seq(S) OBVIOUS

\* So does none: a handler that has ended.
LEMMA SeqOfNone == ASSUME NEW S PROVE <<>> \in Seq(S) OBVIOUS

\* The statements the handlers speak of.
LEMMA Sayings ==
  /\ \A p \in PlanRow : SavePlan(p) \in Statements
  /\ \A j \in Jobs, n \in Needs :
       /\ SaveJob(j, n) \in Statements
       /\ [do |-> "cascade", job |-> j, required |-> n] \in Statements
  /\ \A s \in Shifts, row \in ShiftRow : SaveShift(s, row) \in Statements
  /\ \A r \in Nat, row \in ProvenRow : SaveRow(r, row) \in Statements
  /\ \A row \in ProvenRow : Insert(row) \in Statements
  /\ \A rows \in SUBSET (Nat \cup {None}) : DeleteRows(rows) \in Statements
  /\ \A r \in Nat \cup {None} : MailToken(r) \in Statements
<1>1. \A p \in PlanRow : SavePlan(p) \in [do : {"savePlan"}, plan : PlanRow, jobs : SUBSET Jobs]
  BY DEF SavePlan
<1>2. \A j \in Jobs, n \in Needs :
        /\ SaveJob(j, n) \in [do : {"saveJob", "cascade"}, job : Jobs, required : Needs]
        /\ [do |-> "cascade", job |-> j, required |-> n]
             \in [do : {"saveJob", "cascade"}, job : Jobs, required : Needs]
  BY DEF SaveJob
<1>3. \A s \in Shifts, row \in ShiftRow :
        SaveShift(s, row) \in [do : {"saveShift"}, shift : Shifts, as : ShiftRow]
  BY DEF SaveShift
<1>4. \A r \in Nat, row \in ProvenRow :
        SaveRow(r, row) \in [do : {"saveRow"}, row : Nat, as : ProvenRow]
  BY DEF SaveRow
<1>5. \A row \in ProvenRow : Insert(row) \in [do : {"insert"}, as : ProvenRow] BY DEF Insert
<1>6. \A rows \in SUBSET (Nat \cup {None}) :
        DeleteRows(rows) \in [do : {"deleteRows"}, rows : SUBSET (Nat \cup {None})]
  BY DEF DeleteRows
<1>7. \A r \in Nat \cup {None} : MailToken(r) \in [do : {"mail"}, row : Nat \cup {None}]
  BY DEF MailToken
<1> QED BY ONLY <1>1, <1>2, <1>3, <1>4, <1>5, <1>6, <1>7, Zenon DEF Statements

\* The other kinds are spoken of in one place each.
LEMMA OtherSayings ==
  /\ [do |-> "removePlan"] \in Statements /\ Skip \in Statements
  /\ \A j \in Jobs : [do |-> "removeJob", job |-> j] \in Statements
  /\ \A s \in Shifts : [do |-> "removeShift", shift |-> s] \in Statements
  /\ \A g \in Nat :
       /\ [do |-> "approveGroup", group |-> g] \in Statements
       /\ [do |-> "deleteGroup", group |-> g] \in Statements
       /\ [do |-> "bump", group |-> g] \in Statements
       /\ \A s \in {"pending_approval", "confirmed"} :
            [do |-> "verify", group |-> g, status |-> s] \in Statements
  /\ \A offer \in Offer : [do |-> "propose", as |-> offer] \in Statements
  /\ \A email \in Emails : [do |-> "link", email |-> email] \in Statements
  /\ \A p \in Nat, s \in {"accepted", "declined"} :
       [do |-> "answer", proposal |-> p, status |-> s] \in Statements
  /\ [do |-> "reminderQuery", column |-> QueriedColumn] \in Statements
<1>1. /\ [do |-> "removePlan"] \in [do : {"removePlan", "skip"}]
      /\ Skip \in [do : {"removePlan", "skip"}]
  BY DEF Skip
<1>2. \A j \in Jobs : [do |-> "removeJob", job |-> j] \in [do : {"removeJob"}, job : Jobs] OBVIOUS
<1>3. \A s \in Shifts : [do |-> "removeShift", shift |-> s] \in [do : {"removeShift"}, shift : Shifts]
  OBVIOUS
<1>4. \A g \in Nat :
       /\ [do |-> "approveGroup", group |-> g] \in [do : {"deleteGroup", "approveGroup", "bump"}, group : Nat]
       /\ [do |-> "deleteGroup", group |-> g] \in [do : {"deleteGroup", "approveGroup", "bump"}, group : Nat]
       /\ [do |-> "bump", group |-> g] \in [do : {"deleteGroup", "approveGroup", "bump"}, group : Nat]
  OBVIOUS
<1>5. \A g \in Nat, s \in {"pending_approval", "confirmed"} :
        [do |-> "verify", group |-> g, status |-> s]
          \in [do : {"verify"}, group : Nat, status : {"pending_approval", "confirmed"}]
  OBVIOUS
<1>6. \A offer \in Offer : [do |-> "propose", as |-> offer] \in [do : {"propose"}, as : Offer]
  OBVIOUS
<1>7. \A email \in Emails : [do |-> "link", email |-> email] \in [do : {"link"}, email : Emails]
  OBVIOUS
<1>8. \A p \in Nat, s \in {"accepted", "declined"} :
        [do |-> "answer", proposal |-> p, status |-> s]
          \in [do : {"answer"}, proposal : Nat, status : {"accepted", "declined"}]
  OBVIOUS
<1>9. [do |-> "reminderQuery", column |-> QueriedColumn] \in [do : {"reminderQuery"}, column : {QueriedColumn}]
  OBVIOUS
<1> QED BY ONLY <1>1, <1>2, <1>3, <1>4, <1>5, <1>6, <1>7, <1>8, <1>9, Zenon DEF Statements

\* What a statement of each kind carries.
LEMMA Carried ==
  ASSUME NEW s \in Statements
  PROVE  /\ s.do = "savePlan" => s.plan \in PlanRow
         /\ s.do \in {"saveJob", "cascade"} => s.job \in Jobs /\ s.required \in Needs
         /\ s.do = "saveShift" => s.shift \in Shifts /\ s.as \in ShiftRow
         /\ s.do = "removeJob" => s.job \in Jobs
         /\ s.do = "removeShift" => s.shift \in Shifts
         /\ s.do = "saveRow" => s.row \in Nat /\ s.as \in ProvenRow
         /\ s.do = "insert" => s.as \in ProvenRow
         /\ s.do = "verify" => s.status \in {"pending_approval", "confirmed"}
         /\ s.do = "propose" => s.as \in Offer
         /\ s.do = "answer" => s.status \in {"accepted", "declined"}
<1>1. s.do = "savePlan" => s.plan \in PlanRow BY DEF Statements
<1>2. s.do \in {"saveJob", "cascade"} => s.job \in Jobs /\ s.required \in Needs BY DEF Statements
<1>3. s.do = "saveShift" => s.shift \in Shifts /\ s.as \in ShiftRow BY DEF Statements
<1>4. s.do = "removeJob" => s.job \in Jobs BY DEF Statements
<1>5. s.do = "removeShift" => s.shift \in Shifts BY DEF Statements
<1>6. s.do = "saveRow" => s.row \in Nat /\ s.as \in ProvenRow BY DEF Statements
<1>7. s.do = "insert" => s.as \in ProvenRow BY DEF Statements
<1>8. s.do = "verify" => s.status \in {"pending_approval", "confirmed"} BY DEF Statements
<1>9. s.do = "propose" => s.as \in Offer BY DEF Statements
<1>10. s.do = "answer" => s.status \in {"accepted", "declined"} BY DEF Statements
<1> QED BY ONLY <1>1, <1>2, <1>3, <1>4, <1>5, <1>6, <1>7, <1>8, <1>9, <1>10

\* Where a handler stands, and what is left of it after one statement or none.
LEMMA Standing ==
  ASSUME PlanningInv, NEW a \in Actors, task[a] # <<>>
  PROVE  /\ Now(a) \in Statements /\ Tail(task[a]) \in Seq(Statements)
         /\ Done(a) => TasksProven'
         /\ Fail(a) => TasksProven'
         /\ \A todo \in Seq(Statements) : Then(a, todo) => TasksProven'
<1>1. task \in [Actors -> Seq(Statements)] BY DEF PlanningInv, TasksProven
<1>2. Now(a) \in Statements /\ Tail(task[a]) \in Seq(Statements)
  BY <1>1, HeadTailProperties DEF Now
<1>3. Done(a) => TasksProven' BY <1>1, <1>2 DEF Done, TasksProven
<1>4. Fail(a) => TasksProven' BY <1>1, SeqOfNone DEF Fail, TasksProven
<1>5. ASSUME NEW todo \in Seq(Statements), Then(a, todo) PROVE TasksProven'
  <2>1. todo \o Tail(task[a]) \in Seq(Statements) BY <1>2
  <2> QED BY <1>1, <1>5, <2>1 DEF Then, TasksProven
<1> QED BY <1>2, <1>3, <1>4, <1>5

-----------------------------------------------------------------------------
(* Requests.                                                                 *)

\* A request that will run sound statements keeps the invariant.
LEMMA Started ==
  ASSUME PlanningInv, NEW w \in Workers, NEW todo \in Seq(Statements), Request(w, todo)
  PROVE  PlanningInv'
<1> USE DEF Request, PlanningInv, planning, replies
<1>1. TasksProven' BY DEF TasksProven, Actors
<1>2. PlanKept' BY DEF PlanKept
<1>3. RowsProven' BY DEF RowsProven
<1>4. CountsKept' BY DEF CountsKept
<1>5. NothingDangles' BY DEF NothingDangles
<1> QED BY <1>1, <1>2, <1>3, <1>4, <1>5

\* A row of the table, and what a handler may make of it.
LEMMA RowKnown ==
  ASSUME PlanningInv, NEW r \in DOMAIN regs
  PROVE  /\ r \in Nat /\ regs[r] \in ProvenRow
         /\ regs[r].shift \in Shifts /\ regs[r].group \in Nat
         /\ regs[r].email \in Emails \cup {None}
         /\ [regs[r] EXCEPT !.status = "rejected"] \in ProvenRow
         /\ regs[r].status = "pending_approval" =>
              [regs[r] EXCEPT !.status = "confirmed"] \in ProvenRow
         /\ [regs[r] EXCEPT !.reminded = TRUE] \in ProvenRow
         /\ \A email \in Emails \cup {None} : [regs[r] EXCEPT !.email = email] \in ProvenRow
<1>1. r \in Nat /\ regs[r] \in ProvenRow BY DEF PlanningInv, RowsProven
<1>2. regs[r] \in HelperRow /\ Proven(regs[r]) BY <1>1 DEF ProvenRow
<1>3. regs[r].shift \in Shifts /\ regs[r].group \in Nat /\ regs[r].email \in Emails \cup {None}
  BY <1>2 DEF HelperRow
<1>4. [regs[r] EXCEPT !.status = "rejected"] \in ProvenRow
  BY <1>2 DEF ProvenRow, HelperRow, Proven, Statuses
<1>5. regs[r].status = "pending_approval" =>
        [regs[r] EXCEPT !.status = "confirmed"] \in ProvenRow
  BY <1>2 DEF ProvenRow, HelperRow, Proven, Statuses
<1>6. [regs[r] EXCEPT !.reminded = TRUE] \in ProvenRow
  BY <1>2 DEF ProvenRow, HelperRow, Proven
<1>7. \A email \in Emails \cup {None} : [regs[r] EXCEPT !.email = email] \in ProvenRow
  BY <1>2 DEF ProvenRow, HelperRow, Proven
<1> QED BY <1>1, <1>3, <1>4, <1>5, <1>6, <1>7

\* A new row, when what it says of its helper is true.
LEMMA NewRow ==
  ASSUME NEW shift \in Shifts, NEW group \in Nat, NEW email \in Emails \cup {None},
         NEW status \in Statuses, NEW verified \in BOOLEAN, NEW source \in Sources,
         status \in {"pending_approval", "confirmed"} =>
           verified \/ source \in {"admin", "proposal"}
  PROVE  Insert(Row(shift, group, email, status, verified, source)) \in Statements
<1>1. Row(shift, group, email, status, verified, source) \in ProvenRow
  BY DEF Row, ProvenRow, HelperRow, Proven
<1> QED BY <1>1, Sayings

\* Saving what was made of some rows of the table, one after another.
LEMMA Saves ==
  ASSUME PlanningInv, NEW rows \in SUBSET DOMAIN regs, NEW new \in [rows -> ProvenRow]
  PROVE  [i \in DOMAIN SetToSeq(rows) |-> SaveRow(SetToSeq(rows)[i], new[SetToSeq(rows)[i]])]
           \in Seq(Statements)
<1> DEFINE order == SetToSeq(rows)
           todo == [i \in DOMAIN order |-> SaveRow(order[i], new[order[i]])]
<1>1. IsFiniteSet(rows) /\ rows \subseteq Nat BY FS_Subset DEF PlanningInv, RowsProven
<1>2. order \in Seq(rows) BY <1>1, OrderOfSet
<1>3. \A i \in DOMAIN order : todo[i] \in Statements
  <2>1. \A i \in DOMAIN order : order[i] \in rows BY <1>2
  <2> QED BY <1>1, <2>1, Sayings
<1> HIDE DEF order
<1>4. todo \in Seq(Statements) BY <1>2, <1>3, SeqOfSame
<1> QED BY <1>4 DEF order

\* createPlan, updatePlan, publishPlan, closePlan and deletePlan.
LEMMA PlanRequests ==
  ASSUME PlanningInv, NEW w \in Workers,
         CreatePlan(w) \/ UpdatePlan(w) \/ PublishPlan(w) \/ ClosePlan(w) \/ DeletePlan(w)
  PROVE  PlanningInv'
<1>1. plan \in PlanRow \cup {None} BY DEF PlanningInv, PlanKept
<1>2. \A p \in PlanRow : <<SavePlan(p)>> \in Seq(Statements) BY Sayings, SeqOfOne
<1>3. ASSUME NEW p \in PlanRow, Request(w, <<SavePlan(p)>>) PROVE PlanningInv'
  BY <1>2, <1>3, Started
<1>4. CASE CreatePlan(w)
  <2>1. PICK approval \in BOOLEAN :
          Request(w, <<SavePlan([status |-> "draft", requireApproval |-> approval, remind |-> TRUE])>>)
    BY <1>4 DEF CreatePlan
  <2>2. [status |-> "draft", requireApproval |-> approval, remind |-> TRUE] \in PlanRow BY DEF PlanRow
  <2> QED BY <1>3, <2>1, <2>2
<1>5. CASE UpdatePlan(w)
  <2>1. plan \in PlanRow BY <1>1, <1>5 DEF UpdatePlan
  <2>2. \A b \in BOOLEAN : /\ [plan EXCEPT !.requireApproval = b] \in PlanRow
                           /\ [plan EXCEPT !.remind = b] \in PlanRow
    BY <2>1 DEF PlanRow
  <2>3. \E b \in BOOLEAN : \/ Request(w, <<SavePlan([plan EXCEPT !.requireApproval = b])>>)
                           \/ Request(w, <<SavePlan([plan EXCEPT !.remind = b])>>)
    BY <1>5 DEF UpdatePlan
  <2> QED BY <1>3, <2>2, <2>3
<1>6. CASE PublishPlan(w)
  <2>1. plan \in PlanRow BY <1>1, <1>6 DEF PublishPlan
  <2>2. [plan EXCEPT !.status = "published"] \in PlanRow BY <2>1 DEF PlanRow
  <2> QED BY <1>3, <1>6, <2>2 DEF PublishPlan
<1>7. CASE ClosePlan(w)
  <2>1. plan \in PlanRow BY <1>1, <1>7 DEF ClosePlan
  <2>2. [plan EXCEPT !.status = "closed"] \in PlanRow BY <2>1 DEF PlanRow
  <2> QED BY <1>3, <1>7, <2>2 DEF ClosePlan
<1>8. CASE DeletePlan(w)
  <2>1. <<[do |-> "removePlan"]>> \in Seq(Statements) BY OtherSayings, SeqOfOne
  <2> QED BY <1>8, <2>1, Started DEF DeletePlan
<1> QED BY <1>4, <1>5, <1>6, <1>7, <1>8

\* createJob, updateJob, deleteJob and createShiftsBulk.
LEMMA JobRequests ==
  ASSUME PlanningInv, NEW w \in Workers, NEW j \in Jobs,
         CreateJob(w, j) \/ UpdateJob(w, j) \/ DeleteJob(w, j) \/ CreateShiftsBulk(w, j)
  PROVE  PlanningInv'
<1>1. jobs \in [Jobs -> Needs \cup {None}] BY DEF PlanningInv, PlanKept
<1>2. CASE CreateJob(w, j)
  <2>1. PICK n \in Needs : Request(w, <<SaveJob(j, n)>>) BY <1>2 DEF CreateJob
  <2>2. <<SaveJob(j, n)>> \in Seq(Statements) BY Sayings, SeqOfOne
  <2> QED BY <2>1, <2>2, Started
<1>3. CASE UpdateJob(w, j)
  <2>1. PICK n \in Needs :
          Request(w, <<[do |-> "cascade", job |-> j, required |-> n], SaveJob(j, n)>>)
    BY <1>3 DEF UpdateJob
  <2>2. <<[do |-> "cascade", job |-> j, required |-> n], SaveJob(j, n)>> \in Seq(Statements)
    BY Sayings, SeqOfTwo
  <2> QED BY <2>1, <2>2, Started
<1>4. CASE DeleteJob(w, j)
  <2>1. <<[do |-> "removeJob", job |-> j]>> \in Seq(Statements) BY OtherSayings, SeqOfOne
  <2> QED BY <1>4, <2>1, Started DEF DeleteJob
<1>5. CASE CreateShiftsBulk(w, j)
  <2> DEFINE new == SetToSeq(Shifts \ made.names)
             todo == [i \in DOMAIN new |-> NewShift(new[i], j)]
  <2>1. [job |-> j, required |-> jobs[j]] \in ShiftRow BY <1>1, <1>5 DEF CreateShiftsBulk, ShiftRow
  <2>2. \A s \in Shifts : NewShift(s, j) \in Statements BY <2>1, Sayings DEF NewShift
  <2>3. new \in Seq(Shifts \ made.names)
    BY PlanningAssumption, FS_Subset, OrderOfSet
  <2>4. \A i \in DOMAIN new : new[i] \in Shifts BY <2>3
  <2>5. \A i \in DOMAIN new : todo[i] \in Statements BY <2>2, <2>4
  <2>6. Request(w, todo) BY <1>5 DEF CreateShiftsBulk
  <2> HIDE DEF new
  <2>7. todo \in Seq(Statements) BY <2>3, <2>5, SeqOfSame
  <2> QED BY <2>6, <2>7, Started
<1> QED BY <1>2, <1>3, <1>4, <1>5

\* createShift, updateShift, deleteShift and adminCreateRegistration.
LEMMA ShiftRequests ==
  ASSUME PlanningInv, NEW w \in Workers, NEW s \in Shifts,
         \/ UpdateShift(w, s) \/ DeleteShift(w, s) \/ AdminCreateRegistration(w, s)
         \/ \E j \in Jobs : CreateShift(w, s, j)
  PROVE  PlanningInv'
<1>1. jobs \in [Jobs -> Needs \cup {None}] /\ shifts \in [Shifts -> ShiftRow \cup {None}]
  BY DEF PlanningInv, PlanKept
<1>2. CASE UpdateShift(w, s)
  <2>1. shifts[s] \in ShiftRow BY <1>1, <1>2 DEF UpdateShift
  <2>2. <<SaveShift(s, shifts[s])>> \in Seq(Statements) BY <2>1, Sayings, SeqOfOne
  <2> QED BY <1>2, <2>2, Started DEF UpdateShift
<1>3. CASE DeleteShift(w, s)
  <2>1. <<[do |-> "removeShift", shift |-> s]>> \in Seq(Statements) BY OtherSayings, SeqOfOne
  <2> QED BY <1>3, <2>1, Started DEF DeleteShift
<1>4. CASE AdminCreateRegistration(w, s)
  <2>1. PICK email \in Emails \cup {None},
             group \in {regs[r].group : r \in DOMAIN regs} \cup {ThisGroup} :
          Request(w, <<Insert(Row(s, group, email, "confirmed", FALSE, "admin"))>>)
    BY <1>4 DEF AdminCreateRegistration
  <2>2. group \in Nat
    <3>1. ThisGroup \in Nat BY DEF ThisGroup, PlanningInv, CountsKept
    <3> QED BY <2>1, <3>1, RowKnown
  <2>3. Insert(Row(s, group, email, "confirmed", FALSE, "admin")) \in Statements
    BY <2>2, NewRow DEF Statuses, Sources
  <2>4. <<Insert(Row(s, group, email, "confirmed", FALSE, "admin"))>> \in Seq(Statements)
    BY <2>3, SeqOfOne
  <2> QED BY <2>1, <2>4, Started
<1>5. ASSUME NEW j \in Jobs, CreateShift(w, s, j) PROVE PlanningInv'
  <2>1. [job |-> j, required |-> jobs[j]] \in ShiftRow BY <1>1, <1>5 DEF CreateShift, ShiftRow
  <2>2. <<NewShift(s, j)>> \in Seq(Statements) BY <2>1, Sayings, SeqOfOne DEF NewShift
  <2> QED BY <1>5, <2>2, Started DEF CreateShift
<1> QED BY <1>2, <1>3, <1>4, <1>5

\* adminUpdateRegistration, updateRegistrationNotes, approveRegistration,
\* deleteRegistration and removeSingleRegistration.
LEMMA SingleRowRequests ==
  ASSUME PlanningInv, NEW w \in Workers, NEW r \in DOMAIN regs,
         \/ AdminUpdateRegistration(w, r) \/ UpdateRegistrationNotes(w, r)
         \/ ApproveRegistration(w, r)
         \/ DeleteRegistration(w, r) \/ RemoveSingleRegistration(w, r)
  PROVE  PlanningInv'
<1>1. \A row \in ProvenRow : SaveRow(r, row) \in Statements BY RowKnown, Sayings
<1>2. \A row \in ProvenRow : <<SaveRow(r, row)>> \in Seq(Statements) BY <1>1, SeqOfOne
<1>3. ASSUME NEW row \in ProvenRow, Request(w, <<SaveRow(r, row)>>) PROVE PlanningInv'
  BY <1>2, <1>3, Started
<1>4. CASE AdminUpdateRegistration(w, r)
  <2>1. \/ Request(w, <<SaveRow(r, regs[r])>>)
        \/ \E email \in Emails \cup {None} : Request(w, <<SaveRow(r, [regs[r] EXCEPT !.email = email])>>)
    BY <1>4 DEF AdminUpdateRegistration
  <2> QED BY <1>3, <2>1, RowKnown
<1>5. CASE UpdateRegistrationNotes(w, r)
  BY <1>3, <1>5, RowKnown DEF UpdateRegistrationNotes
<1>6. CASE ApproveRegistration(w, r)
  <2>1. [regs[r] EXCEPT !.status = "confirmed"] \in ProvenRow
    BY <1>6, RowKnown DEF ApproveRegistration
  <2>2. [do |-> "approveGroup", group |-> regs[r].group] \in Statements BY RowKnown, OtherSayings
  <2>3. <<SaveRow(r, [regs[r] EXCEPT !.status = "confirmed"]),
          [do |-> "approveGroup", group |-> regs[r].group]>> \in Seq(Statements)
    BY <1>1, <2>1, <2>2, SeqOfTwo
  <2> QED BY <1>6, <2>3, Started DEF ApproveRegistration
<1>7. CASE DeleteRegistration(w, r)
  <2>1. [do |-> "deleteGroup", group |-> regs[r].group] \in Statements BY RowKnown, OtherSayings
  <2>2. <<[do |-> "deleteGroup", group |-> regs[r].group]>> \in Seq(Statements) BY <2>1, SeqOfOne
  <2> QED BY <1>7, <2>2, Started DEF DeleteRegistration
<1>8. CASE RemoveSingleRegistration(w, r)
  <2>1. {r} \in SUBSET (Nat \cup {None}) BY RowKnown
  <2>2. <<DeleteRows({r})>> \in Seq(Statements) BY <2>1, Sayings, SeqOfOne
  <2> QED BY <1>8, <2>2, Started DEF RemoveSingleRegistration
<1> QED BY <1>4, <1>5, <1>6, <1>7, <1>8

\* verifyEmail and markRegistrationVerified: the rows of the group become verified
\* in the statement that moves them on.
LEMMA VerifyRequest ==
  ASSUME PlanningInv, NEW w \in Workers, NEW r \in DOMAIN regs, Verify(w, r)
  PROVE  PlanningInv'
<1>1. AfterVerification \in {"pending_approval", "confirmed"} BY DEF AfterVerification
<1>2. [do |-> "verify", group |-> regs[r].group, status |-> AfterVerification] \in Statements
  BY <1>1, RowKnown, OtherSayings
<1>3. <<[do |-> "verify", group |-> regs[r].group, status |-> AfterVerification]>> \in Seq(Statements)
  BY <1>2, SeqOfOne
<1> QED BY <1>3, Started DEF Verify

\* rejectRegistration.
LEMMA RejectRequest ==
  ASSUME PlanningInv, NEW w \in Workers, NEW r \in DOMAIN regs, RejectRegistration(w, r)
  PROVE  PlanningInv'
<1> DEFINE rows == RowsOf(regs, regs[r].group)
           new == [q \in rows |-> [regs[q] EXCEPT !.status = "rejected"]]
           todo == [i \in DOMAIN SetToSeq(rows) |-> SaveRow(SetToSeq(rows)[i], new[SetToSeq(rows)[i]])]
<1>1. rows \in SUBSET DOMAIN regs BY DEF RowsOf
<1>2. new \in [rows -> ProvenRow] BY <1>1, RowKnown
<1>3. todo \in Seq(Statements)
  <2> HIDE DEF rows, new
  <2> QED BY <1>1, <1>2, Saves
<1>4. SetToSeq(rows) \in Seq(rows)
  BY <1>1, FS_Subset, OrderOfSet DEF PlanningInv, RowsProven
<1>5. todo = [i \in DOMAIN SetToSeq(rows) |->
                SaveRow(SetToSeq(rows)[i], [regs[SetToSeq(rows)[i]] EXCEPT !.status = "rejected"])]
  <2>1. \A i \in DOMAIN SetToSeq(rows) : SetToSeq(rows)[i] \in rows
    <3> HIDE DEF rows
    <3> QED BY <1>4
  <2> QED BY <2>1
<1>6. Request(w, todo) BY <1>5 DEF RejectRegistration, SaveAll
<1> HIDE DEF todo
<1> QED BY <1>3, <1>6, Started

\* proposeRegistrationChanges.
LEMMA ProposeRequest ==
  ASSUME PlanningInv, NEW w \in Workers, NEW r \in DOMAIN regs, ProposeRegistrationChanges(w, r)
  PROVE  PlanningInv'
<1> DEFINE Add(s) == [op |-> "add", shift |-> s, row |-> None]
           Withdraw == [op |-> "remove", shift |-> None, row |-> r]
           Offered(ops) == [group |-> regs[r].group, ops |-> ops, status |-> "pending"]
<1>0. PICK s \in Shifts : \E ops \in {<<Withdraw>>, <<Add(s)>>, <<Withdraw, Add(s)>>} :
        Request(w, <<[do |-> "propose", as |-> Offered(ops)]>>)
  BY DEF ProposeRegistrationChanges
<1>1. PICK ops \in {<<Withdraw>>, <<Add(s)>>, <<Withdraw, Add(s)>>} :
        Request(w, <<[do |-> "propose", as |-> Offered(ops)]>>)
  BY <1>0
<1>2. Withdraw \in Change /\ Add(s) \in Change BY RowKnown DEF Change
<1>3. ops \in Seq(Change)
  <2> HIDE DEF Withdraw, Add
  <2> QED BY <1>1, <1>2, SeqOfOne, SeqOfTwo
<1>4. Offered(ops) \in Offer BY <1>3, RowKnown DEF Offer
<1>5. <<[do |-> "propose", as |-> Offered(ops)]>> \in Seq(Statements)
  BY <1>4, OtherSayings, SeqOfOne
<1> QED BY <1>1, <1>5, Started

\* publicRegister: every row waits for the mail.
LEMMA RegisterRequest ==
  ASSUME PlanningInv, NEW w \in Workers, NEW email \in Emails, PublicRegister(w, email)
  PROVE  PlanningInv'
<1>1. PICK wanted \in (SUBSET {s \in Shifts : shifts[s] # None}) \ {{}} :
        Request(w, [i \in DOMAIN SetToSeq(wanted) |->
                      Insert(Row(SetToSeq(wanted)[i], ThisGroup, email, "pending_email", FALSE, "public"))]
                   \o <<MailToken(None)>>)
  BY DEF PublicRegister
<1> DEFINE order == SetToSeq(wanted)
           todo == [i \in DOMAIN order |->
                      Insert(Row(order[i], ThisGroup, email, "pending_email", FALSE, "public"))]
<1>2. order \in Seq(wanted) /\ wanted \subseteq Shifts
  BY PlanningAssumption, FS_Subset, OrderOfSet
<1>3. ThisGroup \in Nat BY DEF ThisGroup, PlanningInv, CountsKept
<1>4. \A s \in Shifts :
        Insert(Row(s, ThisGroup, email, "pending_email", FALSE, "public")) \in Statements
  BY <1>3, NewRow DEF Statuses, Sources
<1>5. \A i \in DOMAIN order : todo[i] \in Statements
  <2>1. \A i \in DOMAIN order : order[i] \in Shifts
    <3> HIDE DEF order
    <3> QED BY <1>2
  <2> QED BY <1>4, <2>1
<1>6. todo \in Seq(Statements)
  <2> HIDE DEF order
  <2> QED BY <1>2, <1>5, SeqOfSame
<1>7. <<MailToken(None)>> \in Seq(Statements) BY Sayings, SeqOfOne
<1>8. todo \o <<MailToken(None)>> \in Seq(Statements)
  <2> HIDE DEF todo
  <2> QED BY <1>6, <1>7
<1>9. Request(w, todo \o <<MailToken(None)>>) BY <1>1
<1> HIDE DEF todo
<1> QED BY <1>8, <1>9, Started

\* requestHelperMagicLink, removeShiftViaMagicLink and addShiftViaMagicLink: the new
\* row is confirmed only when the newest row of the helper was verified.
LEMMA LinkRequests ==
  ASSUME PlanningInv, NEW w \in Workers, NEW email \in Emails,
         \/ RequestHelperMagicLink(w, email)
         \/ \E r \in DOMAIN regs : RemoveShiftViaMagicLink(w, email, r)
         \/ \E s \in Shifts : AddShiftViaMagicLink(w, email, s)
  PROVE  PlanningInv'
<1>1. CASE RequestHelperMagicLink(w, email)
  <2>1. <<[do |-> "link", email |-> email]>> \in Seq(Statements) BY OtherSayings, SeqOfOne
  <2> QED BY <1>1, <2>1, Started DEF RequestHelperMagicLink
<1>2. ASSUME NEW r \in DOMAIN regs, RemoveShiftViaMagicLink(w, email, r) PROVE PlanningInv'
  <2>1. {r} \in SUBSET (Nat \cup {None}) BY RowKnown
  <2>2. <<DeleteRows({r})>> \in Seq(Statements) BY <2>1, Sayings, SeqOfOne
  <2> QED BY <1>2, <2>2, Started DEF RemoveShiftViaMagicLink
<1>3. ASSUME NEW s \in Shifts, AddShiftViaMagicLink(w, email, s) PROVE PlanningInv'
  <2>1. PICK newest \in DOMAIN regs :
          Request(w, <<Insert(Row(s, regs[newest].group, email, InheritedStatus(regs[newest]),
                                  regs[newest].verified, "link"))>>)
    BY <1>3 DEF AddShiftViaMagicLink
  <2>2. regs[newest].group \in Nat BY RowKnown
  <2>3. regs[newest].verified \in BOOLEAN
    <3>1. regs[newest] \in ProvenRow BY RowKnown
    <3> QED BY <3>1 DEF ProvenRow, HelperRow
  <2>4. /\ InheritedStatus(regs[newest]) \in Statuses
        /\ InheritedStatus(regs[newest]) \in {"pending_approval", "confirmed"} => regs[newest].verified
    BY <2>3 DEF InheritedStatus, Statuses
  <2>5. Insert(Row(s, regs[newest].group, email, InheritedStatus(regs[newest]),
                   regs[newest].verified, "link")) \in Statements
    BY <2>2, <2>3, <2>4, NewRow DEF Sources
  <2> QED BY <2>1, <2>5, Started, SeqOfOne
<1> QED BY <1>1, <1>2, <1>3

\* What an accepted proposal asks for: a row it adds belongs to a helper of the group.
LEMMA AppliedSound ==
  ASSUME NEW proposal \in Offer, NEW i \in Nat,
         NEW survivor, survivor # None => survivor.email \in Emails \cup {None}
  PROVE  Applied(proposal, i, survivor) \in Seq(Statements)
<1> DEFINE op == proposal.ops[i]
<1>1. proposal.ops \in Seq(Change) /\ proposal.group \in Nat BY DEF Offer
<1>2. CASE i \notin DOMAIN proposal.ops BY <1>2, SeqOfNone DEF Applied
<1>3. CASE i \in DOMAIN proposal.ops
  <2>1. op \in Change BY <1>1, <1>3
  <2>2. CASE op.op = "remove"
    <3>1. {op.row} \in SUBSET (Nat \cup {None}) BY <2>1 DEF Change
    <3>2. <<DeleteRows({op.row})>> \in Seq(Statements) BY <3>1, Sayings, SeqOfOne
    <3> QED BY <1>3, <2>2, <3>2 DEF Applied
  <2>3. CASE op.op # "remove" /\ survivor = None BY <1>3, <2>3, SeqOfNone DEF Applied
  <2>4. CASE op.op # "remove" /\ survivor # None
    <3>1. op.shift \in Shifts BY <2>1, <2>4 DEF Change
    <3>2. Insert(Row(op.shift, proposal.group, survivor.email, "confirmed", FALSE, "proposal"))
            \in Statements
      BY <1>1, <2>4, <3>1, NewRow DEF Statuses, Sources
    <3>3. <<Insert(Row(op.shift, proposal.group, survivor.email, "confirmed", FALSE, "proposal"))>>
            \in Seq(Statements)
      BY <3>2, SeqOfOne
    <3> QED BY <1>3, <2>4, <3>3 DEF Applied
  <2> QED BY <2>2, <2>3, <2>4
<1> QED BY <1>2, <1>3

\* respondToShiftProposal.
LEMMA RespondRequest ==
  ASSUME PlanningInv, NEW w \in Workers, NEW p \in DOMAIN proposals, RespondToShiftProposal(w, p)
  PROVE  PlanningInv'
<1> DEFINE Close(status) == <<[do |-> "answer", proposal |-> p, status |-> status]>>
           group == RowsOf(regs, proposals[p].group)
<1>1. proposals \in Seq(Offer) BY DEF PlanningInv
<1>2. p \in Nat /\ proposals[p] \in Offer BY <1>1
<1>3. Close("declined") \in Seq(Statements) /\ Close("accepted") \in Seq(Statements)
  BY <1>2, OtherSayings, SeqOfOne
<1>4. CASE Request(w, Close("declined"))
  <2> HIDE DEF Close
  <2> QED BY <1>3, <1>4, Started
<1>5. ASSUME NEW survivor \in IF group = {} THEN {None} ELSE {regs[r] : r \in group},
             Request(w, Applied(proposals[p], 1, survivor) \o Applied(proposals[p], 2, survivor)
                          \o Close("accepted"))
      PROVE  PlanningInv'
  <2>1. group \subseteq DOMAIN regs BY DEF RowsOf
  <2>2. survivor # None => survivor.email \in Emails \cup {None} BY <2>1, RowKnown
  <2>3. /\ Applied(proposals[p], 1, survivor) \in Seq(Statements)
        /\ Applied(proposals[p], 2, survivor) \in Seq(Statements)
    BY <1>2, <2>2, AppliedSound
  <2> HIDE DEF Close
  <2>4. Applied(proposals[p], 1, survivor) \o Applied(proposals[p], 2, survivor) \o Close("accepted")
          \in Seq(Statements)
    BY <1>3, <2>3
  <2> QED BY <1>5, <2>4, Started
<1>6. \/ Request(w, Close("declined"))
      \/ \E survivor \in IF group = {} THEN {None} ELSE {regs[r] : r \in group} :
           Request(w, Applied(proposals[p], 1, survivor) \o Applied(proposals[p], 2, survivor)
                        \o Close("accepted"))
  BY DEF RespondToShiftProposal
<1> QED BY <1>4, <1>5, <1>6

\* Every request.
LEMMA RequestsKeep ==
  ASSUME PlanningInv, NEW w \in Workers,
         PlanningRequest(w) \/ HelperRequest(w) \/ \E r \in DOMAIN regs : RegistrationRequest(w, r)
  PROVE  PlanningInv'
<1>1. CASE PlanningRequest(w)
  BY <1>1, PlanRequests, JobRequests, ShiftRequests DEF PlanningRequest
<1>2. CASE HelperRequest(w)
  BY <1>2, RegisterRequest, LinkRequests, VerifyRequest, RespondRequest DEF HelperRequest, VerifyEmail
<1>3. ASSUME NEW r \in DOMAIN regs, RegistrationRequest(w, r) PROVE PlanningInv'
  BY <1>3, SingleRowRequests, VerifyRequest, RejectRequest, ProposeRequest
  DEF RegistrationRequest, MarkRegistrationVerified
<1> QED BY <1>1, <1>2, <1>3

-----------------------------------------------------------------------------
(* The cron jobs.                                                            *)

\* handleVerificationReminders writes mails and counts, no status.
LEMMA HourlyKeeps == ASSUME PlanningInv, HandleVerificationReminders PROVE PlanningInv'
<1>1. PICK chosen \in SUBSET Candidates :
        task' = [task EXCEPT ![Hourly] = RemindAll(SetToSeq(chosen))]
  BY DEF HandleVerificationReminders
<1> DEFINE order == SetToSeq(chosen)
<1>2. chosen \subseteq DOMAIN regs BY DEF Candidates
<1>3. order \in Seq(chosen) BY <1>2, FS_Subset, OrderOfSet DEF PlanningInv, RowsProven
<1>4. \A r \in chosen : /\ MailToken(r) \in Statements /\ Skip \in Statements
                        /\ [do |-> "bump", group |-> regs[r].group] \in Statements
  BY <1>2, RowKnown, Sayings, OtherSayings
<1>5. RemindAll(order) \in Seq(Statements)
  <2> HIDE DEF order
  <2>1. Len(order) \in Nat /\ \A i \in 1..Len(order) : order[i] \in chosen BY <1>3
  <2>2. ASSUME NEW k \in 1..2 * Len(order) PROVE RemindAll(order)[k] \in Statements
    <3>1. (k + 1) \div 2 \in 1..Len(order) BY <2>1
    <3>2. order[(k + 1) \div 2] \in chosen BY <2>1, <3>1
    <3> QED BY <1>4, <3>2 DEF RemindAll
  <2>3. RemindAll(order) \in [1..2 * Len(order) -> Statements] BY <2>2 DEF RemindAll
  <2>4. 2 * Len(order) \in Nat BY <2>1
  <2> QED BY <2>3, <2>4, SeqDef
<1>6. TasksProven'
  <2>1. task' = [task EXCEPT ![Hourly] = RemindAll(order)] BY <1>1
  <2> HIDE DEF order
  <2> QED BY <1>5, <2>1 DEF PlanningInv, TasksProven, Actors
<1>7. UNCHANGED <<plan, jobs, shifts, regs, proposals, made>>
  BY DEF HandleVerificationReminders, planning, replies
<1> QED BY <1>6, <1>7
    DEF PlanningInv, PlanKept, RowsProven, CountsKept, NothingDangles

\* handleShiftReminders asks one query.
LEMMA DailyKeeps == ASSUME PlanningInv, HandleShiftReminders PROVE PlanningInv'
<1>1. <<[do |-> "reminderQuery", column |-> QueriedColumn]>> \in Seq(Statements)
  BY OtherSayings, SeqOfOne
<1>2. TasksProven'
  BY <1>1 DEF HandleShiftReminders, PlanningInv, TasksProven, Actors
<1>3. UNCHANGED <<plan, jobs, shifts, regs, proposals, made>>
  BY DEF HandleShiftReminders, planning, replies
<1> QED BY <1>2, <1>3
    DEF PlanningInv, PlanKept, RowsProven, CountsKept, NothingDangles

-----------------------------------------------------------------------------
(* Statements.                                                               *)

\* One more row, or the same row written again.
LEMMA RowWritten ==
  ASSUME PlanningInv, NEW r \in Nat, NEW row \in ProvenRow,
         regs' = [q \in DOMAIN regs \cup {r} |-> IF q = r THEN row ELSE regs[q]]
  PROVE  /\ RowsProven'
         /\ \A q \in DOMAIN regs' : (q \in DOMAIN regs /\ regs'[q] = regs[q]) \/ regs'[q] = row
<1>1. DOMAIN regs' = DOMAIN regs \cup {r} OBVIOUS
<1>2. IsFiniteSet(DOMAIN regs') /\ DOMAIN regs' \subseteq Nat
  BY <1>1, FS_AddElement DEF PlanningInv, RowsProven
<1>3. \A q \in DOMAIN regs' : regs'[q] \in ProvenRow BY DEF PlanningInv, RowsProven
<1>4. \A q \in DOMAIN regs' : (q \in DOMAIN regs /\ regs'[q] = regs[q]) \/ regs'[q] = row OBVIOUS
<1> QED BY <1>2, <1>3, <1>4 DEF RowsProven

\* Some of the rows, as they are.
LEMMA RowsKept ==
  ASSUME PlanningInv, NEW rows \in SUBSET DOMAIN regs, regs' = Keep(regs, rows)
  PROVE  /\ RowsProven'
         /\ DOMAIN regs' = rows
         /\ \A q \in DOMAIN regs' : q \in DOMAIN regs /\ regs'[q] = regs[q]
<1>1. DOMAIN regs' = rows /\ \A q \in rows : regs'[q] = regs[q] BY DEF Keep
<1>2. IsFiniteSet(rows) BY FS_Subset DEF PlanningInv, RowsProven
<1> QED BY <1>1, <1>2 DEF PlanningInv, RowsProven

\* A row is stored under a shift that is there.
LEMMA StoreRowKeeps ==
  ASSUME PlanningInv, NEW a \in Actors, StoreRow(a) \/ InsertRow(a)
  PROVE  PlanningInv'
<1> USE DEF planning, replies
<1>1. task[a] # <<>> /\ Now(a) \in Statements BY Standing DEF StoreRow, InsertRow, At
<1>2. ASSUME Fail(a), UNCHANGED <<plan, jobs, shifts, proposals, regs, made>> PROVE PlanningInv'
  BY <1>1, <1>2, Standing DEF PlanningInv, PlanKept, RowsProven, CountsKept, NothingDangles
<1>3. ASSUME UNCHANGED <<plan, jobs, shifts, proposals>>, TasksProven', CountsKept',
             NEW r \in Nat, NEW row \in ProvenRow, shifts[row.shift] # None,
             regs' = [q \in DOMAIN regs \cup {r} |-> IF q = r THEN row ELSE regs[q]]
      PROVE  PlanningInv'
  <2>1. /\ RowsProven'
        /\ \A q \in DOMAIN regs' : (q \in DOMAIN regs /\ regs'[q] = regs[q]) \/ regs'[q] = row
    BY <1>3, RowWritten
  <2>2. NothingDangles' BY <1>3, <2>1 DEF PlanningInv, NothingDangles
  <2>3. PlanKept' BY <1>3 DEF PlanningInv, PlanKept
  <2> QED BY <1>3, <2>1, <2>2, <2>3 DEF PlanningInv
<1>4. CASE StoreRow(a)
  <2>1. Now(a).row \in Nat /\ Now(a).as \in ProvenRow BY <1>1, <1>4, Carried DEF StoreRow, At
  <2>2. CASE shifts[Now(a).as.shift] = None BY <1>2, <1>4, <2>2 DEF StoreRow
  <2>3. CASE shifts[Now(a).as.shift] # None
    <3>1. /\ Done(a) /\ UNCHANGED <<plan, jobs, shifts, proposals, made>>
          /\ regs' = [q \in DOMAIN regs \cup {Now(a).row} |->
                        IF q = Now(a).row THEN Now(a).as ELSE regs[q]]
      BY <1>4, <2>3 DEF StoreRow
    <3>2. TasksProven' BY <1>1, <3>1, Standing
    <3>3. CountsKept' BY <3>1 DEF PlanningInv, CountsKept
    <3> QED BY <1>3, <2>1, <2>3, <3>1, <3>2, <3>3
  <2> QED BY <2>2, <2>3
<1>5. CASE InsertRow(a)
  <2>1. Now(a).as \in ProvenRow BY <1>1, <1>5, Carried DEF InsertRow, At
  <2>2. CASE shifts[Now(a).as.shift] = None BY <1>2, <1>5, <2>2 DEF InsertRow
  <2>3. CASE shifts[Now(a).as.shift] # None
    <3> DEFINE r == made.rows + 1
    <3>1. /\ task' = [task EXCEPT ![a] = Addressed(Tail(@), r)]
          /\ made' = [made EXCEPT !.rows = r] /\ UNCHANGED <<plan, jobs, shifts, proposals>>
          /\ regs' = [q \in DOMAIN regs \cup {r} |-> IF q = r THEN Now(a).as ELSE regs[q]]
      BY <1>5, <2>3 DEF InsertRow
    <3>2. r \in Nat BY DEF PlanningInv, CountsKept
    <3>3. CountsKept' BY <3>1, <3>2 DEF PlanningInv, CountsKept
    <3>4. TasksProven'
      <4> DEFINE rest == Tail(task[a])
      <4>1. rest \in Seq(Statements) BY <1>1, Standing
      <4>2. \A i \in DOMAIN rest : Addressed(rest, r)[i] \in Statements
        BY <3>2, <4>1, Sayings DEF Addressed
      <4>3. /\ DOMAIN Addressed(rest, r) = DOMAIN rest
            /\ Addressed(rest, r) = [i \in DOMAIN Addressed(rest, r) |-> Addressed(rest, r)[i]]
        BY DEF Addressed
      <4>4. Addressed(rest, r) \in Seq(Statements)
        <5> HIDE DEF rest, r
        <5> QED BY <4>1, <4>2, <4>3, SeqOfSame
      <4> QED BY <3>1, <4>4 DEF PlanningInv, TasksProven
    <3> HIDE DEF r
    <3> QED BY <1>3, <2>1, <2>3, <3>1, <3>2, <3>3, <3>4
  <2> QED BY <2>2, <2>3
<1> QED BY <1>4, <1>5

\* Rows are deleted.
LEMMA RemoveRowsKeeps == ASSUME PlanningInv, NEW a \in Actors, RemoveRows(a) PROVE PlanningInv'
<1>1. TasksProven' BY Standing DEF RemoveRows, At
<1>2. UNCHANGED <<plan, jobs, shifts, proposals, made>> BY DEF RemoveRows, planning, replies
<1>3. \E rows \in SUBSET DOMAIN regs : regs' = Keep(regs, rows) BY DEF RemoveRows
<1>4. RowsProven' /\ \A q \in DOMAIN regs' : q \in DOMAIN regs /\ regs'[q] = regs[q]
  BY <1>3, RowsKept
<1> QED BY <1>1, <1>2, <1>4 DEF PlanningInv, PlanKept, CountsKept, NothingDangles

\* The rows of a group are verified and moved on together, or counted.
LEMMA UpdateGroupKeeps == ASSUME PlanningInv, NEW a \in Actors, UpdateGroup(a) PROVE PlanningInv'
<1>1. task[a] # <<>> /\ Now(a) \in Statements BY Standing DEF UpdateGroup, At
<1>2. TasksProven' BY <1>1, Standing DEF UpdateGroup
<1>3. UNCHANGED <<plan, jobs, shifts, proposals, made>> BY DEF UpdateGroup, planning, replies
<1>4. \A r \in DOMAIN regs : regs[r] \in HelperRow /\ Proven(regs[r])
  BY DEF PlanningInv, RowsProven, ProvenRow
<1>5. /\ DOMAIN regs' = DOMAIN regs
      /\ \A r \in DOMAIN regs : regs'[r] \in ProvenRow /\ regs'[r].shift = regs[r].shift
  <2>1. CASE At(a, "verify") /\ regs' = [r \in DOMAIN regs |-> IF regs[r].group = Now(a).group
               THEN [regs[r] EXCEPT !.verified = TRUE, !.status = Now(a).status] ELSE regs[r]]
    <3>1. Now(a).status \in {"pending_approval", "confirmed"} BY <1>1, <2>1, Carried DEF At
    <3>2. \A r \in DOMAIN regs :
            LET new == [regs[r] EXCEPT !.verified = TRUE, !.status = Now(a).status]
            IN  new \in ProvenRow /\ new.shift = regs[r].shift
      BY <1>4, <3>1 DEF ProvenRow, HelperRow, Proven, Statuses
    <3>3. \A r \in DOMAIN regs : regs[r] \in ProvenRow BY <1>4 DEF ProvenRow
    <3> QED BY <2>1, <3>2, <3>3
  <2>2. CASE At(a, "bump") /\ regs' = [r \in DOMAIN regs |-> IF regs[r].group = Now(a).group
               THEN [regs[r] EXCEPT !.reminders = @ + 1] ELSE regs[r]]
    <3>1. \A r \in DOMAIN regs :
            LET new == [regs[r] EXCEPT !.reminders = @ + 1]
            IN  new \in ProvenRow /\ new.shift = regs[r].shift
      BY <1>4 DEF ProvenRow, HelperRow, Proven
    <3>2. \A r \in DOMAIN regs : regs[r] \in ProvenRow BY <1>4 DEF ProvenRow
    <3> QED BY <2>2, <3>1, <3>2
  <2> QED BY <2>1, <2>2 DEF UpdateGroup
<1>6. RowsProven' BY <1>5 DEF PlanningInv, RowsProven
<1>7. NothingDangles' BY <1>3, <1>5 DEF PlanningInv, NothingDangles
<1> QED BY <1>2, <1>3, <1>6, <1>7 DEF PlanningInv, PlanKept, CountsKept

\* approveRegistration goes on with the rows of the group that wait, and the reminders
\* of the shifts with the rows that are confirmed.
LEMMA SaveAllKeeps ==
  ASSUME PlanningInv, NEW a \in Actors, ApproveGroup(a) \/ RunReminderQuery(a)
  PROVE  PlanningInv'
<1>1. task[a] # <<>> BY DEF ApproveGroup, RunReminderQuery, At
<1>2. UNCHANGED <<plan, jobs, shifts, regs, proposals, made>>
  BY DEF ApproveGroup, RunReminderQuery, planning, replies
<1>3. ASSUME NEW rows \in SUBSET DOMAIN regs, NEW new \in [rows -> ProvenRow], NEW todo,
             todo = [i \in DOMAIN SetToSeq(rows) |->
                       SaveRow(SetToSeq(rows)[i], new[SetToSeq(rows)[i]])]
      PROVE  todo \in Seq(Statements)
  BY <1>3, Saves
<1>4. \A rows \in SUBSET DOMAIN regs : \A i \in DOMAIN SetToSeq(rows) : SetToSeq(rows)[i] \in rows
  <2> SUFFICES ASSUME NEW rows \in SUBSET DOMAIN regs, NEW i \in DOMAIN SetToSeq(rows)
               PROVE  SetToSeq(rows)[i] \in rows
    OBVIOUS
  <2>1. SetToSeq(rows) \in Seq(rows) BY FS_Subset, OrderOfSet DEF PlanningInv, RowsProven
  <2> QED BY <2>1
<1>5. CASE ApproveGroup(a)
  <2> DEFINE waiting == {r \in RowsOf(regs, Now(a).group) : regs[r].status = "pending_approval"}
             Approved(row) == [row EXCEPT !.status = "confirmed"]
             new == [r \in waiting |-> Approved(regs[r])]
             todo == [i \in DOMAIN SetToSeq(waiting) |->
                        SaveRow(SetToSeq(waiting)[i], Approved(regs[SetToSeq(waiting)[i]]))]
  <2>1. waiting \in SUBSET DOMAIN regs BY DEF RowsOf
  <2>2. new \in [waiting -> ProvenRow] BY <2>1, RowKnown
  <2>3. todo = [i \in DOMAIN SetToSeq(waiting) |->
                  SaveRow(SetToSeq(waiting)[i], new[SetToSeq(waiting)[i]])]
    <3>1. \A i \in DOMAIN SetToSeq(waiting) : SetToSeq(waiting)[i] \in waiting
      <4> HIDE DEF waiting
      <4> QED BY <1>4, <2>1
    <3> QED BY <3>1
  <2>4. Then(a, todo) BY <1>5 DEF ApproveGroup, SaveAll
  <2> HIDE DEF waiting, new, todo
  <2>5. todo \in Seq(Statements) BY <1>3, <2>1, <2>2, <2>3
  <2>6. TasksProven' BY <1>1, <2>4, <2>5, Standing
  <2> QED BY <1>2, <2>6 DEF PlanningInv, PlanKept, RowsProven, CountsKept, NothingDangles
<1>6. CASE RunReminderQuery(a)
  <2> DEFINE due == {r \in DOMAIN regs : /\ regs[r].status = "confirmed" /\ ~regs[r].reminded
                                         /\ regs[r].email # None}
             Reminded(row) == [row EXCEPT !.reminded = TRUE]
             new == [r \in due |-> Reminded(regs[r])]
             todo == [i \in DOMAIN SetToSeq(due) |->
                        SaveRow(SetToSeq(due)[i], Reminded(regs[SetToSeq(due)[i]]))]
  <2>1. due \in SUBSET DOMAIN regs OBVIOUS
  <2>2. new \in [due -> ProvenRow] BY <2>1, RowKnown
  <2>3. todo = [i \in DOMAIN SetToSeq(due) |-> SaveRow(SetToSeq(due)[i], new[SetToSeq(due)[i]])]
    <3>1. \A i \in DOMAIN SetToSeq(due) : SetToSeq(due)[i] \in due
      <4> HIDE DEF due
      <4> QED BY <1>4, <2>1
    <3> QED BY <3>1
  <2>4. Then(a, todo) \/ Fail(a) BY <1>6 DEF RunReminderQuery, SaveAll
  <2> HIDE DEF due, new, todo
  <2>5. todo \in Seq(Statements) BY <1>3, <2>1, <2>2, <2>3
  <2>6. TasksProven' BY <1>1, <2>4, <2>5, Standing
  <2> QED BY <1>2, <2>6 DEF PlanningInv, PlanKept, RowsProven, CountsKept, NothingDangles
<1> QED BY <1>5, <1>6

\* Mails and links, and a row that is passed over.
LEMMA MailKeeps ==
  ASSUME PlanningInv, NEW a \in Actors,
         SendMail(a) \/ LoseMail(a) \/ SendMagicLink(a) \/ PassOver(a)
  PROVE  PlanningInv'
<1>1. task[a] # <<>> /\ (Done(a) \/ Fail(a))
  BY DEF SendMail, LoseMail, SendMagicLink, PassOver, At
<1>2. UNCHANGED <<plan, jobs, shifts, regs, proposals, made>>
  BY DEF SendMail, LoseMail, SendMagicLink, PassOver, planning, replies
<1>3. TasksProven' BY <1>1, Standing
<1> QED BY <1>2, <1>3 DEF PlanningInv, PlanKept, RowsProven, CountsKept, NothingDangles

\* Whatever was answered, it is the same proposal.
LEMMA OfferAnswered ==
  ASSUME NEW offer \in Offer, NEW s \in {"pending", "accepted", "declined", "deleted"}
  PROVE  [offer EXCEPT !.status = s] \in Offer
BY DEF Offer

\* A proposal is sent or answered.
LEMMA ProposalKeeps == ASSUME PlanningInv, NEW a \in Actors, StoreProposal(a) PROVE PlanningInv'
<1>1. task[a] # <<>> /\ Now(a) \in Statements /\ (Done(a) \/ Fail(a))
  BY Standing DEF StoreProposal, At
<1>2. UNCHANGED <<plan, jobs, shifts, regs, made>> BY DEF StoreProposal, planning
<1>3. TasksProven' BY <1>1, Standing
<1>4. proposals \in Seq(Offer) BY DEF PlanningInv
<1>5. proposals' \in Seq(Offer)
  <2>1. CASE At(a, "propose") /\ proposals' = Append(proposals, Now(a).as)
    <3>1. Now(a).as \in Offer BY <1>1, <2>1, Carried DEF At
    <3> QED BY <1>4, <2>1, <3>1
  <2>2. CASE At(a, "answer") /\ proposals' = [proposals EXCEPT ![Now(a).proposal].status = Now(a).status]
    <3>1. Now(a).status \in {"accepted", "declined"} BY <1>1, <2>2, Carried DEF At
    <3>2. Len(proposals) \in Nat /\ DOMAIN proposals = 1..Len(proposals) BY <1>4
    <3>3. \A p \in DOMAIN proposals :
            proposals[p] \in Offer /\ [proposals[p] EXCEPT !.status = Now(a).status] \in Offer
      <4> SUFFICES ASSUME NEW p \in DOMAIN proposals
                   PROVE  proposals[p] \in Offer /\ [proposals[p] EXCEPT !.status = Now(a).status] \in Offer
        OBVIOUS
      <4>1. proposals[p] \in Offer BY <1>4
      <4> QED BY <3>1, <4>1, OfferAnswered
    <3>4. proposals' = [p \in DOMAIN proposals |->
                          IF p = Now(a).proposal THEN [proposals[p] EXCEPT !.status = Now(a).status]
                          ELSE proposals[p]]
      BY <2>2
    <3>5. proposals' \in [1..Len(proposals) -> Offer] BY <3>2, <3>3, <3>4
    <3> QED BY <3>2, <3>5, SeqDef
  <2> QED BY <1>4, <2>1, <2>2 DEF StoreProposal
<1> QED BY <1>2, <1>3, <1>5 DEF PlanningInv, PlanKept, RowsProven, CountsKept, NothingDangles

\* The plan is stored, a job under a plan, a shift under a job.
LEMMA StoreKeeps ==
  ASSUME PlanningInv, NEW a \in Actors, StorePlan(a) \/ StoreJob(a) \/ StoreShift(a)
  PROVE  PlanningInv'
<1> USE DEF planning, replies
<1>1. task[a] # <<>> /\ Now(a) \in Statements /\ (Done(a) \/ Fail(a))
  BY Standing DEF StorePlan, StoreJob, StoreShift, At
<1>2. TasksProven' BY <1>1, Standing
<1>3. UNCHANGED <<regs, proposals>> BY DEF StorePlan, StoreJob, StoreShift
<1>4. PlanKept BY DEF PlanningInv
<1>5. CASE StorePlan(a)
  <2>1. Now(a).plan \in PlanRow BY <1>1, <1>5, Carried DEF StorePlan, At
  <2>2. (plan' = plan \/ plan' = Now(a).plan) /\ UNCHANGED <<jobs, shifts>> BY <1>5 DEF StorePlan
  <2>3. Now(a).plan # None BY <2>1, PlanningAssumption
  <2>4. PlanKept' BY <1>4, <2>1, <2>2 DEF PlanKept
  <2>5. NothingDangles' BY <1>3, <2>2, <2>3 DEF PlanningInv, NothingDangles
  <2>6. CountsKept' BY <1>5 DEF StorePlan, PlanningInv, CountsKept
  <2> QED BY <1>2, <1>3, <2>4, <2>5, <2>6 DEF PlanningInv, RowsProven
<1>6. CASE StoreJob(a)
  <2>1. Now(a).job \in Jobs /\ Now(a).required \in Needs BY <1>1, <1>6, Carried DEF StoreJob, At
  <2>2. /\ \/ jobs' = jobs
           \/ plan # None /\ jobs' = [jobs EXCEPT ![Now(a).job] = Now(a).required]
        /\ UNCHANGED <<plan, shifts>>
    BY <1>6 DEF StoreJob
  <2>3. Now(a).required # None BY <2>1, PlanningAssumption
  <2>4. PlanKept' BY <1>4, <2>1, <2>2 DEF PlanKept
  <2>5. \A s \in Shifts : shifts[s] # None => shifts[s].job \in Jobs
    BY <1>4 DEF PlanKept, ShiftRow
  <2>6. NothingDangles' BY <1>3, <1>4, <2>1, <2>2, <2>3, <2>5 DEF PlanningInv, PlanKept, NothingDangles
  <2>7. CountsKept' BY <1>6, <2>1 DEF StoreJob, PlanningInv, CountsKept
  <2> QED BY <1>2, <1>3, <2>4, <2>6, <2>7 DEF PlanningInv, RowsProven
<1>7. CASE StoreShift(a) /\ At(a, "saveShift")
  <2>1. Now(a).shift \in Shifts /\ Now(a).as \in ShiftRow BY <1>1, <1>7, Carried DEF At
  <2>2. /\ \/ shifts' = shifts
           \/ jobs[Now(a).as.job] # None /\ shifts' = [shifts EXCEPT ![Now(a).shift] = Now(a).as]
        /\ UNCHANGED <<plan, jobs>> /\ made' = [made EXCEPT !.names = @ \cup {Now(a).shift}]
    BY <1>7 DEF StoreShift, At
  <2>3. Now(a).as # None BY <2>1, PlanningAssumption
  <2>4. PlanKept' BY <1>4, <2>1, <2>2 DEF PlanKept
  <2>5. \A r \in DOMAIN regs : regs[r].shift \in Shifts BY RowKnown
  <2>6. NothingDangles'
    BY <1>3, <1>4, <2>1, <2>2, <2>3, <2>5 DEF PlanningInv, PlanKept, NothingDangles
  <2>7. CountsKept' BY <2>1, <2>2 DEF PlanningInv, CountsKept
  <2> QED BY <1>2, <1>3, <2>4, <2>6, <2>7 DEF PlanningInv, RowsProven
<1>8. CASE StoreShift(a) /\ At(a, "cascade")
  <2>1. Now(a).required \in Needs BY <1>1, <1>8, Carried DEF At
  <2>2. /\ shifts' = [s \in Shifts |-> IF shifts[s] # None /\ shifts[s].job = Now(a).job
                                       THEN [shifts[s] EXCEPT !.required = Now(a).required]
                                       ELSE shifts[s]]
        /\ UNCHANGED <<plan, jobs, made>>
    BY <1>8 DEF StoreShift, At
  <2>3. \A s \in Shifts : shifts[s] # None =>
          /\ shifts[s] \in ShiftRow
          /\ [shifts[s] EXCEPT !.required = Now(a).required] \in ShiftRow
          /\ [shifts[s] EXCEPT !.required = Now(a).required].job = shifts[s].job
    BY <1>4, <2>1 DEF PlanKept, ShiftRow
  <2>4. \A s \in Shifts : /\ shifts[s] = None => shifts'[s] = None
                          /\ shifts[s] # None =>
                               shifts'[s] \in ShiftRow /\ shifts'[s].job = shifts[s].job
    BY <2>2, <2>3
  <2>5. shifts' \in [Shifts -> ShiftRow \cup {None}] BY <2>2, <2>4
  <2>6. PlanKept' BY <1>4, <2>2, <2>5 DEF PlanKept
  <2>7. \A s \in Shifts : shifts'[s] # None <=> shifts[s] # None BY <2>4, PlanningAssumption
  <2>8. \A r \in DOMAIN regs : regs[r].shift \in Shifts BY RowKnown
  <2>9. NothingDangles' BY <1>3, <2>2, <2>4, <2>7, <2>8 DEF PlanningInv, NothingDangles
  <2>10. CountsKept' BY <2>2 DEF PlanningInv, CountsKept
  <2> QED BY <1>2, <1>3, <2>6, <2>9, <2>10 DEF PlanningInv, RowsProven
<1> QED BY <1>5, <1>6, <1>7, <1>8 DEF StoreShift

\* The registrations of a deleted shift go with it.
LEMMA DropKeeps ==
  ASSUME PlanningInv, NEW gone, DropShifts(gone)
  PROVE  /\ RowsProven'
         /\ shifts' \in [Shifts -> ShiftRow \cup {None}]
         /\ \A s \in Shifts : shifts'[s] # None => s \notin gone /\ shifts'[s] = shifts[s]
         /\ \A r \in DOMAIN regs' : shifts'[regs'[r].shift] # None
<1>1. /\ RowsProven'
      /\ DOMAIN regs' = {r \in DOMAIN regs : regs[r].shift \notin gone}
      /\ \A q \in DOMAIN regs' : q \in DOMAIN regs /\ regs'[q] = regs[q]
  BY RowsKept DEF DropShifts
<1>2. shifts' = [s \in Shifts |-> IF s \in gone THEN None ELSE shifts[s]] BY DEF DropShifts
<1>3. shifts' \in [Shifts -> ShiftRow \cup {None}] BY <1>2 DEF PlanningInv, PlanKept
<1>4. \A r \in DOMAIN regs' : shifts'[regs'[r].shift] # None
  BY <1>1, <1>2, RowKnown DEF PlanningInv, NothingDangles
<1> QED BY <1>1, <1>2, <1>3, <1>4

\* deletePlan, deleteJob and deleteShift.
LEMMA RemoveKeeps == ASSUME PlanningInv, NEW a \in Actors, RemovePlanning(a) PROVE PlanningInv'
<1>1. task[a] # <<>> /\ Now(a) \in Statements BY Standing DEF RemovePlanning, At
<1>2. TasksProven' BY <1>1, Standing DEF RemovePlanning
<1>3. CountsKept' BY DEF RemovePlanning, PlanningInv, CountsKept
<1>4. PlanKept BY DEF PlanningInv
<1>5. CASE /\ plan' = None /\ jobs' = [j \in Jobs |-> None] /\ DropShifts(Shifts)
           /\ proposals' = [p \in DOMAIN proposals |-> [proposals[p] EXCEPT !.status = "deleted"]]
  <2>1. PlanKept' BY <1>5, DropKeeps DEF PlanKept
  <2>2. NothingDangles' BY <1>5, DropKeeps DEF NothingDangles
  <2>3. proposals' \in Seq(Offer)
    <3>1. proposals \in Seq(Offer) BY DEF PlanningInv
    <3>2. Len(proposals) \in Nat /\ DOMAIN proposals = 1..Len(proposals) BY <3>1
    <3>3. \A p \in DOMAIN proposals : [proposals[p] EXCEPT !.status = "deleted"] \in Offer
      <4> SUFFICES ASSUME NEW p \in DOMAIN proposals
                   PROVE  [proposals[p] EXCEPT !.status = "deleted"] \in Offer
        OBVIOUS
      <4>1. proposals[p] \in Offer BY <3>1
      <4> QED BY <4>1, OfferAnswered
    <3>4. proposals' \in [1..Len(proposals) -> Offer] BY <1>5, <3>2, <3>3
    <3> QED BY <3>2, <3>4, SeqDef
  <2> QED BY <1>2, <1>3, <1>5, <2>1, <2>2, <2>3, DropKeeps DEF PlanningInv
<1>6. CASE /\ At(a, "removeJob") /\ jobs' = [jobs EXCEPT ![Now(a).job] = None]
           /\ DropShifts({s \in Shifts : shifts[s] # None /\ shifts[s].job = Now(a).job})
           /\ UNCHANGED <<plan, proposals>>
  <2> DEFINE gone == {s \in Shifts : shifts[s] # None /\ shifts[s].job = Now(a).job}
  <2>1. Now(a).job \in Jobs BY <1>1, <1>6, Carried DEF At
  <2>2. /\ RowsProven'
        /\ shifts' \in [Shifts -> ShiftRow \cup {None}]
        /\ \A s \in Shifts : shifts'[s] # None => s \notin gone /\ shifts'[s] = shifts[s]
        /\ \A r \in DOMAIN regs' : shifts'[regs'[r].shift] # None
    BY <1>6, DropKeeps
  <2>3. PlanKept' BY <1>4, <1>6, <2>2 DEF PlanKept
  <2>4. \A s \in Shifts : shifts'[s] # None => jobs'[shifts'[s].job] # None
    <3> SUFFICES ASSUME NEW s \in Shifts, shifts'[s] # None PROVE jobs'[shifts'[s].job] # None
      OBVIOUS
    <3>1. shifts'[s] = shifts[s] /\ shifts[s].job # Now(a).job BY <2>2
    <3>2. shifts[s].job \in Jobs BY <1>4, <3>1 DEF PlanKept, ShiftRow
    <3>3. jobs[shifts[s].job] # None BY <3>1 DEF PlanningInv, NothingDangles
    <3> QED BY <1>4, <1>6, <3>1, <3>2, <3>3 DEF PlanKept
  <2>5. \A j \in Jobs : jobs'[j] # None => plan' # None
    BY <1>4, <1>6 DEF PlanKept, PlanningInv, NothingDangles
  <2> QED BY <1>2, <1>3, <1>6, <2>2, <2>3, <2>4, <2>5 DEF PlanningInv, NothingDangles
<1>7. CASE DropShifts({Now(a).shift}) /\ UNCHANGED <<plan, jobs, proposals>>
  <2>1. PlanKept' BY <1>4, <1>7, DropKeeps DEF PlanKept
  <2>2. NothingDangles' BY <1>7, DropKeeps DEF PlanningInv, NothingDangles
  <2> QED BY <1>2, <1>3, <1>7, <2>1, <2>2, DropKeeps DEF PlanningInv
<1> QED BY <1>5, <1>6, <1>7 DEF RemovePlanning

-----------------------------------------------------------------------------
(* The specification.                                                        *)

\* Restarts and expired links change no row.
LEMMA RestKeeps ==
  ASSUME PlanningInv,
         Crash \/ (\E email \in Emails : LinkExpires(email)) \/ UNCHANGED planningVars
  PROVE  PlanningInv'
<1>1. UNCHANGED <<plan, jobs, shifts, regs, proposals, made>>
  BY DEF Crash, LinkExpires, planningVars, planning, replies
<1>2. task' = task \/ task' = [a \in Actors |-> <<>>] BY DEF Crash, LinkExpires, planningVars
<1>3. TasksProven' BY <1>2, SeqOfNone DEF PlanningInv, TasksProven
<1> QED BY <1>1, <1>3 DEF PlanningInv, PlanKept, RowsProven, CountsKept, NothingDangles

\* Every step keeps the invariant.
LEMMA PlanningStep == ASSUME PlanningInv, [PlanningNext]_planningVars PROVE PlanningInv'
<1>1. ASSUME NEW a \in Actors, Statement(a) PROVE PlanningInv'
  BY <1>1, StoreRowKeeps, RemoveRowsKeeps, UpdateGroupKeeps, SaveAllKeeps, MailKeeps, ProposalKeeps,
     StoreKeeps, RemoveKeeps
  DEF Statement
<1> QED BY <1>1, RequestsKeep, HourlyKeeps, DailyKeeps, RestKeeps DEF PlanningNext

\* The plan a model starts with, and the rows a helper has come to.
LEMMA PlanningStarts == ASSUME PlanningInit PROVE PlanningInv
<1>1. /\ task = [a \in Actors |-> <<>>] /\ proposals = <<>>
      /\ made = [rows |-> Cardinality(DOMAIN regs),
                 requests |-> IF plan # None /\ plan.remind THEN 1 ELSE 0,
                 names |-> (IF plan = None THEN {} ELSE {PlanName})
                   \cup {j \in Jobs : jobs[j] # None} \cup {t \in Shifts : shifts[t] # None}]
  BY DEF PlanningInit
<1>2. TasksProven BY <1>1, SeqOfNone DEF TasksProven
<1>3. proposals \in Seq(Offer) BY <1>1
<1>4. PlanKept /\ RowsProven /\ NothingDangles
  <2>1. CASE /\ plan = None /\ jobs = [j \in Jobs |-> None] /\ shifts = [s \in Shifts |-> None]
             /\ regs = [r \in {} |-> None]
    <3>1. DOMAIN regs = {} /\ IsFiniteSet({}) BY <2>1, FS_EmptySet
    <3> QED BY <2>1, <3>1 DEF PlanKept, RowsProven, NothingDangles
  <2>2. ASSUME plan \in [status : {"published"}, requireApproval : BOOLEAN, remind : BOOLEAN],
               NEW j \in Jobs, NEW n \in Needs, NEW email \in Emails, NEW o \in Outcomes,
               jobs = [k \in Jobs |-> IF k = j THEN n ELSE None],
               shifts = [s \in Shifts |-> IF s \in InitialRows THEN [job |-> j, required |-> n] ELSE None],
               regs = [i \in DOMAIN SetToSeq(InitialRows) |->
                         Row(SetToSeq(InitialRows)[i], 0, email, o.status, o.verified, "public")]
        PROVE  PlanKept /\ RowsProven /\ NothingDangles
    <3>1. InitialRows \subseteq Shifts /\ IsFiniteSet(InitialRows)
      BY PlanningAssumption, FS_Subset DEF InitialRows
    <3>2. SetToSeq(InitialRows) \in Seq(InitialRows) BY <3>1, OrderOfSet
    <3> DEFINE order == SetToSeq(InitialRows)
    <3>3. /\ Len(order) \in Nat /\ DOMAIN order = 1..Len(order)
          /\ \A i \in DOMAIN order : order[i] \in InitialRows
      <4> HIDE DEF order
      <4> QED BY <3>2 DEF order
    <3>4. plan \in PlanRow /\ plan # None
      <4>1. plan \in PlanRow BY <2>2 DEF PlanRow
      <4> QED BY <4>1, PlanningAssumption
    <3>5. [job |-> j, required |-> n] \in ShiftRow /\ [job |-> j, required |-> n] # None
      <4>1. [job |-> j, required |-> n] \in ShiftRow BY DEF ShiftRow
      <4> QED BY <4>1, PlanningAssumption
    <3>6. PlanKept BY <2>2, <3>4, <3>5 DEF PlanKept
    <3>7. \A s \in Shifts : Row(s, 0, email, o.status, o.verified, "public") \in ProvenRow
      BY <2>2 DEF Row, ProvenRow, HelperRow, Proven, Outcomes, Statuses, Sources
    <3>8. DOMAIN regs = 1..Len(order) /\ \A r \in DOMAIN regs :
            regs[r] \in ProvenRow /\ regs[r].shift \in InitialRows
      BY <2>2, <3>1, <3>3, <3>7 DEF Row
    <3>9. RowsProven BY <3>3, <3>8, FS_Interval DEF RowsProven
    <3>10. \A r \in DOMAIN regs : shifts[regs[r].shift] # None
      BY <2>2, <3>1, <3>5, <3>8
    <3>11. \A s \in Shifts : shifts[s] # None => jobs[shifts[s].job] # None
      BY <2>2, PlanningAssumption
    <3>12. NothingDangles BY <3>4, <3>10, <3>11 DEF NothingDangles
    <3> QED BY <3>6, <3>9, <3>12
  <2> QED BY <2>1, <2>2 DEF PlanningInit
<1>5. CountsKept
  <2>1. Cardinality(DOMAIN regs) \in Nat BY <1>4, FS_CardinalityType DEF RowsProven
  <2> QED BY <1>1, <2>1 DEF CountsKept
<1> QED BY <1>2, <1>3, <1>4, <1>5 DEF PlanningInv

\* It holds in every reachable state.
LEMMA AlwaysPlanned == PlanningSpec => []PlanningInv
BY PlanningStarts, PlanningStep, PTL DEF PlanningSpec

\* A confirmed helper proved the mail address, was entered by an administrator or
\* accepted a proposal (approveRegistration, addShiftViaMagicLink, verifyEmail),
\* whatever the handlers had read when they save.
THEOREM ConfirmationsProven == PlanningSpec => []ConfirmedIsProven
<1>1. ASSUME PlanningInv PROVE ConfirmedIsProven
  BY <1>1 DEF PlanningInv, RowsProven, ProvenRow, Proven, ConfirmedIsProven
<1> QED BY <1>1, AlwaysPlanned, PTL

\* No save of a row that was read earlier brings a registration, a shift or a job back
\* without what it belongs to (deletePlan, deleteJob and deleteShift).
THEOREM CascadesComplete == PlanningSpec => []NothingDangles
<1>1. ASSUME PlanningInv PROVE NothingDangles BY <1>1 DEF PlanningInv
<1> QED BY <1>1, AlwaysPlanned, PTL
=============================================================================
