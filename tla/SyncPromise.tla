----------------------------- MODULE SyncPromise -----------------------------
(* What the synchronization of a box promises (src/docs/design/offline-box-sync.md,
   sections 5 and 6): the central installation receives the changes that were
   committed on the box and no others, none before the rental is active, never
   forgets one, and gets them all as long as the rental stays active.  *)
CONSTANT Changes

VARIABLES committed, received, phase

Init == committed = {} /\ received = {} /\ phase = "before"

Commit ==
  /\ \E change \in Changes \ committed : committed' = committed \cup {change}
  /\ UNCHANGED <<received, phase>>

(* A push admitted before the rental ended may arrive after it.  *)
Receive ==
  /\ phase # "before"
  /\ \E batch \in SUBSET (committed \ received) : received' = received \cup batch
  /\ UNCHANGED <<committed, phase>>

Begin ==
  /\ phase = "before" /\ phase' = "active"
  /\ UNCHANGED <<committed, received>>

End ==
  /\ phase # "over" /\ phase' = "over"
  /\ UNCHANGED <<committed, received>>

Next == Commit \/ Receive \/ Begin \/ End

Safe == Init /\ [][Next]_<<committed, received, phase>>

Spec == Safe /\ []<>(phase = "active" => received = committed)
=============================================================================
