--------------------------- MODULE ShiftPlanning ---------------------------
(* Helper shifts (src/src/modules/shifts): one shift plan with its jobs and
   shifts, the registrations of helpers, the proposals an administrator sends
   them, their magic links and the two cron jobs.

   Every handler reads first and writes afterwards, one awaited statement at a
   time and without a transaction.  A worker's `todo` holds the statements its
   handler has still to run, computed from what the handler read; a statement
   of another worker may come between any two of them.  A repository save of an
   entity that was read earlier writes the whole row, and inserts the row again
   when it was deleted meanwhile.                                           *)
EXTENDS Integers, Sequences, FiniteSets, SequencesExt

CONSTANTS
  Workers,      \* requests handled at the same time
  Hourly,       \* the cron job handleVerificationReminders
  Daily,        \* the cron job handleShiftReminders
  Jobs, Shifts, Emails, None,
  Needs,        \* the values of requiredWorkers in use
  MaxPerPerson, \* settings.maxShiftsPerPerson, 0 when it is not set
  ReminderCap,  \* settings.verificationReminderMaxCount
  MaxProposals, \* proposals ever created
  FirstShifts,  \* the shifts of the first registration when there are no reminders
  MaxRequests,  \* requests ever started; one less when the plan reminds
  MaxCrashes,   \* restarts of the server
  MaxLostMails  \* mails the mail server does not take

VARIABLES plan, jobs, shifts, regs, proposals, links, mailbox, task, made, spent

planningVars == <<plan, jobs, shifts, regs, proposals, links, mailbox, task, made, spent>>
planning == <<plan, jobs, shifts>>
replies == <<proposals, links, mailbox>>

Statuses == {"pending_email", "pending_approval", "confirmed", "rejected"}
Sources == {"public", "link", "admin", "proposal"}
Actors == Workers \cup {Hourly, Daily}
PlanName == "plan"
RowIds == 1..(1 + MaxRequests * Cardinality(Shifts))

(* A row of shift_registrations; `source` remembers who created it.  *)
Registration == [shift : Shifts, group : 0..MaxRequests, email : Emails \cup {None},
                 status : Statuses, verified : BOOLEAN, reminders : Nat,
                 reminded : BOOLEAN, source : Sources]

PlanRow == [status : {"draft", "published", "closed"}, requireApproval : BOOLEAN, remind : BOOLEAN]
ShiftRow == [job : Jobs, required : Needs]
ProposalRow == [group : 0..MaxRequests, status : {"pending", "accepted", "declined", "deleted"},
  ops : Seq([op : {"add", "remove"}, shift : Shifts \cup {None}, row : RowIds \cup {None}])]

ASSUME PlanningAssumption ==
  /\ IsFiniteSet(Shifts) /\ FirstShifts \subseteq Shifts
  /\ None \notin Needs \cup PlanRow \cup ShiftRow

PlanningOK ==
  /\ plan \in PlanRow \cup {None}
  /\ jobs \in [Jobs -> Needs \cup {None}]
  /\ \A s \in Shifts : shifts[s] \in ShiftRow \cup {None}
  /\ DOMAIN regs \subseteq RowIds /\ \A r \in DOMAIN regs : regs[r] \in Registration
  /\ \A p \in DOMAIN proposals : proposals[p] \in ProposalRow
  /\ links \subseteq Emails
  /\ mailbox \subseteq RowIds
  /\ DOMAIN task = Actors
  /\ made \in [rows : 0..Cardinality(RowIds), requests : 0..MaxRequests,
                names : SUBSET (Jobs \cup Shifts \cup {PlanName})]
  /\ spent \in [crashes : 0..MaxCrashes, mails : 0..MaxLostMails]

Published == plan # None /\ plan.status = "published"
RowsOf(table, group) == {r \in DOMAIN table : table[r].group = group}
Confirmed(shift) == {r \in DOMAIN regs : regs[r].shift = shift /\ regs[r].status = "confirmed"}
Full(shift) == Cardinality(Confirmed(shift)) >= shifts[shift].required
Active(email) == {r \in DOMAIN regs : regs[r].email = email /\ regs[r].status # "rejected"}

AfterVerification == IF plan.requireApproval THEN "pending_approval" ELSE "confirmed"

Keep(table, rows) == [r \in rows |-> table[r]]
Row(shift, group, email, status, verified, source) ==
  [shift |-> shift, group |-> group, email |-> email, status |-> status,
   verified |-> verified, reminders |-> 0, reminded |-> FALSE, source |-> source]

(* What a helper who registered for a shift may have come to: waiting for the
   mail, for the administrator, confirmed, or rejected before or after the
   verification.  *)
Outcomes == {o \in [status : Statuses, verified : BOOLEAN] :
  /\ o.status = "pending_email" => ~o.verified
  /\ o.status \in {"pending_approval", "confirmed"} => o.verified}

(* The plan is still to be made, or published with one shift and a registration
   for it, or published with reminders and a group of one registration per
   shift, for which the mail with the token of row 1 was or was not sent.  *)
InitialRows == IF plan.remind THEN Shifts ELSE FirstShifts

PlanningInit ==
  /\ \/ /\ plan = None
        /\ jobs = [j \in Jobs |-> None] /\ shifts = [s \in Shifts |-> None]
        /\ regs = [r \in {} |-> None] /\ links = {} /\ mailbox = {}
     \/ /\ plan \in [status : {"published"}, requireApproval : BOOLEAN, remind : BOOLEAN]
        /\ \E j \in Jobs, n \in Needs, email \in Emails, o \in Outcomes :
             /\ \A k \in Needs : n <= k
             /\ jobs = [k \in Jobs |-> IF k = j THEN n ELSE None]
             /\ shifts = [s \in Shifts |-> IF s \in InitialRows THEN [job |-> j, required |-> n] ELSE None]
             /\ LET order == SetToSeq(InitialRows)
                IN  regs = [i \in DOMAIN order |-> Row(order[i], 0, email, o.status, o.verified, "public")]
             /\ links \in {{}, {email}}
        /\ mailbox \in IF plan.remind THEN {{}, {1}} ELSE {{1}}
  /\ made = [rows |-> Cardinality(DOMAIN regs),
             requests |-> IF plan # None /\ plan.remind THEN 1 ELSE 0,
             names |-> (IF plan = None THEN {} ELSE {PlanName})
               \cup {j \in Jobs : jobs[j] # None} \cup {t \in Shifts : shifts[t] # None}]
  /\ proposals = <<>>
  /\ task = [a \in Actors |-> <<>>]
  /\ spent = [crashes |-> 0, mails |-> 0]

----------------------------------------------------------------------------
(* Requests: what a handler reads and the statements it will run.  *)

Request(w, todo) ==
  /\ task[w] = <<>>
  /\ made.requests < MaxRequests
  /\ made' = [made EXCEPT !.requests = @ + 1]
  /\ task' = [task EXCEPT ![w] = todo]
  /\ UNCHANGED <<planning, regs, replies, spent>>

ThisGroup == made.requests + 1   \* a fresh registrationGroupId

(* A plan is saved with the jobs that were read with it.  *)
SavePlan(p) == [do |-> "savePlan", plan |-> p, jobs |-> {j \in Jobs : jobs[j] # None}]
SaveJob(j, n) == [do |-> "saveJob", job |-> j, required |-> n]
SaveShift(s, shift) == [do |-> "saveShift", shift |-> s, as |-> shift]
SaveRow(r, row) == [do |-> "saveRow", row |-> r, as |-> row]
Insert(row) == [do |-> "insert", as |-> row]
DeleteRows(rows) == [do |-> "deleteRows", rows |-> rows]
MailToken(r) == [do |-> "mail", row |-> r]

SaveAll(rows, Change(_)) ==
  LET order == SetToSeq(rows)
  IN  [i \in DOMAIN order |-> SaveRow(order[i], Change(regs[order[i]]))]

CreatePlan(w) ==
  /\ PlanName \notin made.names
  /\ \E approval \in BOOLEAN :
       Request(w, <<SavePlan([status |-> "draft", requireApproval |-> approval, remind |-> TRUE])>>)

UpdatePlan(w) ==
  /\ plan # None
  /\ \/ \E approval \in BOOLEAN : Request(w, <<SavePlan([plan EXCEPT !.requireApproval = approval])>>)
     \/ \E remind \in BOOLEAN : Request(w, <<SavePlan([plan EXCEPT !.remind = remind])>>)

PublishPlan(w) ==
  /\ plan # None /\ plan.status # "published"
  /\ Request(w, <<SavePlan([plan EXCEPT !.status = "published"])>>)

ClosePlan(w) == plan # None /\ Request(w, <<SavePlan([plan EXCEPT !.status = "closed"])>>)

DeletePlan(w) == plan # None /\ Request(w, <<[do |-> "removePlan"]>>)

CreateJob(w, j) ==
  /\ plan # None /\ j \notin made.names
  /\ \E n \in Needs : Request(w, <<SaveJob(j, n)>>)

(* requiredWorkers lives on the job: its shifts are updated before the job.  *)
UpdateJob(w, j) ==
  /\ jobs[j] # None
  /\ \E n \in Needs : n # jobs[j] /\
       Request(w, <<[do |-> "cascade", job |-> j, required |-> n], SaveJob(j, n)>>)

DeleteJob(w, j) == jobs[j] # None /\ Request(w, <<[do |-> "removeJob", job |-> j]>>)

NewShift(s, j) == SaveShift(s, [job |-> j, required |-> jobs[j]])

CreateShift(w, s, j) ==
  /\ jobs[j] # None /\ s \notin made.names
  /\ Request(w, <<NewShift(s, j)>>)

CreateShiftsBulk(w, j) ==
  /\ jobs[j] # None
  /\ LET new == SetToSeq(Shifts \ made.names)
     IN  new # <<>> /\ Request(w, [i \in DOMAIN new |-> NewShift(new[i], j)])

(* updateShift changes dates and notes only, and saves the row it read.  *)
UpdateShift(w, s) == shifts[s] # None /\ Request(w, <<SaveShift(s, shifts[s])>>)

DeleteShift(w, s) == shifts[s] # None /\ Request(w, <<[do |-> "removeShift", shift |-> s]>>)

(* The administrator's operations on registrations.  *)

AdminCreateRegistration(w, s) ==
  /\ shifts[s] # None
  /\ \E email \in Emails \cup {None},
        group \in {regs[r].group : r \in DOMAIN regs} \cup {ThisGroup} :
       Request(w, <<Insert(Row(s, group, email, "confirmed", FALSE, "admin"))>>)

(* The registration was read with its shift, and a save takes the key from a
   relation that is loaded: the row stays with the shift it was read with.  *)
AdminUpdateRegistration(w, r) ==
  \/ \E s \in Shifts :
       shifts[s] # None /\ s # regs[r].shift /\ Request(w, <<SaveRow(r, regs[r])>>)
  \/ \E email \in Emails \cup {None} : Request(w, <<SaveRow(r, [regs[r] EXCEPT !.email = email])>>)

UpdateRegistrationNotes(w, r) == Request(w, <<SaveRow(r, regs[r])>>)

ApproveRegistration(w, r) ==
  /\ regs[r].status = "pending_approval"
  /\ Request(w, <<SaveRow(r, [regs[r] EXCEPT !.status = "confirmed"]),
                  [do |-> "approveGroup", group |-> regs[r].group]>>)

RejectRegistration(w, r) ==
  LET Rejected(row) == [row EXCEPT !.status = "rejected"]
  IN  Request(w, SaveAll(RowsOf(regs, regs[r].group), Rejected))

DeleteRegistration(w, r) ==
  Request(w, <<[do |-> "deleteGroup", group |-> regs[r].group]>>)

RemoveSingleRegistration(w, r) == Request(w, <<DeleteRows({r})>>)

(* verifyEmail and markRegistrationVerified.  *)
Verify(w, r) ==
  /\ ~regs[r].verified
  /\ Request(w, <<[do |-> "verify", group |-> regs[r].group, status |-> AfterVerification]>>)

MarkRegistrationVerified(w, r) == Verify(w, r)

ProposeRegistrationChanges(w, r) ==
  LET Add(s) == [op |-> "add", shift |-> s, row |-> None]
      Withdraw == [op |-> "remove", shift |-> None, row |-> r]
  IN  /\ Len(proposals) < MaxProposals
      /\ \E s \in {t \in Shifts : shifts[t] # None} :
           \E ops \in {<<Withdraw>>, <<Add(s)>>, <<Withdraw, Add(s)>>} :
           Request(w, <<[do |-> "propose", as |->
             [group |-> regs[r].group, ops |-> ops, status |-> "pending"]]>>)

----------------------------------------------------------------------------
(* The helper's operations.  *)

WithinLimit(email, wanted) ==
  MaxPerPerson = 0 \/ Cardinality(Active(email)) + Cardinality(wanted) <= MaxPerPerson

(* The first row's token is the one the helper gets by mail.  *)
PublicRegister(w, email) ==
  /\ Published
  /\ \E wanted \in (SUBSET {s \in Shifts : shifts[s] # None}) \ {{}} :
       /\ \A s \in wanted : ~Full(s)
       /\ WithinLimit(email, wanted)
       /\ LET order == SetToSeq(wanted)
              New(i) == Insert(Row(order[i], ThisGroup, email, "pending_email", FALSE, "public"))
          IN  Request(w, [i \in DOMAIN order |-> New(i)] \o <<MailToken(None)>>)

VerifyEmail(w, r) == r \in mailbox /\ Verify(w, r)

RequestHelperMagicLink(w, email) ==
  /\ plan # None /\ Active(email) # {}
  /\ Request(w, <<[do |-> "link", email |-> email]>>)

RemoveShiftViaMagicLink(w, email, r) ==
  /\ email \in links /\ regs[r].email = email
  /\ Request(w, <<DeleteRows({r})>>)

(* Mutant: the anchor is taken for verified.  *)
AlwaysConfirmed(anchor) == "confirmed"

(* The status a shift added through a magic link starts with.  *)
InheritedStatus(anchor) == IF anchor.verified THEN "confirmed" ELSE "pending_email"

AddShiftViaMagicLink(w, email, s) ==
  LET mine == {r \in DOMAIN regs : regs[r].email = email}
  IN  /\ email \in links /\ shifts[s] # None /\ ~Full(s)
      /\ \E newest \in mine :
           LET anchor == regs[newest]
           IN  /\ \A o \in mine : o <= newest
               /\ ~\E r \in RowsOf(regs, anchor.group) : regs[r].shift = s
               /\ Request(w, <<Insert(Row(s, anchor.group, email, InheritedStatus(anchor),
                                          anchor.verified, "link"))>>)

LinkExpires(email) ==
  /\ email \in links /\ links' = links \ {email}
  /\ UNCHANGED <<planning, regs, proposals, mailbox, task, made, spent>>

(* What an accepted proposal does for its i-th operation; `survivor` is the
   registration of the group read before the first of them, or None.  *)
Applied(proposal, i, survivor) ==
  IF i \notin DOMAIN proposal.ops THEN <<>>
  ELSE LET op == proposal.ops[i]
       IN  IF op.op = "remove" THEN <<DeleteRows({op.row})>>
           ELSE IF survivor = None THEN <<>>
           ELSE <<Insert(Row(op.shift, proposal.group, survivor.email, "confirmed", FALSE, "proposal"))>>

RespondToShiftProposal(w, p) ==
  LET proposal == proposals[p]
      group == RowsOf(regs, proposal.group)
      Close(status) == <<[do |-> "answer", proposal |-> p, status |-> status]>>
  IN  /\ proposal.status = "pending"
      /\ \/ Request(w, Close("declined"))
         \/ \E survivor \in IF group = {} THEN {None} ELSE {regs[r] : r \in group} :
              Request(w, Applied(proposal, 1, survivor) \o Applied(proposal, 2, survivor)
                           \o Close("accepted"))

----------------------------------------------------------------------------
(* The cron jobs.  *)

(* Mutant: rows that never got a reminder are left out.  *)
CandidatesAgain ==
  {r \in DOMAIN regs : regs[r].status = "pending_email" /\ regs[r].reminders \in 1..ReminderCap-1}

(* The rows handleVerificationReminders picks from.  *)
Candidates ==
  {r \in DOMAIN regs : regs[r].status = "pending_email" /\ regs[r].reminders < ReminderCap}

Skip == [do |-> "skip"]

(* The mail of each row and, after it, the number of reminders of its group; a
   row without an address is passed over, and its group with it.  *)
RemindAll(order) ==
  [k \in 1 .. 2 * Len(order) |->
     LET r == order[(k + 1) \div 2]
     IN  IF regs[r].email = None THEN Skip
         ELSE IF k % 2 = 1 THEN MailToken(r)
         ELSE [do |-> "bump", group |-> regs[r].group]]

(* One row of every group: the first the database returns, and the query has no
   order, so it may be any of them, the same one in every run.  *)
HandleVerificationReminders ==
  /\ Published /\ plan.remind /\ task[Hourly] = <<>>
  /\ Candidates # {}
  /\ \E chosen \in SUBSET Candidates :
       /\ \A r \in Candidates : Cardinality(RowsOf(Keep(regs, chosen), regs[r].group)) = 1
       /\ task' = [task EXCEPT ![Hourly] = RemindAll(SetToSeq(chosen))]
  /\ UNCHANGED <<planning, regs, replies, made, spent>>

(* sendRemindersForPlan asks for `job.planId`; the entity calls the column
   shiftPlanId, so the database refuses the query and the catch of
   handleShiftReminders ends the run.  *)
JobColumns == {"id", "shiftPlanId", "name", "description", "color", "sortOrder", "requiredWorkers"}
QueriedColumn == "planId"

HandleShiftReminders ==
  /\ Published /\ task[Daily] = <<>>
  /\ task' = [task EXCEPT ![Daily] = <<[do |-> "reminderQuery", column |-> QueriedColumn]>>]
  /\ UNCHANGED <<planning, regs, replies, made, spent>>

----------------------------------------------------------------------------
(* Statements.  *)

Now(a) == Head(task[a])
At(a, kind) == task[a] # <<>> /\ Now(a).do = kind
Done(a) == task' = [task EXCEPT ![a] = Tail(@)]
Fail(a) == task' = [task EXCEPT ![a] = <<>>]
Then(a, todo) == task' = [task EXCEPT ![a] = todo \o Tail(@)]

(* Mutant: the registrations stay.  *)
DropShiftsOnly(gone) ==
  /\ shifts' = [s \in Shifts |-> IF s \in gone THEN None ELSE shifts[s]]
  /\ UNCHANGED regs

(* Deleting a shift deletes its registrations (onDelete: CASCADE).  *)
DropShifts(gone) ==
  /\ shifts' = [s \in Shifts |-> IF s \in gone THEN None ELSE shifts[s]]
  /\ regs' = Keep(regs, {r \in DOMAIN regs : regs[r].shift \notin gone})

StoreRow(a) ==
  /\ At(a, "saveRow")
  /\ IF shifts[Now(a).as.shift] = None
     THEN Fail(a) /\ UNCHANGED regs
     ELSE /\ Done(a)
          /\ regs' = [r \in DOMAIN regs \cup {Now(a).row} |->
                        IF r = Now(a).row THEN Now(a).as ELSE regs[r]]
  /\ UNCHANGED <<planning, replies, made, spent>>

(* The mail of a registration carries the token of its first row.  *)
Addressed(todo, r) == [i \in DOMAIN todo |-> IF todo[i] = MailToken(None) THEN MailToken(r) ELSE todo[i]]

InsertRow(a) ==
  /\ At(a, "insert")
  /\ IF shifts[Now(a).as.shift] = None
     THEN Fail(a) /\ UNCHANGED <<regs, made>>
     ELSE /\ task' = [task EXCEPT ![a] = Addressed(Tail(@), made.rows + 1)]
          /\ made' = [made EXCEPT !.rows = @ + 1]
          /\ regs' = [r \in DOMAIN regs \cup {made.rows + 1} |->
                        IF r = made.rows + 1 THEN Now(a).as ELSE regs[r]]
  /\ UNCHANGED <<planning, replies, spent>>

RemoveRows(a) ==
  /\ \/ At(a, "deleteRows") /\ regs' = Keep(regs, DOMAIN regs \ Now(a).rows)
     \/ At(a, "deleteGroup") /\ regs' = Keep(regs, DOMAIN regs \ RowsOf(regs, Now(a).group))
  /\ Done(a)
  /\ UNCHANGED <<planning, replies, made, spent>>

(* update ... where registrationGroupId = group, in one statement.  *)
UpdateGroup(a) ==
  /\ \/ At(a, "verify") /\ regs' = [r \in DOMAIN regs |-> IF regs[r].group = Now(a).group
          THEN [regs[r] EXCEPT !.verified = TRUE, !.status = Now(a).status] ELSE regs[r]]
     \/ At(a, "bump") /\ regs' = [r \in DOMAIN regs |-> IF regs[r].group = Now(a).group
          THEN [regs[r] EXCEPT !.reminders = @ + 1] ELSE regs[r]]
  /\ Done(a)
  /\ UNCHANGED <<planning, replies, made, spent>>

(* approveRegistration reads the group once its own row is saved.  *)
ApproveGroup(a) ==
  LET waiting == {r \in RowsOf(regs, Now(a).group) : regs[r].status = "pending_approval"}
      Approved(row) == [row EXCEPT !.status = "confirmed"]
  IN  /\ At(a, "approveGroup")
      /\ Then(a, SaveAll(waiting, Approved))
      /\ UNCHANGED <<planning, regs, replies, made, spent>>

(* A mail is lost without an error: sendEmail returns false and nobody asks.  *)
SendMail(a) ==
  /\ At(a, "mail")
  /\ mailbox' = mailbox \cup {Now(a).row}
  /\ Done(a)
  /\ UNCHANGED <<planning, regs, proposals, links, made, spent>>

LoseMail(a) ==
  /\ At(a, "mail")
  /\ spent.mails < MaxLostMails
  /\ spent' = [spent EXCEPT !.mails = @ + 1]
  /\ Done(a)
  /\ UNCHANGED <<planning, regs, replies, made>>

SendMagicLink(a) ==
  /\ At(a, "link")
  /\ IF plan = None THEN Fail(a) /\ UNCHANGED links
                    ELSE Done(a) /\ links' = links \cup {Now(a).email}
  /\ UNCHANGED <<planning, regs, proposals, mailbox, made, spent>>

StoreProposal(a) ==
  /\ \/ At(a, "propose") /\ Done(a) /\ proposals' = Append(proposals, Now(a).as)
     \/ /\ At(a, "answer")
        /\ IF proposals[Now(a).proposal].status = "deleted" THEN Fail(a) /\ UNCHANGED proposals
           ELSE Done(a) /\ proposals' = [proposals EXCEPT ![Now(a).proposal].status = Now(a).status]
  /\ UNCHANGED <<planning, regs, links, mailbox, made, spent>>

(* The loop goes on with the next group.  *)
PassOver(a) ==
  /\ At(a, "skip")
  /\ Done(a)
  /\ UNCHANGED <<planning, regs, replies, made, spent>>

RunReminderQuery(a) ==
  LET due == {r \in DOMAIN regs : /\ regs[r].status = "confirmed" /\ ~regs[r].reminded
                                  /\ regs[r].email # None}
      Reminded(row) == [row EXCEPT !.reminded = TRUE]
  IN  /\ At(a, "reminderQuery")
      /\ IF Now(a).column \in JobColumns THEN Then(a, SaveAll(due, Reminded)) ELSE Fail(a)
      /\ UNCHANGED <<planning, regs, replies, made, spent>>

(* A job added since the plan was read would lose its key: the save fails.  *)
StorePlan(a) ==
  /\ At(a, "savePlan")
  /\ IF \E j \in Jobs \ Now(a).jobs : jobs[j] # None
     THEN Fail(a) /\ UNCHANGED plan
     ELSE Done(a) /\ plan' = Now(a).plan
  /\ made' = [made EXCEPT !.names = @ \cup {PlanName}]
  /\ UNCHANGED <<jobs, shifts, regs, replies, spent>>

StoreJob(a) ==
  /\ At(a, "saveJob")
  /\ IF plan = None THEN Fail(a) /\ UNCHANGED jobs
                    ELSE Done(a) /\ jobs' = [jobs EXCEPT ![Now(a).job] = Now(a).required]
  /\ made' = [made EXCEPT !.names = @ \cup {Now(a).job}]
  /\ UNCHANGED <<plan, shifts, regs, replies, spent>>

StoreShift(a) ==
  /\ \/ /\ At(a, "saveShift")
        /\ IF jobs[Now(a).as.job] = None THEN Fail(a) /\ UNCHANGED shifts
           ELSE Done(a) /\ shifts' = [shifts EXCEPT ![Now(a).shift] = Now(a).as]
        /\ made' = [made EXCEPT !.names = @ \cup {Now(a).shift}]
     \/ /\ At(a, "cascade") /\ Done(a) /\ UNCHANGED made
        /\ shifts' = [s \in Shifts |-> IF shifts[s] # None /\ shifts[s].job = Now(a).job
                                       THEN [shifts[s] EXCEPT !.required = Now(a).required] ELSE shifts[s]]
  /\ UNCHANGED <<plan, jobs, regs, replies, spent>>

RemovePlanning(a) ==
  /\ \/ At(a, "removePlan") /\ plan' = None /\ jobs' = [j \in Jobs |-> None] /\ DropShifts(Shifts)
          /\ links' = {}
          /\ proposals' = [p \in DOMAIN proposals |-> [proposals[p] EXCEPT !.status = "deleted"]]
     \/ /\ At(a, "removeJob") /\ jobs' = [jobs EXCEPT ![Now(a).job] = None]
        /\ DropShifts({s \in Shifts : shifts[s] # None /\ shifts[s].job = Now(a).job})
        /\ UNCHANGED <<plan, links, proposals>>
     \/ At(a, "removeShift") /\ DropShifts({Now(a).shift}) /\ UNCHANGED <<plan, jobs, links, proposals>>
  /\ Done(a)
  /\ UNCHANGED <<mailbox, made, spent>>

Statement(a) ==
  \/ StoreRow(a) \/ InsertRow(a) \/ RemoveRows(a) \/ UpdateGroup(a) \/ ApproveGroup(a)
  \/ SendMail(a) \/ LoseMail(a) \/ SendMagicLink(a) \/ StoreProposal(a) \/ RunReminderQuery(a)
  \/ StorePlan(a) \/ StoreJob(a) \/ StoreShift(a) \/ RemovePlanning(a) \/ PassOver(a)

(* The process stops: handlers end where they are, the cron jobs run again.  *)
Crash ==
  /\ spent.crashes < MaxCrashes
  /\ spent' = [spent EXCEPT !.crashes = @ + 1]
  /\ task' = [a \in Actors |-> <<>>]
  /\ UNCHANGED <<planning, regs, replies, made>>

PlanningRequest(w) ==
  \/ CreatePlan(w) \/ UpdatePlan(w) \/ PublishPlan(w) \/ ClosePlan(w) \/ DeletePlan(w)
  \/ \E j \in Jobs : CreateJob(w, j) \/ UpdateJob(w, j) \/ DeleteJob(w, j) \/ CreateShiftsBulk(w, j)
  \/ \E s \in Shifts : UpdateShift(w, s) \/ DeleteShift(w, s) \/ AdminCreateRegistration(w, s)
  \/ \E s \in Shifts, j \in Jobs : CreateShift(w, s, j)

RegistrationRequest(w, r) ==
  \/ AdminUpdateRegistration(w, r) \/ UpdateRegistrationNotes(w, r)
  \/ ApproveRegistration(w, r) \/ RejectRegistration(w, r) \/ MarkRegistrationVerified(w, r)
  \/ DeleteRegistration(w, r) \/ RemoveSingleRegistration(w, r)
  \/ ProposeRegistrationChanges(w, r)

HelperRequest(w) ==
  \/ \E email \in Emails : PublicRegister(w, email) \/ RequestHelperMagicLink(w, email)
  \/ \E r \in DOMAIN regs : VerifyEmail(w, r)
  \/ \E email \in Emails, r \in DOMAIN regs : RemoveShiftViaMagicLink(w, email, r)
  \/ \E email \in Emails, s \in Shifts : AddShiftViaMagicLink(w, email, s)
  \/ \E p \in DOMAIN proposals : RespondToShiftProposal(w, p)

PlanningNext ==
  \/ \E w \in Workers :
       PlanningRequest(w) \/ HelperRequest(w) \/ \E r \in DOMAIN regs : RegistrationRequest(w, r)
  \/ HandleVerificationReminders \/ HandleShiftReminders
  \/ \E a \in Actors : Statement(a)
  \/ \E email \in Emails : LinkExpires(email)
  \/ Crash

PlanningSpec == PlanningInit /\ [][PlanningNext]_planningVars

HourlyJob == HandleVerificationReminders \/ Statement(Hourly)
DailyJob == HandleShiftReminders \/ Statement(Daily)

(* The scheduler starts the cron jobs again and again and they run to their
   end; requests may stop anywhere, mail losses and restarts need not happen.  *)
FairPlanning == PlanningSpec /\ WF_planningVars(HourlyJob) /\ WF_planningVars(DailyJob)

----------------------------------------------------------------------------
(* A confirmed helper either proved the mail address, was entered by an
   administrator, or accepted a proposal sent to that address
   (approveRegistration, addShiftViaMagicLink, verifyEmail).  *)
ConfirmedIsProven ==
  \A r \in DOMAIN regs : regs[r].status = "confirmed" =>
    regs[r].verified \/ regs[r].source \in {"admin", "proposal"}

(* No save of a row that was read earlier brings a registration or a shift back
   without the shift, job or plan it belongs to (the cascades of deletePlan,
   deleteJob and deleteShift against handlers still running).  *)
NothingDangles ==
  /\ \A r \in DOMAIN regs : shifts[regs[r].shift] # None
  /\ \A s \in Shifts : shifts[s] # None => jobs[shifts[s].job] # None
  /\ \A j \in Jobs : jobs[j] # None => plan # None

(* The helper holds a token that would verify row r.  *)
HoldsLink(r) ==
  \E t \in mailbox \cap DOMAIN regs : regs[t].group = regs[r].group /\ ~regs[t].verified

(* The rows that wait for their helper to verify them and are to be reminded.  *)
Unverified ==
  {r \in DOMAIN regs : /\ Published /\ plan.remind
                       /\ regs[r].status = "pending_email" /\ regs[r].reminders < ReminderCap}

(* Row r waits, and whichever row of its group is looked at first has an address.  *)
Waiting(r) ==
  /\ r \in Unverified
  /\ \A c \in Unverified : regs[c].group = regs[r].group => regs[c].email # None

(* Again and again, while the plan is published and the cap is not reached,
   every registration that waits for its verification, in a group of which no
   waiting row lacks an address, has a link that verifies it, also when the
   server stopped before the first mail, the mail was lost, or the row with the
   mailed token was deleted (handleVerificationReminders).  A group of which
   one row lost its address may be passed over in every run and never get one. *)
PendingGetsLink == []<>(\A r \in DOMAIN regs : Waiting(r) => HoldsLink(r))

(* What the comment on handleVerificationReminders says of every helper "who
   registered but didn't click the verification link": again and again such a
   helper, known by an address, has a link or is no longer to be reminded.  *)
EveryPendingGetsLink ==
  []<>(\A r \in Unverified : regs[r].email # None => HoldsLink(r))
=============================================================================
