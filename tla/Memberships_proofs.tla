------------------------- MODULE Memberships_proofs -------------------------
(* What the requests of accounts and organizations keep, under the specification of
   the whole desk: an invitation is good for one membership, an organization keeps an
   administrator, and an erased account stays erased.  DeskInv of RentalDesk_proofs
   holds throughout; each part adds what the plans of the workers are about to do to
   the rows it speaks of.                                                          *)
EXTENDS RentalDesk_proofs

-----------------------------------------------------------------------------
(* Members and invitations.  A statement about them is all its worker has to run; it *)
(* appears with a request of the organizations or for a PIN and with no other step.  *)

Rests(v, s) == \E j \in 2 .. Len(task[v]) : task[v][j] = s
Turns(K) ==
  \A v \in Workers : \/ task'[v] = task[v]
                     \/ \A i \in DOMAIN task'[v] : task'[v][i].do \in K \/ Rests(v, task'[v][i])
BenchKinds == DeskKinds \cup {"device", "dropDevice"}

\* A statement about an organization stands alone.
LEMMA CompanyStandsAlone ==
  ASSUME DeskInv, NEW v \in Workers, NEW n \in DOMAIN task[v], task[v][n].do \in CompanyKinds
  PROVE  task[v] # Idle /\ Len(task[v]) = 1 /\ n = 1 /\ Now(v) = task[v][n] /\ task[v][n] \in CompanySteps(Known)
<1> DEFINE k == Known
           t == task[v]
<1>1. t \in Plans(k) BY DEF DeskInv
<1> HIDE DEF k
<1>2. CASE t \in Seq(AccountSteps(k))
  <2>1. t[n] \in AccountSteps(k) BY <1>2
  <2>2. t[n].do \in AccountKinds BY <2>1, KindsOfAccounts
  <2> QED BY <2>2 DEF AccountKinds, CompanyKinds
<1>3. CASE t \in {u \in Seq(CompanySteps(k) \cup FleetSteps(k)) : Len(u) <= 1}
  <2>1. t[n] \in CompanySteps(k) \cup FleetSteps(k) /\ Len(t) = 1 /\ n = 1
    <3>1. PICK S : S = CompanySteps(k) \cup FleetSteps(k) OBVIOUS
    <3>2. t \in Seq(S) /\ Len(t) <= 1 BY <1>3, <3>1
    <3>3. n \in 1 .. Len(t) /\ Len(t) \in Nat /\ t[n] \in S BY <3>2
    <3>4. t[n] \in CompanySteps(k) \cup FleetSteps(k) BY <3>1, <3>3
    <3>5. PICK l : l = Len(t) OBVIOUS
    <3>6. l \in Nat /\ l <= 1 /\ n \in 1 .. l BY <3>2, <3>3, <3>5
    <3>7. l = 1 /\ n = 1 BY ONLY <3>6, SMT
    <3> QED BY <3>4, <3>5, <3>7
  <2>2. t[n] \notin FleetSteps(k)
    <3>1. t[n] \in FleetSteps(k) => t[n].do \in FleetKinds BY KindsOfFleet
    <3> QED BY <3>1 DEF FleetKinds, CompanyKinds
  <2>3. t # Idle /\ Head(t) = t[1] BY <1>3, <2>1 DEF Idle
  <2> QED BY <2>1, <2>2, <2>3 DEF Now, k
<1>4. CASE t \in Seq(DeskSteps(k))
  <2>1. t[n] \in DeskSteps(k) BY <1>4
  <2>2. t[n].do \in DeskKinds \cup {"device", "dropDevice"} BY <2>1, KindsOfDesk
  <2> QED BY <2>2 DEF DeskKinds, CompanyKinds
<1> QED BY <1>1, <1>2, <1>3, <1>4 DEF Plans

\* What a worker is at is in its plan.
LEMMA NowIsFirst ==
  ASSUME DeskInv, NEW v \in Workers, task[v] # Idle
  PROVE  1 \in DOMAIN task[v] /\ task[v][1] = Now(v)
<1>1. \E S : task[v] \in Seq(S)
  <2>1. task[v] \in Plans(Known) BY DEF DeskInv
  <2> QED BY <2>1 DEF Plans
<1> QED BY <1>1 DEF Idle, Now

\* A step that adds statements of some kinds.
LEMMA AddsTurns == ASSUME DeskInv, NEW K, Adds(K) PROVE Turns(K)
<1> SUFFICES ASSUME NEW v \in Workers, task'[v] # task[v], NEW i \in DOMAIN task'[v], task'[v][i].do \notin K
             PROVE  Rests(v, task'[v][i])
  BY DEF Turns
<1>1. Shorter(task'[v], task[v]) BY DEF Adds
<1>2. /\ task[v] # Idle /\ task'[v] = Tail(task[v]) /\ Len(task[v]) > 1
      /\ i + 1 \in DOMAIN task[v] /\ task'[v][i] = task[v][i + 1]
  <2>1. PICK t : t = task'[v] OBVIOUS
  <2>2. Shorter(t, task[v]) /\ i \in DOMAIN t BY <1>1, <2>1
  <2>3. t = task[v] \/ (/\ task[v] # Idle /\ t = Tail(task[v]) /\ Len(task[v]) > 1
                       /\ i + 1 \in DOMAIN task[v] /\ t[i] = task[v][i + 1])
    BY <2>2, Remains
  <2> QED BY <2>1, <2>3
<1>3. i + 1 \in 2 .. Len(task[v])
  <2>1. \E S : task[v] \in Seq(S)
    <3>1. task[v] \in Plans(Known) BY DEF DeskInv
    <3> QED BY <3>1 DEF Plans
  <2> QED BY <1>2, <2>1
<1> QED BY <1>2, <1>3 DEF Rests

\* A handler that goes on with statements of some kinds.
LEMMA ThenTurns ==
  ASSUME DeskInv, NEW w \in Workers, task[w] # Idle, NEW K, NEW S, NEW todo \in Seq(S), \A s \in S : s.do \in K,
         Then(w, todo)
  PROVE  Turns(K)
<1>1. \E R : task[w] \in Seq(R)
  <2>1. task[w] \in Plans(Known) BY DEF DeskInv
  <2> QED BY <2>1 DEF Plans
<1>2. PICK R : task[w] \in Seq(R) BY <1>1
<1>3. DOMAIN task = Workers BY DEF DeskInv, RequestsOK
<1>4. PICK u : u = Tail(task[w]) OBVIOUS
<1>5. u \in Seq(R) /\ Len(u) = Len(task[w]) - 1 /\ \A j \in DOMAIN u : j + 1 \in 2 .. Len(task[w]) /\ u[j] = task[w][j + 1]
  BY <1>2, <1>4 DEF Idle
<1>6. ASSUME NEW i \in DOMAIN (todo \o u) PROVE (todo \o u)[i].do \in K \/ Rests(w, (todo \o u)[i])
  <2>1. todo \in Seq(S \cup R) /\ u \in Seq(S \cup R) BY <1>5, SeqGrows
  <2>2. i \in 1 .. (Len(todo) + Len(u)) /\ (todo \o u)[i] = IF i <= Len(todo) THEN todo[i] ELSE u[i - Len(todo)]
    BY <1>6, <2>1
  <2>3. CASE i <= Len(todo)
    <3>1. todo[i] \in S BY <2>2, <2>3
    <3> QED BY <2>2, <2>3, <3>1
  <2>4. CASE ~ (i <= Len(todo))
    <3>1. i - Len(todo) \in DOMAIN u BY <1>5, <2>2, <2>4
    <3> QED BY <1>5, <2>2, <2>4, <3>1 DEF Rests
  <2> QED BY <2>3, <2>4
<1>7. \A v \in Workers : task'[v] = IF v = w THEN todo \o u ELSE task[v] BY <1>3, <1>4 DEF Then
<1> QED BY <1>6, <1>7 DEF Turns

\* What a step does to the plans, module by module.
LEMMA StepTurns ==
  ASSUME DeskInv
  PROVE  /\ AccountsNext => Turns(AccountKinds)
         /\ \A w \in Workers : CompanyStep(w) => Turns({})
         /\ \A w \in Workers : StoreDevice(w) \/ SetColumns(w) \/ DropDevice(w) => Turns({})
         /\ \A w \in Workers : DeskRequest(w) \/ PrinterRequest(w) \/ DeskStep(w) => Turns(BenchKinds)
         /\ UNCHANGED vars => Turns({})
<1>1. ASSUME Turns({}) PROVE Turns(BenchKinds) BY <1>1 DEF Turns
<1>2. ASSUME NEW w \in Workers, DeskStep(w) PROVE Turns(BenchKinds)
  <2>1. CASE SyncPrinter(w)
    <3>1. task[w] # Idle /\ \E p, row : Then(w, <<SavePrinter(p, row)>>) BY <2>1 DEF SyncPrinter, At
    <3>2. PICK p, row : Then(w, <<SavePrinter(p, row)>>) BY <3>1
    <3>3. PICK S : S = {SavePrinter(p, row)} OBVIOUS
    <3>4. <<SavePrinter(p, row)>> \in Seq(S) BY <3>3
    <3>5. \A s \in S : s.do \in BenchKinds BY <3>3 DEF SavePrinter, BenchKinds, DeskKinds
    <3>6. PICK todo : todo = <<SavePrinter(p, row)>> OBVIOUS
    <3> QED BY <3>1, <3>2, <3>4, <3>5, <3>6, ThenTurns
  <2>2. CASE MoveDevice(w)
    <3>1. CASE At(w, "release")
      <4>1. task[w] # Idle /\ Done(w) BY <2>2, <3>1 DEF MoveDevice, At
      <4> QED BY <1>1, <4>1, StatementAdds, AddsTurns
    <3>2. CASE At(w, "move")
      <4>1. task[w] # Idle /\ Now(w).do = "move" /\ Now(w) \in Moves(Known)
        BY <3>2, Statement, KindsOfDesk DEF At, DeskKinds
      <4>2. PICK rest : rest = Now(w).rest OBVIOUS
      <4>3. PICK s : s = SaveDevice(Now(w).id, [devices[Now(w).id] EXCEPT !.org = Now(w).org], "save") OBVIOUS
      <4>4. rest \in Seq(PrinterSaves(Known)) BY <4>1, <4>2 DEF Moves
      <4>5. PICK S : S = PrinterSaves(Known) \cup {s} OBVIOUS
      <4>6. rest \in Seq(S) /\ <<s>> \in Seq(S) BY <4>4, <4>5, SeqGrows
      <4>7. <<>> \in Seq(S) /\ <<s>> \o rest \in Seq(S) BY <4>6
      <4>8. \A x \in S : x.do \in BenchKinds
        BY <4>3, <4>5 DEF SaveDevice, PrinterSaves, BenchKinds, DeskKinds
      <4>9. Then(w, <<s>> \o rest) \/ Then(w, <<>>) BY <2>2, <4>1, <4>2, <4>3 DEF MoveDevice, At
      <4>10. PICK one, two : one = <<s>> \o rest /\ two = <<>> OBVIOUS
      <4> QED BY <4>1, <4>7, <4>8, <4>9, <4>10, ThenTurns
    <3> QED BY <2>2, <3>1, <3>2 DEF MoveDevice
  <2>3. CASE StoreHardware(w) \/ StoreRental(w) \/ StorePrinter(w) \/ RemovePrinters(w)
    BY <1>1, <2>3, StepAdds, AddsTurns
  <2> QED BY <1>2, <2>1, <2>2, <2>3 DEF DeskStep
<1> QED BY <1>2, StepAdds, AddsTurns DEF BenchKinds

\* What a worker is at with an organization it was at before, or it is one of the new.
LEMMA HeadStays ==
  ASSUME DeskInv, DeskInv', NEW K, Turns(K), NEW k \in CompanyKinds \ K, NEW v \in Workers, At(v, k)'
  PROVE  At(v, k) /\ task'[v] = task[v] /\ Now(v)' = Now(v)
<1>1. task'[v] # Idle /\ Head(task'[v]).do = k BY DEF At, Now
<1>2. \E S : task'[v] \in Seq(S)
  <2>1. (task[v] \in Plans(Known))' BY DEF DeskInv
  <2> QED BY <2>1 DEF Plans
<1>3. 1 \in DOMAIN task'[v] /\ task'[v][1] = Head(task'[v]) BY <1>1, <1>2 DEF Idle
<1>4. ASSUME NEW j \in 2 .. Len(task[v]), task[v][j].do = k PROVE FALSE
  <2>1. \E S : task[v] \in Seq(S)
    <3>1. task[v] \in Plans(Known) BY DEF DeskInv
    <3> QED BY <3>1 DEF Plans
  <2>2. j \in DOMAIN task[v] /\ j # 1 BY <2>1
  <2> QED BY <1>4, <2>2, CompanyStandsAlone
<1>5. task'[v] = task[v] BY <1>1, <1>3, <1>4 DEF Turns, Rests
<1> QED BY <1>1, <1>5 DEF At, Now

-----------------------------------------------------------------------------
(* Invitations.  One that was good for a membership is marked as accepted and stays   *)
(* so, as no request is about to make it anew or to accept it; requests that would do *)
(* so are for the same organization, which the race of the first of them notes.      *)

Used(i) == \E j \in DOMAIN staffing.accepted : staffing.accepted[j] = i
NewOne(v) ==
  At(v, "invite") =>
    /\ Now(v).id \notin DOMAIN invitations /\ ~ Used(Now(v).id)
    /\ \A w \in Workers : At(w, "accept") => Now(w).invitation # Now(v).id
    /\ \A w \in Workers \ {v} : At(w, "invite") => Now(w).id # Now(v).id
OpenOne(v) ==
  At(v, "accept") =>
    /\ ~ Used(Now(v).invitation) /\ Now(v).as.org = Now(v).org
    /\ Now(v).invitation \in DOMAIN invitations => invitations[Now(v).invitation].org = Now(v).org
    /\ \A w \in Workers : At(w, "accept") /\ Now(w).invitation = Now(v).invitation => Now(w).org = Now(v).org
JoinInv ==
  staffing.raced = {} =>
    /\ \A j, k \in DOMAIN staffing.accepted : staffing.accepted[j] = staffing.accepted[k] => j = k
    /\ \A i \in DOMAIN invitations : Used(i) => invitations[i].accepted
    /\ \A v \in Workers : NewOne(v) /\ OpenOne(v)

\* Steps that have nothing to do with invitations.
LEMMA JoinStays ==
  ASSUME DeskInv, DeskInv', JoinInv, NEW K, Turns(K), "invite" \notin K, "accept" \notin K,
         UNCHANGED invitations, staffing'.accepted = staffing.accepted, staffing.raced \subseteq staffing'.raced
  PROVE  JoinInv'
<1> SUFFICES ASSUME staffing'.raced = {}
             PROVE  /\ \A j, k \in DOMAIN staffing'.accepted : staffing'.accepted[j] = staffing'.accepted[k] => j = k
                    /\ \A i \in DOMAIN invitations' : Used(i)' => invitations'[i].accepted
                    /\ \A v \in Workers : NewOne(v)' /\ OpenOne(v)'
  BY DEF JoinInv
<1>1. staffing.raced = {} OBVIOUS
<1>2. \A i : Used(i)' <=> Used(i) BY DEF Used
<1>3. \A v \in Workers : At(v, "invite")' => At(v, "invite") /\ Now(v)' = Now(v)
  BY HeadStays DEF CompanyKinds
<1>4. \A v \in Workers : At(v, "accept")' => At(v, "accept") /\ Now(v)' = Now(v)
  BY HeadStays DEF CompanyKinds
<1>5. ASSUME NEW v \in Workers PROVE NewOne(v)'
  <2>1. NewOne(v) BY <1>1 DEF JoinInv
  <2> QED BY <1>2, <1>3, <1>4, <2>1 DEF NewOne
<1>6. ASSUME NEW v \in Workers PROVE OpenOne(v)'
  <2>1. OpenOne(v) BY <1>1 DEF JoinInv
  <2> QED BY <1>2, <1>4, <2>1 DEF OpenOne
<1> QED BY <1>1, <1>2, <1>5, <1>6 DEF JoinInv

-----------------------------------------------------------------------------
(* What the requests about members and invitations are about to do.                  *)

One(w, s) == task[w] = Idle /\ task' = [task EXCEPT ![w] = <<s>>]
Founding(s) == s.do = "found" /\ s.id = Token /\ s.row.active
Adding(s) == s.do = "member" /\ s.id = Token /\ s.org \in DOMAIN organizations
Changing(s) ==
  /\ s.do = "member" /\ s.id \in DOMAIN members /\ s.org = members[s.id].org
  /\ s.change = "demote" \/ s.row.admin \/ ~ members[s.id].admin \/ Cardinality(Admins(s.org)) > 1
Dropping(s) ==
  /\ s.do = "dropMember" /\ s.id \in DOMAIN members /\ s.org = members[s.id].org
  /\ members[s.id].admin => Cardinality(Admins(s.org)) > 1
Inviting(s) == s.do = "invite" /\ s.id = Token
Joining(s) ==
  /\ s.do = "accept" /\ s.id = Token /\ s.invitation \in DOMAIN invitations /\ ~ invitations[s.invitation].accepted
  /\ s.org = invitations[s.invitation].org /\ s.as.org = s.org /\ s.org \in DOMAIN organizations
OtherKinds == {"organization", "close", "uninvite", "user", "revokeAll"}

\* A plan of one statement.
LEMMA OneHead ==
  ASSUME DeskInv, NEW w \in Workers, NEW s, One(w, s), NEW v \in Workers
  PROVE  /\ \A k : At(v, k)' <=> IF v = w THEN s.do = k ELSE At(v, k)
         /\ Now(v)' = IF v = w THEN s ELSE Now(v)
<1>1. DOMAIN task = Workers BY DEF DeskInv, RequestsOK
<1>2. task'[v] = IF v = w THEN <<s>> ELSE task[v] BY <1>1 DEF One
<1>3. <<s>> # <<>> /\ Head(<<s>>) = s OBVIOUS
<1> QED BY <1>2, <1>3 DEF At, Now, Idle

\* A request that asks for one statement.
LEMMA AskOne ==
  ASSUME DeskInv, NEW w \in Workers, NEW s, Ask(w, <<s>>)
  PROVE  One(w, s) /\ UNCHANGED company /\ Adds({s.do}) /\ UNCHANGED <<users, sessions, erasure>>
<1>1. Start(w, <<s>>) /\ UNCHANGED company /\ UNCHANGED <<users, sessions, erasure>> BY DEF Ask, Reply
<1>2. s.do \in {s.do} OBVIOUS
<1>3. Adds({s.do}) /\ task' = [task EXCEPT ![w] = <<s>>] /\ task[w] = Idle BY <1>1, <1>2, OneAdds
<1> QED BY <1>1, <1>3 DEF One

\* A membership that is about to change.
LEMMA ChangeForm ==
  ASSUME DeskInv, NEW w \in Workers, NEW m \in DOMAIN members, NEW row, NEW change, row.org = members[m].org,
         Ask(w, <<SaveMember(m, row, change)>>),
         change = "demote" \/ row.admin \/ ~ members[m].admin \/ Cardinality(Admins(members[m].org)) > 1
  PROVE  \E s : One(w, s) /\ Changing(s)
<1>1. PICK s : s = SaveMember(m, row, change) OBVIOUS
<1>2. Ask(w, <<s>>) BY <1>1
<1>3. s.do = "member" /\ s.id = m /\ s.row = row /\ s.org = row.org /\ s.change = change BY <1>1 DEF SaveMember
<1> QED BY <1>2, <1>3, AskOne DEF Changing

\* Requests of the organizations.
LEMMA CompanyForms ==
  ASSUME DeskInv, NEW w \in Workers, NEW a \in Users, CompanyRequest(w, a)
  PROVE  /\ UNCHANGED company
         /\ \/ Turns(OtherKinds)
            \/ \E s : One(w, s) /\ (Founding(s) \/ Adding(s) \/ Changing(s) \/ Dropping(s) \/ Inviting(s) \/ Joining(s))
<1> DEFINE Form == \/ Turns(OtherKinds)
                   \/ \E s : One(w, s) /\ (Founding(s) \/ Adding(s) \/ Changing(s) \/ Dropping(s) \/ Inviting(s) \/ Joining(s))
<1>1. ASSUME NEW s, Ask(w, <<s>>), s.do \in OtherKinds \/ Founding(s) \/ Adding(s) \/ Dropping(s) \/ Inviting(s) \/ Joining(s)
      PROVE  UNCHANGED company /\ Form
  <2>1. One(w, s) /\ UNCHANGED company /\ Adds({s.do}) BY <1>1, AskOne
  <2>2. CASE s.do \in OtherKinds
    <3>1. Turns({s.do}) BY <2>1, AddsTurns
    <3>2. Turns(OtherKinds) BY <2>2, <3>1 DEF Turns
    <3> QED BY <2>1, <3>2
  <2> QED BY <1>1, <2>1, <2>2
<1>2. ASSUME NEW o, CreateOrganization(w, a, o) PROVE UNCHANGED company /\ Form
  <2>1. PICK s : s = [do |-> "found", org |-> o, id |-> Token, user |-> a, row |-> users[a]] OBVIOUS
  <2>2. Ask(w, <<s>>) /\ Founding(s) BY <1>2, <2>1 DEF CreateOrganization, Founding, SignedIn
  <2> QED BY <1>1, <2>2
<1>3. ASSUME NEW o, NEW email, RegisterWithOrganization(w, a, email, o) PROVE UNCHANGED company /\ Form
  <2>1. PICK s : s = [do |-> "found", org |-> o, id |-> Token, user |-> a,
                      row |-> [NewUser(email) EXCEPT !.verification = Token + 1]] OBVIOUS
  <2>2. Ask(w, <<s>>) /\ Founding(s) BY <1>3, <2>1 DEF RegisterWithOrganization, Founding, NewUser
  <2> QED BY <1>1, <2>2
<1>4. ASSUME NEW o \in DOMAIN organizations, NEW sent, UpdateOrganization(w, a, o, sent)
      PROVE  UNCHANGED company /\ Form
  <2>1. \E row : Ask(w, <<[do |-> "organization", org |-> o, row |-> row, members |-> Of(o)]>>)
    BY <1>4 DEF UpdateOrganization
  <2>2. PICK row : Ask(w, <<[do |-> "organization", org |-> o, row |-> row, members |-> Of(o)]>>) BY <2>1
  <2>3. PICK s : s = [do |-> "organization", org |-> o, row |-> row, members |-> Of(o)] OBVIOUS
  <2>4. Ask(w, <<s>>) /\ s.do \in OtherKinds BY <2>2, <2>3 DEF OtherKinds
  <2> QED BY <1>1, <2>4
<1>5. ASSUME NEW o \in DOMAIN organizations, RemoveOrganization(w, a, o) \/ EditTerms(w, o)
      PROVE  UNCHANGED company /\ Form
  <2>1. CASE RemoveOrganization(w, a, o)
    <3>1. PICK s : s = [do |-> "close", org |-> o] OBVIOUS
    <3>2. Ask(w, <<s>>) /\ s.do \in OtherKinds BY <2>1, <3>1 DEF RemoveOrganization, OtherKinds
    <3> QED BY <1>1, <3>2
  <2>2. CASE EditTerms(w, o)
    <3>1. PICK s : s = [do |-> "organization", org |-> o, row |-> organizations[o], members |-> 1..MaxTokens] OBVIOUS
    <3>2. Ask(w, <<s>>) /\ s.do \in OtherKinds BY <2>2, <3>1 DEF EditTerms, OtherKinds
    <3> QED BY <1>1, <3>2
  <2> QED BY <1>5, <2>1, <2>2
<1>6. ASSUME DeleteAccount(w, a) \/ \E o \in DOMAIN organizations, u \in DOMAIN users : AnonymizeMember(w, a, o, u)
      PROVE  UNCHANGED company /\ Form
  <2>1. PICK u \in DOMAIN users : Ask(w, AnonymizeUser(u)) BY <1>6, ErasureRequests
  <2>2. Adds({"user", "revokeAll"}) /\ UNCHANGED company BY <2>1, PlanAdds DEF Ask
  <2>3. Turns({"user", "revokeAll"}) BY <2>2, AddsTurns
  <2>4. Turns(OtherKinds) BY <2>3 DEF Turns, OtherKinds
  <2> QED BY <2>2, <2>4
<1>7. ASSUME NEW o \in DOMAIN organizations, NEW u, NEW admin, NEW permitted, AddMember(w, a, o, u, admin, permitted)
      PROVE  UNCHANGED company /\ Form
  <2>1. PICK s : s = SaveMember(Token, Member(u, o, admin, permitted), "add") OBVIOUS
  <2>2. Ask(w, <<s>>) /\ Adding(s) BY <1>7, <2>1 DEF AddMember, Adding, SaveMember, Member
  <2> QED BY <1>1, <2>2
<1>8. ASSUME NEW m \in DOMAIN members, NEW admin, NEW permitted, UpdateMember(w, a, m, admin, permitted)
      PROVE  UNCHANGED company /\ Form
  <2>1. members[m] \in MemberRows(Later(0)) BY DrawnIds, CompanyRow
  <2>2. PICK row : row = [members[m] EXCEPT !.admin = admin, !.permitted = permitted /\ ~admin] OBVIOUS
  <2>3. row.org = members[m].org /\ row.admin = admin BY <2>1, <2>2 DEF MemberRows
  <2>4. PICK change : change = IF members[m].admin /\ ~ admin /\ members[m].user # a THEN "demote" ELSE "update" OBVIOUS
  <2>5. Ask(w, <<SaveMember(m, row, change)>>) BY <1>8, <2>2, <2>4 DEF UpdateMember
  <2>6. change = "demote" \/ row.admin \/ ~ members[m].admin \/ Cardinality(Admins(members[m].org)) > 1
    BY <1>8, <2>3, <2>4 DEF UpdateMember
  <2>7. UNCHANGED company BY <2>5 DEF Ask
  <2> QED BY <2>3, <2>5, <2>6, <2>7, ChangeForm
<1>9. ASSUME NEW m \in DOMAIN members, RemoveMember(w, a, m) PROVE UNCHANGED company /\ Form
  <2>1. PICK s : s = [do |-> "dropMember", id |-> m, org |-> members[m].org] OBVIOUS
  <2>2. Ask(w, <<s>>) /\ Dropping(s) BY <1>9, <2>1 DEF RemoveMember, Dropping
  <2> QED BY <1>1, <2>2
<1>10. ASSUME NEW o, NEW email, NEW admin, CreateInvitation(w, a, o, email, admin) PROVE UNCHANGED company /\ Form
  <2>1. PICK s : s = [do |-> "invite", id |-> Token,
                      row |-> [org |-> o, email |-> email, admin |-> admin, accepted |-> FALSE]] OBVIOUS
  <2>2. Ask(w, <<s>>) /\ Inviting(s) BY <1>10, <2>1 DEF CreateInvitation, Inviting
  <2> QED BY <1>1, <2>2
<1>11. ASSUME NEW i \in DOMAIN invitations, CancelInvitation(w, a, i) \/ DeclineInvitation(w, a, i)
       PROVE  UNCHANGED company /\ Form
  <2>1. PICK s : s = [do |-> "uninvite", id |-> i] OBVIOUS
  <2>2. Ask(w, <<s>>) /\ s.do \in OtherKinds BY <1>11, <2>1 DEF CancelInvitation, DeclineInvitation, OtherKinds
  <2> QED BY <1>1, <2>2
<1>12. ASSUME NEW i \in DOMAIN invitations, AcceptInvitation(w, a, i) PROVE UNCHANGED company /\ Form
  <2>1. PICK row : row = invitations[i] OBVIOUS
  <2>2. row \in InvitationRows(Known) BY <2>1 DEF DeskInv, CompanyTables, Table
  <2>3. PICK as : as = [row EXCEPT !.accepted = TRUE] OBVIOUS
  <2>4. as.org = row.org /\ row.org \in DOMAIN organizations BY <2>2, <2>3 DEF InvitationRows, Known
  <2>5. PICK s : s = [do |-> "accept", id |-> Token, row |-> Member(a, row.org, row.admin, TRUE), org |-> row.org,
                      invitation |-> i, as |-> as] OBVIOUS
  <2>6. Ask(w, <<s>>) /\ Joining(s)
    BY <1>12, <2>1, <2>3, <2>4, <2>5 DEF AcceptInvitation, Open, Joining
  <2> QED BY <1>1, <2>6
<1> QED BY <1>2, <1>3, <1>4, <1>5, <1>6, <1>7, <1>8, <1>9, <1>10, <1>11, <1>12 DEF CompanyRequest

\* Requests of the devices, of which some are for the PIN of a member.
LEMMA FleetForms ==
  ASSUME DeskInv, NEW w \in Workers, FleetRequest(w)
  PROVE  UNCHANGED company /\ (Turns(FleetKinds) \/ \E s : One(w, s) /\ Changing(s))
<1>1. CASE \E n \in 0 .. 2 : \E s : FleetPlan(w, n, s)
  <2>1. PICK n \in 0 .. 2 : \E s : FleetPlan(w, n, s) BY <1>1
  <2>2. PICK s : FleetPlan(w, n, s) BY <2>1
  <2>3. UNCHANGED company BY <2>2 DEF FleetPlan, Call, Ask
  <2> QED BY <2>2, <2>3, PlanAdds, AddsTurns
<1>2. ASSUME NEW a \in Users, NEW m \in DOMAIN members,
             RemoveMemberPin(w, a, m) \/ \E pin \in Pins : SetMemberPin(w, a, m, pin)
      PROVE  UNCHANGED company /\ (\E s : One(w, s) /\ Changing(s))
  <2>1. \E pin : Ask(w, <<SaveMember(m, [members[m] EXCEPT !.pin = pin], "update")>>)
    BY <1>2 DEF RemoveMemberPin, SetMemberPin, Call
  <2>2. PICK pin : Ask(w, <<SaveMember(m, [members[m] EXCEPT !.pin = pin], "update")>>) BY <2>1
  <2>3. PICK row : row = [members[m] EXCEPT !.pin = pin] OBVIOUS
  <2>4. members[m] \in MemberRows(Later(0)) BY DrawnIds, CompanyRow
  <2>5. row.org = members[m].org /\ (row.admin \/ ~ members[m].admin) BY <2>3, <2>4 DEF MemberRows
  <2>6. Ask(w, <<SaveMember(m, row, "update")>>) /\ UNCHANGED company BY <2>2, <2>3 DEF Ask
  <2> QED BY <2>5, <2>6, ChangeForm
<1>3. ASSUME NEW name \in Names,
             \/ InitDevice(w, name)
             \/ \E o \in DOMAIN organizations : RegisterDevice(w, o, name)
             \/ \E a \in Users, o \in DOMAIN organizations : CreateDevice(w, a, o, name)
      PROVE  \E n \in 0 .. 2 : \E s : FleetPlan(w, n, s)
  BY <1>3, NewDeviceRequests
<1> QED BY <1>1, <1>2, <1>3, DeviceRequests DEF FleetRequest

\* What is noted of a change of the members.
LEMMA StaffedNotes ==
  ASSUME DeskInv, NEW w \in Workers, NEW o, NEW demoted
  PROVE  /\ Staffed(w, o, demoted).accepted = staffing.accepted
         /\ staffing.raced \subseteq Staffed(w, o, demoted).raced
         /\ staffing.demoted \subseteq Staffed(w, o, demoted).demoted
         /\ demoted => o \in Staffed(w, o, demoted).demoted
         /\ \A v \in Workers \ {w} : \A k \in {"member", "dropMember", "accept"} :
              At(v, k) /\ Now(v).org = o => o \in Staffed(w, o, demoted).raced
<1>1. staffing \in [raced : SUBSET Orgs, demoted : SUBSET Orgs, accepted : Seq(Ids(Known))] BY DEF DeskInv, CompanyTables
<1>2. PICK one : one = IF \E v \in Busy \ {w} : Changes(v, o) THEN {o} ELSE {} OBVIOUS
<1>3. PICK two : two = IF demoted THEN {o} ELSE {} OBVIOUS
<1>4. Staffed(w, o, demoted) = [staffing EXCEPT !.raced = @ \cup one, !.demoted = @ \cup two] BY <1>2, <1>3 DEF Staffed
<1>5. /\ Staffed(w, o, demoted).accepted = staffing.accepted
      /\ Staffed(w, o, demoted).raced = staffing.raced \cup one
      /\ Staffed(w, o, demoted).demoted = staffing.demoted \cup two
  BY <1>1, <1>4
<1>6. ASSUME NEW v \in Workers \ {w}, NEW k \in {"member", "dropMember", "accept"}, At(v, k), Now(v).org = o
      PROVE  one = {o}
  <2>1. task[v] # Idle /\ Now(v).do = k BY <1>6 DEF At
  <2>2. 1 \in DOMAIN task[v] /\ task[v][1] = Now(v) BY <2>1, NowIsFirst
  <2>3. v \in Busy \ {w} /\ Changes(v, o) BY <1>6, <2>1, <2>2 DEF Busy, Changes
  <2> QED BY <1>2, <2>3
<1> QED BY <1>3, <1>5, <1>6

\* A statement about an organization ends its plan.
LEMMA CompanyEnds ==
  ASSUME DeskInv, NEW w \in Workers, task[w] # Idle, Now(w).do \in CompanyKinds, Done(w) \/ Fail(w), NEW v \in Workers
  PROVE  /\ \A k : At(v, k)' <=> v # w /\ At(v, k)
         /\ v # w => Now(v)' = Now(v)
<1>1. DOMAIN task = Workers BY DEF DeskInv, RequestsOK
<1>2. 1 \in DOMAIN task[w] /\ task[w][1] = Now(w) BY NowIsFirst
<1>3. Len(task[w]) = 1 BY <1>2, CompanyStandsAlone
<1>4. \E S : task[w] \in Seq(S)
  <2>1. task[w] \in Plans(Known) BY DEF DeskInv
  <2> QED BY <2>1 DEF Plans
<1>5. PICK S : task[w] \in Seq(S) BY <1>4
<1>6. Tail(task[w]) = <<>> BY <1>3, <1>5, LastStatement
<1>7. task'[w] = Idle /\ \A x \in Workers \ {w} : task'[x] = task[x] BY <1>1, <1>6 DEF Done, Fail, Idle
<1> QED BY <1>7 DEF At, Now

\* A membership by an invitation.
LEMMA AcceptJoins ==
  ASSUME DeskInv, JoinInv, NEW w \in Workers, StoreMember(w), At(w, "accept")
  PROVE  JoinInv'
<1> DEFINE i == Now(w).invitation
           o == Now(w).org
           a == staffing.accepted
<1>1. Now(w) \in Accepts(Known) /\ task[w] # Idle /\ Now(w).do = "accept"
  BY Statement, KindsOfCompany DEF At, CompanyKinds
<1>2. Now(w).row.org = o /\ Now(w).as.accepted BY <1>1 DEF Accepts
<1>3. \/ Fail(w) /\ UNCHANGED <<invitations, staffing>>
      \/ /\ Done(w) /\ invitations' = With(invitations, i, Now(w).as)
         /\ staffing' = [Staffed(w, o, FALSE) EXCEPT !.accepted = Append(@, i)]
  BY <1>1, <1>2 DEF StoreMember, At
<1>4. \A v \in Workers : /\ \A k : At(v, k)' <=> v # w /\ At(v, k)
                         /\ v # w => Now(v)' = Now(v)
  BY <1>1, <1>3, CompanyEnds DEF CompanyKinds
<1>5. CASE Fail(w) /\ UNCHANGED <<invitations, staffing>>
  <2>1. \A x : Used(x)' <=> Used(x) BY <1>5 DEF Used
  <2>2. \A v \in Workers : NewOne(v) => NewOne(v)' BY <1>4, <1>5, <2>1 DEF NewOne
  <2>3. \A v \in Workers : OpenOne(v) => OpenOne(v)' BY <1>4, <1>5, <2>1 DEF OpenOne
  <2> QED BY <1>5, <2>1, <2>2, <2>3 DEF JoinInv
<1>6. ASSUME Done(w), invitations' = With(invitations, i, Now(w).as),
             staffing' = [Staffed(w, o, FALSE) EXCEPT !.accepted = Append(@, i)], staffing'.raced = {}
      PROVE  /\ \A j, k \in DOMAIN staffing'.accepted : staffing'.accepted[j] = staffing'.accepted[k] => j = k
             /\ \A x \in DOMAIN invitations' : Used(x)' => invitations'[x].accepted
             /\ \A v \in Workers : NewOne(v)' /\ OpenOne(v)'
  <2>1. a \in Seq(Ids(Known)) /\ Staffed(w, o, FALSE).accepted = a BY StaffedNotes DEF DeskInv, CompanyTables
  <2>2. o \in Orgs BY <1>1, CompanyRow, DrawnIds DEF Accepts, Known
  <2>3. PICK s : s = Staffed(w, o, FALSE) OBVIOUS
  <2>4. s \in [raced : SUBSET Orgs, demoted : SUBSET Orgs, accepted : Seq(Ids(Known))]
    <3>1. staffing \in [raced : SUBSET Orgs, demoted : SUBSET Orgs, accepted : Seq(Ids(Known))] BY DEF DeskInv, CompanyTables
    <3>2. PICK one : one = IF \E v \in Busy \ {w} : Changes(v, o) THEN {o} ELSE {} OBVIOUS
    <3>3. s = [staffing EXCEPT !.raced = @ \cup one, !.demoted = @ \cup {}] BY <2>3, <3>2 DEF Staffed
    <3> QED BY <2>2, <3>1, <3>2, <3>3
  <2>5. staffing'.accepted = Append(a, i) /\ s.raced = {} BY <1>6, <2>1, <2>3, <2>4
  <2>6. staffing.raced = {} /\ \A v \in Workers \ {w} : At(v, "accept") => Now(v).org # o
    BY <2>3, <2>5, StaffedNotes
  <2>7. NewOne(w) /\ OpenOne(w) /\ \A v \in Workers : NewOne(v) /\ OpenOne(v) BY <2>6 DEF JoinInv
  <2>8. ~ Used(i) BY <2>7 DEF OpenOne
  <2>9. /\ DOMAIN staffing'.accepted = 1 .. (Len(a) + 1) /\ DOMAIN a = 1 .. Len(a) /\ Len(a) \in Nat
        /\ staffing'.accepted[Len(a) + 1] = i /\ \A j \in DOMAIN a : staffing'.accepted[j] = a[j]
    <3>1. PICK b : b = a OBVIOUS
    <3>2. b \in Seq(Ids(Known)) /\ staffing'.accepted = Append(b, i) BY <2>1, <2>5, <3>1
    <3>3. /\ DOMAIN Append(b, i) = 1 .. (Len(b) + 1) /\ DOMAIN b = 1 .. Len(b) /\ Len(b) \in Nat
          /\ Append(b, i)[Len(b) + 1] = i /\ \A j \in DOMAIN b : Append(b, i)[j] = b[j]
      BY <3>2
    <3> QED BY <3>1, <3>2, <3>3
  <2>10. \A x : Used(x)' <=> Used(x) \/ x = i
    <3>1. \A j \in DOMAIN a : j \in DOMAIN staffing'.accepted BY <2>9
    <3>2. Len(a) + 1 \in DOMAIN staffing'.accepted BY <2>9
    <3>3. \A j \in DOMAIN staffing'.accepted : j \in DOMAIN a \/ j = Len(a) + 1 BY <2>9
    <3> QED BY <2>9, <3>1, <3>2, <3>3 DEF Used
  <2>11. \A j, k \in DOMAIN staffing'.accepted : staffing'.accepted[j] = staffing'.accepted[k] => j = k
    <3>1. \A j, k \in DOMAIN a : a[j] = a[k] => j = k BY <2>6 DEF JoinInv
    <3>2. \A j \in DOMAIN a : a[j] # i BY <2>8 DEF Used
    <3>3. \A j \in DOMAIN staffing'.accepted : j \in DOMAIN a \/ j = Len(a) + 1 BY <2>9
    <3> QED BY <2>9, <3>1, <3>2, <3>3
  <2>12. /\ DOMAIN invitations' = DOMAIN invitations \cup {i} /\ invitations'[i] = Now(w).as
         /\ \A x \in DOMAIN invitations \ {i} : invitations'[x] = invitations[x]
    BY <1>6 DEF With
  <2>13. \A x \in DOMAIN invitations' : Used(x)' => invitations'[x].accepted
    BY <1>2, <2>6, <2>10, <2>12 DEF JoinInv
  <2>14. ASSUME NEW v \in Workers PROVE NewOne(v)'
    <3> SUFFICES ASSUME v # w, At(v, "invite")
                 PROVE  /\ Now(v).id \notin DOMAIN invitations' /\ ~ Used(Now(v).id)'
                        /\ \A x \in Workers : At(x, "accept")' => Now(x)'.invitation # Now(v).id
                        /\ \A x \in Workers \ {v} : At(x, "invite")' => Now(x)'.id # Now(v).id
      BY <1>4 DEF NewOne
    <3>1. Now(v).id # i BY <2>7 DEF NewOne
    <3> QED BY <1>4, <2>7, <2>10, <2>12, <3>1 DEF NewOne
  <2>15. ASSUME NEW v \in Workers PROVE OpenOne(v)'
    <3> SUFFICES ASSUME v # w, At(v, "accept")
                 PROVE  /\ ~ Used(Now(v).invitation)' /\ Now(v).as.org = Now(v).org
                        /\ Now(v).invitation \in DOMAIN invitations' => invitations'[Now(v).invitation].org = Now(v).org
                        /\ \A x \in Workers : At(x, "accept")' /\ Now(x)'.invitation = Now(v).invitation
                                                => Now(x)'.org = Now(v).org
      BY <1>4 DEF OpenOne
    <3>1. Now(v).invitation # i BY <2>6, <2>7 DEF OpenOne
    <3> QED BY <1>4, <2>7, <2>10, <2>12, <3>1 DEF OpenOne
  <2> QED BY <2>11, <2>13, <2>14, <2>15
<1> QED BY <1>3, <1>5, <1>6 DEF JoinInv

\* An invitation is stored or taken back.
LEMMA StoreInvitationJoins ==
  ASSUME DeskInv, JoinInv, NEW w \in Workers, StoreInvitation(w)
  PROVE  JoinInv'
<1> DEFINE i == Now(w).id
<1>1. /\ task[w] # Idle /\ Done(w) /\ UNCHANGED staffing
      /\ \/ At(w, "invite") /\ invitations' = With(invitations, i, Now(w).row)
         \/ At(w, "uninvite") /\ invitations' = Without(invitations, i)
  BY DEF StoreInvitation, At
<1>2. Now(w).do \in CompanyKinds BY <1>1 DEF At, CompanyKinds
<1>3. \A v \in Workers : /\ \A k : At(v, k)' <=> v # w /\ At(v, k)
                         /\ v # w => Now(v)' = Now(v)
  BY <1>1, <1>2, CompanyEnds
<1>4. \A x : Used(x)' <=> Used(x) BY <1>1 DEF Used
<1> SUFFICES ASSUME staffing.raced = {}
             PROVE  /\ \A x \in DOMAIN invitations' : Used(x)' => invitations'[x].accepted
                    /\ \A v \in Workers : NewOne(v)' /\ OpenOne(v)'
  BY <1>1 DEF JoinInv
<1>5. \A v \in Workers : NewOne(v) /\ OpenOne(v) BY DEF JoinInv
<1>6. CASE At(w, "invite") /\ invitations' = With(invitations, i, Now(w).row)
  <2>1. /\ DOMAIN invitations' = DOMAIN invitations \cup {i}
        /\ \A x \in DOMAIN invitations \ {i} : invitations'[x] = invitations[x]
    BY <1>6 DEF With
  <2>2. ~ Used(i) BY <1>5, <1>6 DEF NewOne
  <2>3. \A v \in Workers \ {w} : /\ At(v, "invite") => Now(v).id # i
                                 /\ At(v, "accept") => Now(v).invitation # i
    BY <1>5, <1>6 DEF NewOne
  <2>4. \A x \in DOMAIN invitations' : Used(x)' => invitations'[x].accepted BY <1>4, <2>1, <2>2 DEF JoinInv
  <2>5. \A v \in Workers : NewOne(v)' BY <1>3, <1>4, <1>5, <2>1, <2>3 DEF NewOne
  <2>6. \A v \in Workers : OpenOne(v)' BY <1>3, <1>4, <1>5, <2>1, <2>3 DEF OpenOne
  <2> QED BY <2>4, <2>5, <2>6
<1>7. CASE invitations' = Without(invitations, i)
  <2>1. /\ DOMAIN invitations' = DOMAIN invitations \ {i}
        /\ \A x \in DOMAIN invitations' : invitations'[x] = invitations[x]
    BY <1>7 DEF Without
  <2>2. \A x \in DOMAIN invitations' : Used(x)' => invitations'[x].accepted BY <1>4, <2>1 DEF JoinInv
  <2>3. \A v \in Workers : NewOne(v)' BY <1>3, <1>4, <1>5, <2>1 DEF NewOne
  <2>4. \A v \in Workers : OpenOne(v)' BY <1>3, <1>4, <1>5, <2>1 DEF OpenOne
  <2> QED BY <2>2, <2>3, <2>4
<1> QED BY <1>1, <1>6, <1>7

\* A plan of one statement adds that one.
LEMMA OneTurns == ASSUME DeskInv, NEW w \in Workers, NEW s, One(w, s) PROVE Turns({s.do})
<1>1. DOMAIN task = Workers BY DEF DeskInv, RequestsOK
<1>2. \A v \in Workers : task'[v] = IF v = w THEN <<s>> ELSE task[v] BY <1>1 DEF One
<1>3. \A i \in DOMAIN <<s>> : <<s>>[i].do \in {s.do} OBVIOUS
<1> QED BY <1>2, <1>3 DEF Turns

\* What is drawn next is new to the invitations, to the members and to what is to be done with them.
LEMMA TokenIsNew ==
  ASSUME DeskInv
  PROVE  /\ Token \notin DOMAIN invitations /\ Token \notin DOMAIN members /\ ~ Used(Token)
         /\ \A v \in Workers : /\ At(v, "invite") \/ At(v, "accept") \/ At(v, "member") \/ At(v, "dropMember") \/ At(v, "found")
                                    => Now(v).id # Token
                               /\ At(v, "accept") => Now(v).invitation # Token
<1>1. Token \notin Ids(Known)
  <2>1. Ids(Known) = 1 .. (Token - 1) /\ Token \in Nat BY DrawnIds, LaterFacts
  <2> QED BY <2>1
<1>2. Token \notin DOMAIN invitations /\ Token \notin DOMAIN members BY <1>1 DEF DeskInv, CompanyTables, Table
<1>3. ~ Used(Token)
  <2>1. staffing.accepted \in Seq(Ids(Known)) BY DEF DeskInv, CompanyTables
  <2> QED BY <1>1, <2>1 DEF Used
<1>4. ASSUME NEW v \in Workers, At(v, "invite") \/ At(v, "accept") \/ At(v, "member") \/ At(v, "dropMember") \/ At(v, "found")
      PROVE  Now(v).id # Token
  <2>1. Now(v) \in CompanySteps(Known) BY <1>4, Statement DEF At, CompanyKinds
  <2>2. /\ At(v, "found") => Now(v) \in Founds(Known)
        /\ At(v, "member") => Now(v) \in MemberSaves(Known)
        /\ At(v, "dropMember") => Now(v) \in MemberDrops(Known)
        /\ At(v, "accept") => Now(v) \in Accepts(Known)
        /\ At(v, "invite") => Now(v) \in [do : {"invite"}, id : Ids(Known), row : InvitationRows(Known)]
    BY <2>1, KindsOfCompany DEF At
  <2>3. Now(v).id \in Ids(Known) BY <1>4, <2>2 DEF Founds, MemberSaves, MemberDrops, Accepts
  <2> QED BY <1>1, <2>3
<1>5. ASSUME NEW v \in Workers, At(v, "accept") PROVE Now(v).invitation # Token
  <2>1. Now(v) \in Accepts(Known) BY <1>5, Statement, KindsOfCompany DEF At, CompanyKinds
  <2> QED BY <1>1, <2>1 DEF Accepts
<1> QED BY <1>2, <1>3, <1>4, <1>5

\* A request for a new invitation, or to accept one.
LEMMA RequestJoins ==
  ASSUME DeskInv, JoinInv, NEW w \in Workers, NEW s, One(w, s), Inviting(s) \/ Joining(s),
         UNCHANGED <<invitations, staffing>>
  PROVE  JoinInv'
<1>1. \A v \in Workers : /\ \A k : At(v, k)' <=> IF v = w THEN s.do = k ELSE At(v, k)
                         /\ Now(v)' = IF v = w THEN s ELSE Now(v)
  BY OneHead
<1>2. ~ At(w, "invite") /\ ~ At(w, "accept") BY DEF One, At
<1>3. \A x : Used(x)' <=> Used(x) BY DEF Used
<1> SUFFICES ASSUME staffing.raced = {} PROVE \A v \in Workers : NewOne(v)' /\ OpenOne(v)'
  BY <1>3 DEF JoinInv
<1>4. \A v \in Workers : NewOne(v) /\ OpenOne(v) BY DEF JoinInv
<1>5. CASE Inviting(s)
  <2>1. s.do = "invite" /\ s.id = Token BY <1>5 DEF Inviting
  <2>2. \A v \in Workers : OpenOne(v)' BY <1>1, <1>3, <1>4, <2>1 DEF OpenOne
  <2>3. ASSUME NEW v \in Workers PROVE NewOne(v)'
    <3>1. CASE v = w BY <1>1, <1>3, <2>1, <3>1, TokenIsNew DEF NewOne
    <3>2. CASE v # w BY <1>1, <1>3, <1>4, <2>1, <3>2, TokenIsNew DEF NewOne
    <3> QED BY <3>1, <3>2
  <2> QED BY <2>2, <2>3
<1>6. CASE Joining(s)
  <2>1. /\ s.do = "accept" /\ s.invitation \in DOMAIN invitations /\ ~ invitations[s.invitation].accepted
        /\ s.org = invitations[s.invitation].org /\ s.as.org = s.org
    BY <1>6 DEF Joining
  <2>2. ~ Used(s.invitation) BY <2>1 DEF JoinInv
  <2>3. \A v \in Workers \ {w} : At(v, "accept") /\ Now(v).invitation = s.invitation => Now(v).org = s.org
    BY <1>4, <2>1 DEF OpenOne
  <2>4. \A v \in Workers : NewOne(v)' BY <1>1, <1>3, <1>4, <2>1 DEF NewOne
  <2>5. ASSUME NEW v \in Workers PROVE OpenOne(v)'
    <3>1. CASE v = w BY <1>1, <1>3, <2>1, <2>2, <2>3, <3>1 DEF OpenOne
    <3>2. CASE v # w BY <1>1, <1>3, <1>4, <2>1, <2>3, <3>2 DEF OpenOne
    <3> QED BY <3>1, <3>2
  <2> QED BY <2>4, <2>5
<1> QED BY <1>5, <1>6

\* Every step keeps what is accepted accepted.
LEMMA JoinKeeps == ASSUME DeskInv, DeskInv', JoinInv, [Next]_vars PROVE JoinInv'
<1>1. ASSUME NEW K, Turns(K), "invite" \notin K, "accept" \notin K, UNCHANGED <<invitations, staffing>> PROVE JoinInv'
  BY <1>1, JoinStays
<1>2. CASE UNCHANGED vars
  <2>1. UNCHANGED <<invitations, staffing>> BY <1>2 DEF vars, company
  <2> QED BY <1>1, <1>2, <2>1, StepTurns
<1>3. ASSUME NEW w \in Workers, NEW s, One(w, s), UNCHANGED company,
             Founding(s) \/ Adding(s) \/ Changing(s) \/ Dropping(s) \/ Inviting(s) \/ Joining(s)
      PROVE  JoinInv'
  <2>1. UNCHANGED <<invitations, staffing>> BY <1>3 DEF company
  <2>2. CASE Inviting(s) \/ Joining(s) BY <1>3, <2>1, <2>2, RequestJoins
  <2>3. CASE Founding(s) \/ Adding(s) \/ Changing(s) \/ Dropping(s)
    <3>1. Turns({s.do}) BY <1>3, OneTurns
    <3>2. s.do # "invite" /\ s.do # "accept" BY <2>3 DEF Founding, Adding, Changing, Dropping
    <3>3. PICK K : K = {s.do} OBVIOUS
    <3> QED BY <1>1, <2>1, <3>1, <3>2, <3>3
  <2> QED BY <1>3, <2>2, <2>3
<1>4. ASSUME NEW w \in Workers, CompanyStep(w) PROVE JoinInv'
  <2>1. Turns({}) BY <1>4, StepTurns
  <2>2. PICK K : K = {} OBVIOUS
  <2>3. CASE FoundOrganization(w) \/ StoreOrganization(w)
    <3>1. UNCHANGED <<invitations, staffing>> BY <2>3 DEF FoundOrganization, StoreOrganization
    <3> QED BY <1>1, <2>1, <2>2, <3>1
  <2>4. CASE DropMember(w)
    <3>1. UNCHANGED invitations /\ staffing' = Staffed(w, Now(w).org, FALSE) BY <2>4 DEF DropMember
    <3>2. staffing'.accepted = staffing.accepted /\ staffing.raced \subseteq staffing'.raced BY <3>1, StaffedNotes
    <3> QED BY <2>1, <2>2, <3>1, <3>2, JoinStays
  <2>5. CASE StoreMember(w) /\ ~ At(w, "accept")
    <3>1. /\ UNCHANGED invitations
          /\ UNCHANGED staffing \/ staffing' = Staffed(w, Now(w).row.org, Now(w).change = "demote")
      BY <2>5 DEF StoreMember, At
    <3>2. staffing'.accepted = staffing.accepted /\ staffing.raced \subseteq staffing'.raced BY <3>1, StaffedNotes
    <3> QED BY <2>1, <2>2, <3>1, <3>2, JoinStays
  <2> QED BY <1>4, <2>3, <2>4, <2>5, AcceptJoins, StoreInvitationJoins DEF CompanyStep
<1>5. ASSUME Turns(AccountKinds), UNCHANGED company PROVE JoinInv'
  <2>1. "invite" \notin AccountKinds /\ "accept" \notin AccountKinds BY DEF AccountKinds
  <2> QED BY <1>1, <1>5, <2>1 DEF company
<1>6. ASSUME Turns(OtherKinds), UNCHANGED company PROVE JoinInv'
  <2>1. "invite" \notin OtherKinds /\ "accept" \notin OtherKinds BY DEF OtherKinds
  <2> QED BY <1>1, <1>6, <2>1 DEF company
<1>7. ASSUME Turns(FleetKinds) \/ Turns({}) \/ Turns(BenchKinds), UNCHANGED company PROVE JoinInv'
  <2>1. /\ "invite" \notin FleetKinds /\ "accept" \notin FleetKinds /\ "invite" \notin {} /\ "accept" \notin {}
        /\ "invite" \notin BenchKinds /\ "accept" \notin BenchKinds
    BY DEF FleetKinds, BenchKinds, DeskKinds
  <2> QED BY <1>1, <1>7, <2>1 DEF company
<1>8. CASE Elsewhere
  <2>1. CASE AccountsNext /\ UNCHANGED company BY <1>5, <2>1, StepTurns
  <2>2. ASSUME NEW w \in Workers, NEW a \in Users, CompanyRequest(w, a) PROVE JoinInv'
    BY <1>3, <1>6, <2>2, CompanyForms
  <2>3. ASSUME NEW w \in Workers, FleetRequest(w) PROVE JoinInv' BY <1>3, <1>7, <2>3, FleetForms
  <2>4. ASSUME NEW w \in Workers, StoreDevice(w) \/ SetColumns(w) \/ DropDevice(w) PROVE JoinInv'
    <3>1. UNCHANGED company BY <2>4 DEF StoreDevice, SetColumns, DropDevice
    <3> QED BY <1>7, <2>4, <3>1, StepTurns
  <2> QED BY <1>4, <1>8, <2>1, <2>2, <2>3, <2>4 DEF Elsewhere, FleetNext, MembershipsNext
<1>9. ASSUME NEW w \in Workers, DeskRequest(w) \/ PrinterRequest(w) \/ DeskStep(w) PROVE JoinInv'
  <2>1. CASE DeskStep(w)
    <3>1. UNCHANGED company
      BY <2>1 DEF DeskStep, StoreHardware, StoreRental, StorePrinter, RemovePrinters, SyncPrinter, MoveDevice
    <3> QED BY <1>7, <2>1, <3>1, StepTurns
  <2>2. CASE DeskRequest(w) \/ PrinterRequest(w)
    <3>1. \E n \in 0 .. 2 : \E todo : DeskPlan(w, n, todo) BY <2>2, DeskRequests
    <3>2. UNCHANGED company BY <3>1 DEF DeskPlan, Serve, Call, Ask
    <3> QED BY <1>7, <2>2, <3>2, StepTurns
  <2> QED BY <1>9, <2>1, <2>2
<1> QED BY <1>2, <1>8, <1>9 DEF Next

\* An invitation is good for one membership (AcceptedOnce): not again for one who was
\* removed since or who took over the address (acceptInvitation, getInvitationByToken),
\* for any number of requests and stops, unless changes of the members overlapped.
THEOREM InvitationsAcceptedOnce == Spec => []AcceptedOnce
<1>1. Init => JoinInv
  <2> SUFFICES ASSUME Init PROVE JoinInv OBVIOUS
  <2>1. DOMAIN staffing.accepted = {} /\ DOMAIN invitations = {} BY DEF Init, Empty
  <2>2. \A v \in Workers : task[v] = Idle BY DEF Init, RequestsInit
  <2>3. \A v \in Workers : NewOne(v) /\ OpenOne(v) BY <2>2 DEF NewOne, OpenOne, At
  <2> QED BY <2>1, <2>3 DEF JoinInv
<1>2. DeskInv /\ DeskInv' /\ JoinInv /\ [Next]_vars => JoinInv' BY JoinKeeps
<1>3. JoinInv => AcceptedOnce BY DEF JoinInv, AcceptedOnce
<1> QED BY <1>1, <1>2, <1>3, DeskInOrder, PTL DEF Spec

-----------------------------------------------------------------------------
(* Administrators.  What is about to change the members of an organization leaves it  *)
(* one: it makes one, or there is another.  Two statements for one membership are of  *)
(* one organization, so that a race of them is noted for it.                         *)

Alters == {"member", "dropMember", "accept"}
Fills == Alters \cup {"found"}
InOne(v) ==
  \A k \in Fills : At(v, k) =>
    /\ Now(v).id \in DOMAIN members => members[Now(v).id].org = Now(v).org
    /\ \A x \in Workers, l \in Fills : At(x, l) /\ Now(x).id = Now(v).id => Now(x).org = Now(v).org
Makes(s) == (s.do = "member" /\ (s.row.admin \/ s.change = "demote")) \/ (s.do = "accept" /\ s.row.admin)
Leaves(s, A) == Makes(s) \/ \E m \in A : m # s.id
StaffInv ==
  /\ \A v \in Workers : InOne(v)
  /\ \A o \in Settled :
       /\ Admins(o) # {}
       /\ \A v \in Workers, k \in Alters : At(v, k) /\ Now(v).org = o => Leaves(Now(v), Admins(o))

\* Steps that have nothing to do with members.
LEMMA StaffStays ==
  ASSUME DeskInv, DeskInv', StaffInv, NEW K, Turns(K), K \cap Fills = {}, UNCHANGED <<members, staffing>>,
         DOMAIN organizations' = DOMAIN organizations
  PROVE  StaffInv'
<1>1. \A v \in Workers, k \in Fills : At(v, k)' => At(v, k) /\ Now(v)' = Now(v)
  <2> SUFFICES ASSUME NEW v \in Workers, NEW k \in Fills, At(v, k)' PROVE At(v, k) /\ Now(v)' = Now(v) OBVIOUS
  <2>1. k \in CompanyKinds \ K BY DEF CompanyKinds, Fills, Alters
  <2> QED BY <2>1, HeadStays
<1>2. \A o : Admins(o)' = Admins(o) BY DEF Admins, Of
<1>3. Alters \subseteq Fills BY DEF Fills
<1>4. \A v \in Workers : InOne(v)' BY <1>1 DEF StaffInv, InOne
<1>5. Settled' = Settled BY DEF Settled
<1>7. ASSUME NEW o \in Settled, NEW v \in Workers, NEW k \in Alters, At(v, k)', Now(v)'.org = o
      PROVE  Leaves(Now(v), Admins(o))'
  <2>1. At(v, k) /\ Now(v)' = Now(v) BY <1>1, <1>3, <1>7
  <2>2. Leaves(Now(v), Admins(o)) BY <1>7, <2>1 DEF StaffInv
  <2> QED BY <1>2, <2>1, <2>2
<1> QED BY <1>2, <1>4, <1>5, <1>7 DEF StaffInv

\* Where more than one is an administrator there is another one.
LEMMA AnotherAdmin == ASSUME NEW o, NEW m, Cardinality(Admins(o)) > 1 PROVE Admins(o) \ {m} # {}
<1> SUFFICES ASSUME Admins(o) \subseteq {m} PROVE FALSE OBVIOUS
<1>1. Admins(o) = {} \/ Admins(o) = {m} OBVIOUS
<1>2. Cardinality(Admins(o)) \in {0, 1} BY <1>1, FS_EmptySet, FS_Singleton
<1> QED BY <1>2

\* A statement about members is about one of the organizations.
LEMMA AltersKnown ==
  ASSUME DeskInv, NEW v \in Workers
  PROVE  /\ \A k \in Alters : At(v, k) => Now(v).org \in DOMAIN organizations
         /\ At(v, "member") \/ At(v, "accept") => Now(v).row.org = Now(v).org
<1>1. ASSUME NEW k \in Alters, At(v, k) PROVE Now(v).org \in DOMAIN organizations
  <2>1. Now(v) \in CompanySteps(Known) BY <1>1, Statement DEF At, Alters, CompanyKinds
  <2>2. /\ At(v, "member") => Now(v) \in MemberSaves(Known)
        /\ At(v, "dropMember") => Now(v) \in MemberDrops(Known)
        /\ At(v, "accept") => Now(v) \in Accepts(Known)
    BY <2>1, KindsOfCompany DEF At
  <2>3. Now(v).org \in Known.orgs BY <1>1, <2>2 DEF Alters, MemberSaves, MemberDrops, Accepts
  <2> QED BY <2>3 DEF Known
<1>2. ASSUME At(v, "member") \/ At(v, "accept") PROVE Now(v).row.org = Now(v).org
  <2>1. Now(v) \in CompanySteps(Known) BY <1>2, Statement DEF At, CompanyKinds
  <2>2. /\ At(v, "member") => Now(v) \in MemberSaves(Known)
        /\ At(v, "accept") => Now(v) \in Accepts(Known)
    BY <2>1, KindsOfCompany DEF At
  <2> QED BY <1>2, <2>2 DEF MemberSaves, Accepts
<1> QED BY <1>1, <1>2

\* A request that is about to change members.
LEMMA RequestStaffs ==
  ASSUME DeskInv, StaffInv, NEW w \in Workers, NEW s, One(w, s), UNCHANGED company,
         Founding(s) \/ Adding(s) \/ Changing(s) \/ Dropping(s) \/ Joining(s)
  PROVE  StaffInv'
<1>1. \A v \in Workers : /\ \A k : At(v, k)' <=> IF v = w THEN s.do = k ELSE At(v, k)
                         /\ Now(v)' = IF v = w THEN s ELSE Now(v)
  BY OneHead
<1>2. UNCHANGED <<members, staffing, organizations>> BY DEF company
<1>3. s.id \in DOMAIN members => s.org = members[s.id].org
  <2>1. Token \notin DOMAIN members BY TokenIsNew
  <2> QED BY <2>1 DEF Founding, Adding, Changing, Dropping, Joining
<1>4. \A v \in Workers, k \in Fills : At(v, k) /\ Now(v).id = s.id => Now(v).org = s.org
  <2>1. CASE s.id = Token BY <2>1, TokenIsNew DEF Fills, Alters
  <2>2. CASE s.id \in DOMAIN members BY <1>3, <2>2 DEF StaffInv, InOne
  <2> QED BY <2>1, <2>2 DEF Founding, Adding, Changing, Dropping, Joining
<1>5. ASSUME NEW v \in Workers PROVE InOne(v)'
  <2>1. InOne(v) BY DEF StaffInv
  <2>2. CASE v = w BY <1>1, <1>2, <1>3, <1>4, <2>2 DEF InOne
  <2>3. CASE v # w BY <1>1, <1>2, <1>4, <2>1, <2>3 DEF InOne
  <2> QED BY <2>2, <2>3
<1>6. \A o : Admins(o)' = Admins(o) BY <1>2 DEF Admins, Of
<1>7. Settled' = Settled BY <1>2 DEF Settled
<1>9. s.do \in Alters /\ s.org \in Settled => Leaves(s, Admins(s.org))
  <2> SUFFICES ASSUME s.do \in Alters, s.org \in Settled PROVE Leaves(s, Admins(s.org)) OBVIOUS
  <2>1. Admins(s.org) # {} BY DEF StaffInv
  <2>2. CASE Adding(s) \/ Joining(s)
    <3>1. s.id \notin Admins(s.org) BY <2>2, TokenIsNew DEF Adding, Joining, Admins, Of
    <3> QED BY <2>1, <3>1 DEF Leaves
  <2>3. CASE Changing(s)
    <3>1. ~ members[s.id].admin => s.id \notin Admins(s.org) BY DEF Admins
    <3> QED BY <2>1, <2>3, <3>1, AnotherAdmin DEF Changing, Leaves, Makes
  <2>4. CASE Dropping(s)
    <3>1. ~ members[s.id].admin => s.id \notin Admins(s.org) BY DEF Admins
    <3> QED BY <2>1, <2>4, <3>1, AnotherAdmin DEF Dropping, Leaves
  <2> QED BY <2>2, <2>3, <2>4 DEF Founding, Alters
<1>10. ASSUME NEW o \in Settled, NEW v \in Workers, NEW k \in Alters, At(v, k)', Now(v)'.org = o
       PROVE  Leaves(Now(v), Admins(o))'
  <2>1. CASE v = w BY <1>1, <1>6, <1>9, <1>10, <2>1
  <2>2. CASE v # w
    <3>1. At(v, k) /\ Now(v)' = Now(v) BY <1>1, <1>10, <2>2
    <3>2. Leaves(Now(v), Admins(o)) BY <1>10, <3>1 DEF StaffInv
    <3> QED BY <1>6, <3>1, <3>2
  <2> QED BY <2>1, <2>2
<1> QED BY <1>5, <1>6, <1>7, <1>10 DEF StaffInv

\* An organization is founded with its administrator.
LEMMA FoundingStaffs ==
  ASSUME DeskInv, StaffInv, NEW w \in Workers, FoundOrganization(w)
  PROVE  StaffInv'
<1> DEFINE g == Now(w).org
           m == Now(w).id
<1>1. task[w] # Idle /\ Now(w).do \in CompanyKinds /\ At(w, "found") /\ (Done(w) \/ Fail(w)) /\ UNCHANGED staffing
  BY DEF FoundOrganization, At, CompanyKinds
<1>2. \A v \in Workers : /\ \A k : At(v, k)' <=> v # w /\ At(v, k)
                         /\ v # w => Now(v)' = Now(v)
  BY <1>1, CompanyEnds
<1>3. CASE UNCHANGED <<organizations, members>>
  <2>1. \A o : Admins(o)' = Admins(o) BY <1>3 DEF Admins, Of
  <2>3. \A v \in Workers : InOne(v)' BY <1>2, <1>3 DEF StaffInv, InOne
  <2>4. Settled' = Settled BY <1>1, <1>3 DEF Settled
  <2>5. ASSUME NEW o \in Settled, NEW v \in Workers, NEW k \in Alters, At(v, k)', Now(v)'.org = o
        PROVE  Leaves(Now(v), Admins(o))'
    <3>1. At(v, k) /\ Now(v)' = Now(v) BY <1>2, <2>5
    <3>2. Leaves(Now(v), Admins(o)) BY <2>5, <3>1 DEF StaffInv
    <3> QED BY <2>1, <3>1, <3>2
  <2> QED BY <2>1, <2>3, <2>4, <2>5 DEF StaffInv
<1>4. CASE /\ g \notin DOMAIN organizations
           /\ organizations' = With(organizations, g, [live |-> TRUE, credential |-> None])
           /\ members' = With(members, m, Member(Now(w).user, g, TRUE, FALSE))
  <2>1. DOMAIN organizations' = DOMAIN organizations \cup {g} BY <1>4 DEF With
  <2>2. /\ DOMAIN members' = DOMAIN members \cup {m} /\ members'[m].org = g /\ members'[m].admin
        /\ \A x \in DOMAIN members \ {m} : members'[x] = members[x]
    BY <1>4 DEF With, Member
  <2>3. InOne(w) BY DEF StaffInv
  <2>4. \A x \in DOMAIN members : members[x].org \in DOMAIN organizations
    <3>1. \A x \in DOMAIN members : members[x] \in MemberRows(Known) BY DEF DeskInv, CompanyTables, Table
    <3> QED BY <3>1 DEF MemberRows, Known
  <2>5. m \notin DOMAIN members BY <1>1, <1>4, <2>3, <2>4 DEF InOne, Fills
  <2>6. \A o \in DOMAIN organizations : Admins(o)' = Admins(o)
    <3> SUFFICES ASSUME NEW o \in DOMAIN organizations PROVE Admins(o)' = Admins(o) OBVIOUS
    <3>1. o # g BY <1>4
    <3>2. \A x : x \in Admins(o)' <=> x \in DOMAIN members' /\ members'[x].org = o /\ members'[x].admin BY DEF Admins, Of
    <3>3. \A x : x \in Admins(o) <=> x \in DOMAIN members /\ members[x].org = o /\ members[x].admin BY DEF Admins, Of
    <3>4. \A x : x \in Admins(o)' <=> x \in Admins(o) BY <2>2, <2>5, <3>1, <3>2, <3>3
    <3> QED BY <3>4
  <2>7. \A o : o = g => m \in Admins(o)' BY <2>2 DEF Admins, Of
  <2>8. ASSUME NEW v \in Workers PROVE InOne(v)'
    <3> SUFFICES ASSUME NEW k \in Fills, v # w, At(v, k)
                 PROVE  /\ Now(v).id \in DOMAIN members' => members'[Now(v).id].org = Now(v).org
                        /\ \A x \in Workers, l \in Fills : At(x, l)' /\ Now(x)'.id = Now(v).id => Now(x)'.org = Now(v).org
      BY <1>2 DEF InOne
    <3>1. InOne(v) /\ InOne(w) BY DEF StaffInv
    <3>2. Now(v).id = m => Now(v).org = g BY <1>1, <3>1 DEF InOne, Fills
    <3> QED BY <1>2, <2>2, <3>1, <3>2 DEF InOne
  <2>9. \A o \in Settled' : o \in Settled \/ o = g BY <1>1, <2>1 DEF Settled
  <2>10. ASSUME NEW o \in Settled', NEW v \in Workers, NEW k \in Alters, At(v, k)', Now(v)'.org = o
         PROVE  Leaves(Now(v), Admins(o))'
    <3>1. At(v, k) /\ Now(v)' = Now(v) BY <1>2, <2>10
    <3>2. o \in DOMAIN organizations BY <2>10, <3>1, AltersKnown
    <3>3. o \in Settled BY <1>4, <2>9, <2>10, <3>2
    <3>4. Leaves(Now(v), Admins(o)) BY <2>10, <3>1, <3>3 DEF StaffInv
    <3> QED BY <2>6, <3>1, <3>2, <3>4
  <2>11. ASSUME NEW o \in Settled' PROVE Admins(o)' # {}
    <3>1. CASE o = g BY <2>7, <3>1
    <3>2. CASE o # g
      <4>1. o \in Settled BY <2>9, <2>11, <3>2
      <4>2. o \in DOMAIN organizations /\ Admins(o) # {} BY <4>1 DEF StaffInv, Settled
      <4> QED BY <2>6, <4>2
    <3> QED BY <3>1, <3>2
  <2> QED BY <2>8, <2>10, <2>11 DEF StaffInv
<1> QED BY <1>1, <1>3, <1>4 DEF FoundOrganization

\* A statement about members: those of other organizations stay as they are, and its own
\* is noted where another one is about to follow.
LEMMA AlterStaffs ==
  ASSUME DeskInv, StaffInv, NEW w \in Workers, NEW k \in Alters, At(w, k), Done(w),
         NEW demoted, staffing'.raced = Staffed(w, Now(w).org, demoted).raced,
         staffing'.demoted = Staffed(w, Now(w).org, demoted).demoted, UNCHANGED organizations,
         \A x \in DOMAIN members \ {Now(w).id} : x \in DOMAIN members' /\ members'[x] = members[x],
         \A x \in DOMAIN members' : x \in DOMAIN members \/ x = Now(w).id,
         Now(w).id \in DOMAIN members' => members'[Now(w).id].org = Now(w).org,
         ~ demoted /\ Leaves(Now(w), Admins(Now(w).org)) => \E x \in DOMAIN members' : members'[x].org = Now(w).org /\ members'[x].admin
  PROVE  StaffInv'
<1> DEFINE g == Now(w).org
           m == Now(w).id
<1>1. task[w] # Idle /\ Now(w).do \in CompanyKinds /\ k \in Fills BY DEF At, Alters, Fills, CompanyKinds
<1>2. \A v \in Workers : /\ \A l : At(v, l)' <=> v # w /\ At(v, l)
                         /\ v # w => Now(v)' = Now(v)
  BY <1>1, CompanyEnds
<1>3. InOne(w) BY DEF StaffInv
<1>4. m \in DOMAIN members => members[m].org = g BY <1>1, <1>3 DEF InOne
<1>5. \A o : o # g => Admins(o)' = Admins(o) BY <1>4 DEF Admins, Of
<1>6. ASSUME NEW v \in Workers PROVE InOne(v)'
  <2> SUFFICES ASSUME NEW f \in Fills, v # w, At(v, f)
               PROVE  /\ Now(v).id \in DOMAIN members' => members'[Now(v).id].org = Now(v).org
                      /\ \A x \in Workers, l \in Fills : At(x, l)' /\ Now(x)'.id = Now(v).id => Now(x)'.org = Now(v).org
    BY <1>2 DEF InOne
  <2>1. InOne(v) BY DEF StaffInv
  <2>2. Now(v).id = m => Now(v).org = g BY <1>1, <2>1 DEF InOne
  <2> QED BY <1>2, <2>1, <2>2 DEF InOne
<1>7. /\ staffing.raced \subseteq staffing'.raced /\ staffing.demoted \subseteq staffing'.demoted
      /\ demoted => g \in staffing'.demoted
      /\ \A v \in Workers \ {w} : \A l \in Alters : At(v, l) /\ Now(v).org = g => g \in staffing'.raced
  BY StaffedNotes DEF Alters
<1>8. Settled' \subseteq Settled BY <1>7 DEF Settled
<1>9. ASSUME NEW o \in Settled', NEW v \in Workers, NEW l \in Alters, At(v, l)', Now(v)'.org = o
      PROVE  Leaves(Now(v), Admins(o))'
  <2>1. v # w /\ At(v, l) /\ Now(v)' = Now(v) BY <1>2, <1>9
  <2>2. o # g BY <1>7, <1>9, <2>1 DEF Settled
  <2>3. Leaves(Now(v), Admins(o)) BY <1>8, <1>9, <2>1 DEF StaffInv
  <2> QED BY <1>5, <2>1, <2>2, <2>3
<1>10. ASSUME NEW o \in Settled' PROVE Admins(o)' # {}
  <2>1. CASE o = g
    <3>1. ~ demoted BY <1>7, <1>10, <2>1 DEF Settled
    <3>2. Leaves(Now(w), Admins(g)) BY <1>8, <1>10, <2>1 DEF StaffInv
    <3>3. \E x \in DOMAIN members' : members'[x].org = g /\ members'[x].admin BY <3>1, <3>2
    <3> QED BY <2>1, <3>3 DEF Admins, Of
  <2>2. CASE o # g BY <1>5, <1>8, <1>10, <2>2 DEF StaffInv
  <2> QED BY <2>1, <2>2
<1> QED BY <1>6, <1>9, <1>10 DEF StaffInv

\* A membership is stored or dropped.
LEMMA MemberStaffs ==
  ASSUME DeskInv, StaffInv, NEW w \in Workers, StoreMember(w) \/ DropMember(w)
  PROVE  StaffInv'
<1> DEFINE g == Now(w).org
           m == Now(w).id
<1>1. CASE DropMember(w)
  <2>1. /\ At(w, "dropMember") /\ Done(w) /\ UNCHANGED organizations /\ staffing' = Staffed(w, g, FALSE)
        /\ members' = Without(members, m)
    BY <1>1 DEF DropMember
  <2>2. DOMAIN members' = DOMAIN members \ {m} /\ \A x \in DOMAIN members' : members'[x] = members[x]
    BY <2>1 DEF Without
  <2>3. Leaves(Now(w), Admins(g)) => \E x \in DOMAIN members' : members'[x].org = g /\ members'[x].admin
    BY <2>1, <2>2 DEF At, Leaves, Makes, Admins, Of
  <2>4. PICK k \in Alters : k = "dropMember" BY DEF Alters
  <2> QED BY <2>1, <2>2, <2>3, <2>4, AlterStaffs
<1>2. CASE StoreMember(w)
  <2>1. /\ At(w, "member") \/ At(w, "accept")
        /\ \/ Clash(m, Now(w).row) /\ Fail(w) /\ UNCHANGED <<members, staffing>>
           \/ ~ Clash(m, Now(w).row) /\ Done(w) /\ members' = With(members, m, Now(w).row)
    BY <1>2 DEF StoreMember
  <2>2. PICK k \in Alters : At(w, k) BY <2>1 DEF Alters
  <2>3. task[w] # Idle /\ Now(w).do \in CompanyKinds BY <2>2 DEF At, Alters, CompanyKinds
  <2>4. Now(w).row.org = g BY <2>1, AltersKnown
  <2>5. UNCHANGED organizations BY <1>2 DEF StoreMember
  <2>6. CASE Fail(w) /\ UNCHANGED <<members, staffing>>
    <3>1. \A v \in Workers : /\ \A l : At(v, l)' <=> v # w /\ At(v, l)
                             /\ v # w => Now(v)' = Now(v)
      BY <2>3, <2>6, CompanyEnds
    <3>2. \A o : Admins(o)' = Admins(o) BY <2>6 DEF Admins, Of
    <3>4. \A v \in Workers : InOne(v)' BY <2>6, <3>1 DEF StaffInv, InOne
    <3>5. Settled' = Settled BY <2>5, <2>6 DEF Settled
    <3>6. ASSUME NEW o \in Settled, NEW v \in Workers, NEW l \in Alters, At(v, l)', Now(v)'.org = o
          PROVE  Leaves(Now(v), Admins(o))'
      <4>1. At(v, l) /\ Now(v)' = Now(v) BY <3>1, <3>6
      <4>2. Leaves(Now(v), Admins(o)) BY <3>6, <4>1 DEF StaffInv
      <4> QED BY <3>2, <4>1, <4>2
    <3> QED BY <3>2, <3>4, <3>5, <3>6 DEF StaffInv
  <2>7. CASE ~ Clash(m, Now(w).row)
    <3>1. PICK demoted \in BOOLEAN : demoted <=> Now(w).do = "member" /\ Now(w).change = "demote" OBVIOUS
    <3>2. /\ staffing'.raced = Staffed(w, g, demoted).raced
          /\ staffing'.demoted = Staffed(w, g, demoted).demoted
      <4>1. CASE Now(w).do = "accept"
        <5>1. staffing' = [Staffed(w, g, FALSE) EXCEPT !.accepted = Append(@, Now(w).invitation)]
          BY <1>2, <2>4, <2>7, <4>1 DEF StoreMember
        <5>2. demoted = FALSE BY <3>1, <4>1
        <5> QED BY <5>1, <5>2 DEF Staffed
      <4>2. CASE Now(w).do # "accept"
        <5>1. Now(w).do = "member" BY <2>1, <4>2 DEF At
        <5>2. staffing' = Staffed(w, g, Now(w).change = "demote")
          BY <1>2, <2>4, <2>7, <4>2 DEF StoreMember
        <5>3. demoted = (Now(w).change = "demote") BY <3>1, <5>1
        <5> QED BY <5>2, <5>3
      <4> QED BY <4>1, <4>2
    <3>3. /\ DOMAIN members' = DOMAIN members \cup {m} /\ members'[m] = Now(w).row
          /\ \A x \in DOMAIN members \ {m} : members'[x] = members[x]
      BY <2>1, <2>7 DEF With
    <3>4. ~ demoted /\ Leaves(Now(w), Admins(g)) => \E x \in DOMAIN members' : members'[x].org = g /\ members'[x].admin
      <4> SUFFICES ASSUME ~ demoted, Leaves(Now(w), Admins(g)), ~ Now(w).row.admin
                   PROVE  \E x \in DOMAIN members' : members'[x].org = g /\ members'[x].admin
        BY <2>4, <3>3
      <4>1. Admins(g) \ {m} # {} BY <3>1 DEF Leaves, Makes
      <4> QED BY <3>3, <4>1 DEF Admins, Of
    <3> QED BY <2>1, <2>2, <2>4, <2>5, <2>7, <3>2, <3>3, <3>4, AlterStaffs
  <2> QED BY <2>1, <2>6, <2>7
<1> QED BY <1>1, <1>2

\* Every step leaves an administrator.
LEMMA StaffKeeps == ASSUME DeskInv, DeskInv', StaffInv, [Next]_vars PROVE StaffInv'
<1>1. ASSUME NEW K, Turns(K), K \cap Fills = {}, UNCHANGED <<members, staffing, organizations>> PROVE StaffInv'
  BY <1>1, StaffStays
<1>2. /\ AccountKinds \cap Fills = {} /\ OtherKinds \cap Fills = {} /\ FleetKinds \cap Fills = {}
      /\ BenchKinds \cap Fills = {} /\ {} \cap Fills = {} /\ {"invite"} \cap Fills = {}
  BY DEF AccountKinds, OtherKinds, FleetKinds, BenchKinds, DeskKinds, Fills, Alters
<1>3. ASSUME UNCHANGED company,
             Turns(AccountKinds) \/ Turns(OtherKinds) \/ Turns(FleetKinds) \/ Turns(BenchKinds) \/ Turns({})
               \/ Turns({"invite"})
      PROVE  StaffInv'
  <2>1. UNCHANGED <<members, staffing, organizations>> BY <1>3 DEF company
  <2> QED BY <1>1, <1>2, <1>3, <2>1
<1>4. CASE UNCHANGED vars
  <2>1. UNCHANGED company BY <1>4 DEF vars
  <2> QED BY <1>3, <1>4, <2>1, StepTurns
<1>5. ASSUME NEW w \in Workers, NEW s, One(w, s), UNCHANGED company,
             Founding(s) \/ Adding(s) \/ Changing(s) \/ Dropping(s) \/ Inviting(s) \/ Joining(s)
      PROVE  StaffInv'
  <2>1. CASE Inviting(s)
    <3>1. Turns({s.do}) /\ s.do = "invite" BY <1>5, <2>1, OneTurns DEF Inviting
    <3>2. Turns({"invite"}) BY <3>1
    <3> QED BY <1>3, <1>5, <3>2
  <2> QED BY <1>5, <2>1, RequestStaffs
<1>6. ASSUME NEW w \in Workers, CompanyStep(w) PROVE StaffInv'
  <2>1. Turns({}) BY <1>6, StepTurns
  <2>2. CASE StoreOrganization(w)
    <3>1. UNCHANGED <<members, staffing>> BY <2>2 DEF StoreOrganization
    <3>2. DOMAIN organizations' = DOMAIN organizations
      <4>1. CASE At(w, "close")
        <5>1. organizations' = [organizations EXCEPT ![Now(w).org].live = FALSE]
          BY <2>2, <4>1 DEF StoreOrganization, At
        <5> QED BY <5>1
      <4>2. CASE At(w, "organization")
        <5>1. Now(w) \in OrgSaves(Known) BY <4>2, Statement, KindsOfCompany DEF At, CompanyKinds
        <5>2. Now(w).org \in DOMAIN organizations BY <5>1 DEF OrgSaves, Known
        <5>3. organizations' = With(organizations, Now(w).org, Now(w).row) \/ UNCHANGED organizations
          BY <2>2, <4>2 DEF StoreOrganization, At
        <5> QED BY <5>2, <5>3 DEF With
      <4> QED BY <2>2, <4>1, <4>2 DEF StoreOrganization
    <3>3. PICK K : K = {} OBVIOUS
    <3> QED BY <1>2, <2>1, <3>1, <3>2, <3>3, StaffStays
  <2>3. CASE StoreInvitation(w)
    <3>1. UNCHANGED <<members, staffing, organizations>> BY <2>3 DEF StoreInvitation
    <3>2. PICK K : K = {} OBVIOUS
    <3> QED BY <1>1, <1>2, <2>1, <3>1, <3>2
  <2> QED BY <1>6, <2>2, <2>3, FoundingStaffs, MemberStaffs DEF CompanyStep
<1>7. CASE Elsewhere
  <2>1. CASE AccountsNext /\ UNCHANGED company BY <1>3, <2>1, StepTurns
  <2>2. ASSUME NEW w \in Workers, NEW a \in Users, CompanyRequest(w, a) PROVE StaffInv'
    BY <1>3, <1>5, <2>2, CompanyForms
  <2>3. ASSUME NEW w \in Workers, FleetRequest(w) PROVE StaffInv' BY <1>3, <1>5, <2>3, FleetForms
  <2>4. ASSUME NEW w \in Workers, StoreDevice(w) \/ SetColumns(w) \/ DropDevice(w) PROVE StaffInv'
    <3>1. UNCHANGED company BY <2>4 DEF StoreDevice, SetColumns, DropDevice
    <3> QED BY <1>3, <2>4, <3>1, StepTurns
  <2> QED BY <1>6, <1>7, <2>1, <2>2, <2>3, <2>4 DEF Elsewhere, FleetNext, MembershipsNext
<1>8. ASSUME NEW w \in Workers, DeskRequest(w) \/ PrinterRequest(w) \/ DeskStep(w) PROVE StaffInv'
  <2>1. CASE DeskStep(w)
    <3>1. UNCHANGED company
      BY <2>1 DEF DeskStep, StoreHardware, StoreRental, StorePrinter, RemovePrinters, SyncPrinter, MoveDevice
    <3> QED BY <1>3, <2>1, <3>1, StepTurns
  <2>2. CASE DeskRequest(w) \/ PrinterRequest(w)
    <3>1. \E n \in 0 .. 2 : \E todo : DeskPlan(w, n, todo) BY <2>2, DeskRequests
    <3>2. UNCHANGED company BY <3>1 DEF DeskPlan, Serve, Call, Ask
    <3> QED BY <1>3, <2>2, <3>2, StepTurns
  <2> QED BY <1>8, <2>1, <2>2
<1> QED BY <1>4, <1>7, <1>8 DEF Next

-----------------------------------------------------------------------------
(* Accounts that are erased.  Whoever is still to save one saves it erased, nobody is *)
(* to sign in to it, and its sessions are revoked or the one who erased it is about   *)
(* to revoke them: a plan that erases goes on with that and with nothing else, and a  *)
(* save that may throw is never before the revocation of another account.            *)

Ours == {"user", "session", "revokeAll"}
Bars(u, t) ==
  \A i \in DOMAIN t : /\ t[i].do = "user" => t[i].user # u \/ Anonymous(t[i].row)
                      /\ t[i].do = "session" => t[i].user # u
Whole(t) ==
  \A i \in DOMAIN t : t[i].do = "user" =>
    /\ \A j \in DOMAIN t : t[j].do = "revokeAll" => t[j].user = t[i].user
    /\ t[i].erase => i = 1 /\ t[i].row = Anonymized /\ Len(t) = 2 /\ t[2] = RevokeAll(t[i].user)
Works(u, row) == row.active \/ u \in erasure.done
Lasts(t) == \A i \in DOMAIN t : t[i].do = "user" => t[i].erase \/ Works(t[i].user, t[i].row)
RevokeDue(u) == \E v \in Workers : \E i \in DOMAIN task[v] : task[v][i].do = "revokeAll" /\ task[v][i].user = u
AllRevoked(u) == \A s \in DOMAIN sessions : sessions[s].user = u => sessions[s].revoked
Erased == erasure.done \ erasure.raced
Gone(u) ==
  /\ u \in DOMAIN users /\ Anonymous(users[u])
  /\ \A v \in Workers : Bars(u, task[v])
  /\ RevokeDue(u) \/ AllRevoked(u)
WorkInv == (\A v \in Workers : Lasts(task[v])) /\ \A u \in DOMAIN users : Works(u, users[u])
FoundInv == \A v \in Workers : At(v, "found") => Now(v).row.active
EraseInv ==
  /\ WorkInv
  /\ \A v \in Workers : Whole(task[v])
  /\ \A u \in Erased : Gone(u)

\* A field that is set to what it is.
LEMMA SameField ==
  ASSUME NEW f, f = [x \in DOMAIN f |-> f[x]], NEW k, NEW v, f[k] = v
  PROVE  [f EXCEPT ![k] = v] = f
OBVIOUS

\* An account that was just erased.
LEMMA JustErased == Anonymous(Anonymized)
<1> DEFINE r == [email |-> None, named |-> FALSE, active |-> FALSE, verified |-> FALSE, password |-> FALSE,
                 sso |-> FALSE, verification |-> None, failed |-> 0, lock |-> None, reset |-> None,
                 pending |-> None, change |-> None, method |-> None, secret |-> FALSE, enabled |-> FALSE,
                 codes |-> 0]
<1>1. ASSUME NEW q, q = Anonymized PROVE q = r BY <1>1 DEF Anonymized, NewUser
<1>2. r = [x \in DOMAIN r |-> r[x]] OBVIOUS
<1>3. r.verification = None /\ r.reset = None /\ r.verified = FALSE /\ r.password = FALSE OBVIOUS
<1> HIDE DEF r
<1>4. [r EXCEPT !.verification = None] = r BY <1>2, <1>3, SameField
<1>5. [r EXCEPT !.reset = None] = r BY <1>2, <1>3, SameField
<1>6. [r EXCEPT !.verified = FALSE] = r BY <1>2, <1>3, SameField
<1>7. [r EXCEPT !.password = FALSE] = r BY <1>2, <1>3, SameField
<1>8. [r EXCEPT !.verification = None, !.reset = None, !.verified = FALSE, !.password = FALSE] = r
  BY <1>4, <1>5, <1>6, <1>7
<1> QED BY <1>1, <1>8 DEF Anonymous

\* Statements about one account, none of which erases it or switches it off.
Mine(s, u) == /\ s.do \in Ours => s.user = u
              /\ s.do = "user" => ~ s.erase /\ Works(u, s.row)
Standing(u) == u \notin DOMAIN users \/ ~ Anonymous(users[u])
Careful(t) == Whole(t) /\ Lasts(t) /\ \A u \in DOMAIN users : Anonymous(users[u]) => Bars(u, t)
KeptRow(u, row) == Works(u, row) /\ (Standing(u) \/ Anonymous(row))

\* What a request may do with an account that is not erased,
LEMMA MineCareful ==
  ASSUME NEW S, NEW t \in Seq(S), NEW u, \A s \in S : Mine(s, u), Standing(u) \/ \A s \in S : s.do \notin Ours
  PROVE  Careful(t)
<1>1. \A i \in DOMAIN t : Mine(t[i], u) /\ (Standing(u) \/ t[i].do \notin Ours) OBVIOUS
<1> QED BY <1>1 DEF Mine, Standing, Ours, Careful, Whole, Lasts, Bars

\* with one that is saved as it is, or with its sessions revoked,
LEMMA SaveCareful ==
  ASSUME NEW u, NEW row, KeptRow(u, row)
  PROVE  Careful(<<SaveUser(u, row)>>) /\ Careful(<<SaveUser(u, row), RevokeAll(u)>>)
<1>1. PICK s : s = SaveUser(u, row) OBVIOUS
<1>2. s.do = "user" /\ s.user = u /\ s.row = row /\ s.erase = FALSE BY <1>1 DEF SaveUser
<1>3. PICK r : r = RevokeAll(u) OBVIOUS
<1>4. r.do = "revokeAll" /\ r.user = u BY <1>3 DEF RevokeAll
<1>5. ASSUME NEW t, t = <<s>> \/ t = <<s, r>> PROVE Careful(t)
  <2>1. \A i \in DOMAIN t : t[i] = s \/ t[i] = r BY <1>5
  <2>2. Whole(t) /\ Lasts(t) BY <1>2, <1>4, <2>1 DEF Whole, Lasts, KeptRow
  <2>3. \A x \in DOMAIN users : Anonymous(users[x]) => Bars(x, t) BY <1>2, <1>4, <2>1 DEF Bars, KeptRow, Standing
  <2> QED BY <2>2, <2>3 DEF Careful
<1> QED BY <1>1, <1>3, <1>5

\* and when it erases one.
LEMMA EraseCareful == ASSUME NEW u PROVE Careful(AnonymizeUser(u))
<1>1. PICK s : s = [SaveUser(u, Anonymized) EXCEPT !.erase = TRUE] OBVIOUS
<1>2. s.do = "user" /\ s.user = u /\ s.row = Anonymized BY <1>1 DEF SaveUser
<1>3. PICK r : r = RevokeAll(u) OBVIOUS
<1>4. r.do = "revokeAll" /\ r.user = u BY <1>3 DEF RevokeAll
<1>5. PICK t : t = <<s, r>> OBVIOUS
<1>6. AnonymizeUser(u) = t BY <1>1, <1>3, <1>5 DEF AnonymizeUser
<1>7. DOMAIN t = {1, 2} /\ Len(t) = 2 /\ t[1] = s /\ t[2] = r BY <1>5
<1>11. s.erase BY <1>1 DEF SaveUser
<1>8. Whole(t) /\ Lasts(t) BY <1>2, <1>3, <1>4, <1>7, <1>11 DEF Whole, Lasts
<1>9. Anonymous(Anonymized) BY JustErased
<1>10. \A x : Bars(x, t) BY <1>2, <1>4, <1>7, <1>9 DEF Bars
<1> QED BY <1>6, <1>8, <1>10 DEF Careful

\* An erased account cannot be signed in to, has no other address and is linked to nobody.
LEMMA ErasedIsGone ==
  ASSUME NEW row, Anonymous(row)
  PROVE  ~ row.active /\ ~ row.sso /\ row.email = None /\ row.change = None /\ row.failed = 0 /\ row.lock = None
<1>1. PICK r : r = [row EXCEPT !.verification = None, !.reset = None, !.verified = FALSE, !.password = FALSE] OBVIOUS
<1>2. r = [email |-> None, named |-> FALSE, active |-> FALSE, verified |-> FALSE, password |-> FALSE,
           sso |-> FALSE, verification |-> None, failed |-> 0, lock |-> None, reset |-> None,
           pending |-> None, change |-> None, method |-> None, secret |-> FALSE, enabled |-> FALSE,
           codes |-> 0]
  BY <1>1 DEF Anonymous, Anonymized, NewUser
<1>3. /\ r.active = row.active /\ r.sso = row.sso /\ r.email = row.email /\ r.change = row.change
      /\ r.failed = row.failed /\ r.lock = row.lock
  BY <1>1, <1>2
<1> QED BY <1>2, <1>3

\* What an erased account may still get leaves it erased.
LEMMA ErasedGets ==
  ASSUME NEW row, DOMAIN row = DOMAIN Anonymized, Anonymous(row), NEW t
  PROVE  /\ Anonymous([row EXCEPT !.verified = TRUE, !.verification = None])
         /\ Anonymous([row EXCEPT !.verification = t]) /\ Anonymous([row EXCEPT !.reset = t])
         /\ Anonymous([row EXCEPT !.failed = 0, !.lock = None])
         /\ Anonymous([row EXCEPT !.password = TRUE, !.reset = None, !.failed = 0, !.lock = None])
<1> DEFINE Bare(r) == [r EXCEPT !.verification = None, !.reset = None, !.verified = FALSE, !.password = FALSE]
<1>1. row.failed = 0 /\ row.lock = None BY ErasedIsGone
<1>2. Bare([row EXCEPT !.verified = TRUE, !.verification = None]) = Bare(row) OBVIOUS
<1>3. Bare([row EXCEPT !.verification = t]) = Bare(row) /\ Bare([row EXCEPT !.reset = t]) = Bare(row) OBVIOUS
<1>4. Bare([row EXCEPT !.failed = 0, !.lock = None]) = Bare(row) BY <1>1
<1>5. Bare([row EXCEPT !.password = TRUE, !.reset = None, !.failed = 0, !.lock = None]) = Bare(row) BY <1>1
<1> QED BY <1>2, <1>3, <1>4, <1>5 DEF Anonymous

\* The row of an account: who signs in to it is not erased, and no edit of it switches it off.
LEMMA RowIsKept ==
  ASSUME DeskInv, EraseInv, NEW u \in DOMAIN users
  PROVE  /\ users[u] \in UserRows(Known) /\ DOMAIN users[u] = DOMAIN Anonymized /\ Works(u, users[u])
         /\ SignedIn(u) \/ users[u].active => Standing(u)
<1>1. users[u] \in UserRows(Known) BY DEF DeskInv, AccountTables, Table, AccountRows
<1>2. DOMAIN users[u] = DOMAIN Anonymized BY <1>1 DEF UserRows, Anonymized, NewUser
<1>3. Works(u, users[u]) BY DEF EraseInv, WorkInv
<1>4. SignedIn(u) \/ users[u].active => Standing(u) BY ErasedIsGone DEF SignedIn, Standing
<1> QED BY <1>1, <1>2, <1>3, <1>4

\* Requests about the address and the profile.
LEMMA AddressCareful ==
  ASSUME DeskInv, EraseInv, NEW w \in Workers, NEW u \in Users,
         \/ \E email \in Emails : Register(w, u, email) \/ RequestEmailChange(w, u, email)
         \/ VerifyEmail(w, u) \/ ResendVerificationEmail(w, u) \/ VerifyEmailChange(w, u) \/ UpdateProfile(w, u)
         \/ UnlockUser(w, u) \/ ForgotPassword(w, u) \/ ChangePassword(w, u) \/ HandleFailedLogin(w, u)
  PROVE  \E todo : Careful(todo) /\ Reply(w, todo)
<1> SUFFICES \E row : KeptRow(u, row) /\ Reply(w, <<SaveUser(u, row)>>)
  BY SaveCareful
<1>1. ASSUME NEW email \in Emails, Register(w, u, email)
      PROVE  \E row : KeptRow(u, row) /\ Reply(w, <<SaveUser(u, row)>>)
  <2>1. PICK row : row = [NewUser(email) EXCEPT !.verification = Token] OBVIOUS
  <2>2. row.active BY <2>1 DEF NewUser
  <2> QED BY <1>1, <2>1, <2>2 DEF Register, New, KeptRow, Works, Standing
<1>2. CASE ~ \E email \in Emails : Register(w, u, email)
  <2>1. u \in DOMAIN users
    BY <1>2 DEF RequestEmailChange, SignedIn, VerifyEmail, ResendVerificationEmail, VerifyEmailChange, UpdateProfile,
                UnlockUser, ForgotPassword, ChangePassword, HandleFailedLogin
  <2>2. PICK old : old = users[u] OBVIOUS
  <2>3. /\ old \in UserRows(Known) /\ DOMAIN old = DOMAIN Anonymized /\ Works(u, old)
        /\ SignedIn(u) \/ old.active => Standing(u)
    BY <2>1, <2>2, RowIsKept
  <2>4. Standing(u) \/ Anonymous(old) BY <2>2 DEF Standing
  <2>5. ASSUME NEW email, RequestEmailChange(w, u, email)
        PROVE  \E row : KeptRow(u, row) /\ Reply(w, <<SaveUser(u, row)>>)
    <3>1. PICK row : row = [old EXCEPT !.pending = email, !.change = Token] OBVIOUS
    <3>2. row.active = old.active BY <2>3, <3>1 DEF UserRows
    <3> QED BY <2>2, <2>3, <2>5, <3>1, <3>2 DEF RequestEmailChange, KeptRow, Works
  <2>6. CASE VerifyEmail(w, u)
    <3>1. PICK row : row = [old EXCEPT !.verified = TRUE, !.verification = None] OBVIOUS
    <3>2. row.active = old.active BY <2>3, <3>1 DEF UserRows
    <3>3. Standing(u) \/ Anonymous(row) BY <2>3, <2>4, <3>1, ErasedGets
    <3> QED BY <2>2, <2>3, <2>6, <3>1, <3>2, <3>3 DEF VerifyEmail, KeptRow, Works
  <2>7. CASE ResendVerificationEmail(w, u)
    <3>1. PICK row : row = [old EXCEPT !.verification = Token] OBVIOUS
    <3>2. row.active = old.active BY <2>3, <3>1 DEF UserRows
    <3>3. Standing(u) \/ Anonymous(row) BY <2>3, <2>4, <3>1, ErasedGets
    <3> QED BY <2>2, <2>3, <2>7, <3>1, <3>2, <3>3 DEF ResendVerificationEmail, KeptRow, Works
  <2>8. CASE VerifyEmailChange(w, u)
    <3>1. PICK row : row = [old EXCEPT !.email = old.pending, !.pending = None, !.change = None] OBVIOUS
    <3>2. row.active = old.active BY <2>3, <3>1 DEF UserRows
    <3>3. Standing(u) BY <2>2, <2>4, <2>8, ErasedIsGone DEF VerifyEmailChange, Fresh
    <3> QED BY <2>2, <2>3, <2>8, <3>1, <3>2, <3>3 DEF VerifyEmailChange, KeptRow, Works
  <2>9. CASE UpdateProfile(w, u)
    <3>1. PICK row : row = [old EXCEPT !.named = TRUE] OBVIOUS
    <3>2. row.active = old.active BY <2>3, <3>1 DEF UserRows
    <3> QED BY <2>2, <2>3, <2>9, <3>1, <3>2 DEF UpdateProfile, KeptRow, Works
  <2>10. CASE UnlockUser(w, u)
    <3>1. PICK row : row = [old EXCEPT !.failed = 0, !.lock = None] OBVIOUS
    <3>2. row.active = old.active BY <2>3, <3>1 DEF UserRows
    <3>3. Standing(u) \/ Anonymous(row) BY <2>3, <2>4, <3>1, ErasedGets
    <3> QED BY <2>2, <2>3, <2>10, <3>1, <3>2, <3>3 DEF UnlockUser, KeptRow, Works
  <2>11. CASE ForgotPassword(w, u)
    <3>1. PICK row : row = [old EXCEPT !.reset = Token] OBVIOUS
    <3>2. row.active = old.active BY <2>3, <3>1 DEF UserRows
    <3>3. Standing(u) \/ Anonymous(row) BY <2>3, <2>4, <3>1, ErasedGets
    <3> QED BY <2>2, <2>3, <2>11, <3>1, <3>2, <3>3 DEF ForgotPassword, KeptRow, Works
  <2>12. CASE ChangePassword(w, u) BY <2>2, <2>3, <2>12 DEF ChangePassword, KeptRow
  <2>13. CASE HandleFailedLogin(w, u)
    <3>1. \E n, t : SignedIn(u) /\ Reply(w, <<SaveUser(u, [old EXCEPT !.failed = n, !.lock = t])>>)
      BY <2>2, <2>13 DEF HandleFailedLogin
    <3>2. PICK n, t : SignedIn(u) /\ Reply(w, <<SaveUser(u, [old EXCEPT !.failed = n, !.lock = t])>>) BY <3>1
    <3>3. PICK row : row = [old EXCEPT !.failed = n, !.lock = t] OBVIOUS
    <3>4. row.active = old.active BY <2>3, <3>3 DEF UserRows
    <3> QED BY <2>3, <3>2, <3>3, <3>4 DEF KeptRow, Works
  <2> QED BY <1>2, <2>5, <2>6, <2>7, <2>8, <2>9, <2>10, <2>11, <2>12, <2>13
<1> QED BY <1>1, <1>2

\* Signing in and out.
LEMMA SignInCareful ==
  ASSUME DeskInv, EraseInv, NEW w \in Workers, NEW u \in Users,
         \/ Login(w, u) \/ LogoutAll(w, u) \/ ResetPassword(w, u)
         \/ \E email \in Emails, confirmed \in BOOLEAN : LoginWithSsoProfile(w, u, email, confirmed)
         \/ \E s \in DOMAIN sessions : Logout(w, u, s) \/ RevokeAllOtherSessions(w, u, s)
  PROVE  \E todo : Careful(todo) /\ Reply(w, todo)
<1> DEFINE S(row) == {SaveUser(u, row), NewSession(u), RevokeAll(u)}
<1>1. ASSUME NEW row, Works(u, row) PROVE \A s \in S(row) : Mine(s, u)
  BY <1>1 DEF Mine, SaveUser, NewSession, RevokeAll, Ours
<1>2. ASSUME NEW row
      PROVE  /\ <<SaveUser(u, row)>> \in Seq(S(row)) /\ <<>> \in Seq(S(row))
             /\ <<SaveUser(u, row), NewSession(u)>> \in Seq(S(row))
  <2>1. SaveUser(u, row) \in S(row) /\ NewSession(u) \in S(row) OBVIOUS
  <2> HIDE DEF S
  <2> QED BY <2>1, FewStatements
<1>3. \A row : \A t \in Seq(S(row)) : Standing(u) /\ Works(u, row) => Careful(t)
  <2> SUFFICES ASSUME NEW row, NEW t \in Seq(S(row)), Standing(u), Works(u, row) PROVE Careful(t) OBVIOUS
  <2>1. \A s \in S(row) : Mine(s, u) BY <1>1
  <2> HIDE DEF S
  <2> QED BY <2>1, MineCareful
<1> HIDE DEF S
<1>4. CASE Login(w, u)
  <2>1. PICK row : row = [users[u] EXCEPT !.failed = 0, !.lock = IF users[u].failed > 0 THEN None ELSE @] OBVIOUS
  <2>2. PICK first : first = IF users[u].failed > 0 THEN <<SaveUser(u, row)>> ELSE <<>> OBVIOUS
  <2>3. PICK todo : todo = first \o <<SaveUser(u, row), NewSession(u)>> OBVIOUS
  <2>4. Reply(w, todo) BY <1>4, <2>1, <2>2, <2>3 DEF Login
  <2>5. todo \in Seq(S(row)) BY <1>2, <2>2, <2>3, ConcatProperties
  <2>6. SignedIn(u) /\ u \in DOMAIN users BY <1>4 DEF Login, SignedIn
  <2>7. Standing(u) /\ users[u] \in UserRows(Known) /\ Works(u, users[u]) BY <2>6, RowIsKept
  <2>8. row.active = users[u].active BY <2>1, <2>7 DEF UserRows
  <2>9. Works(u, row) BY <2>7, <2>8 DEF Works
  <2> QED BY <1>3, <2>4, <2>5, <2>7, <2>9
<1>5. CASE LogoutAll(w, u)
  <2>1. Standing(u) BY <1>5, RowIsKept DEF LogoutAll, SignedIn
  <2>2. PICK todo : todo = <<RevokeAll(u)>> OBVIOUS
  <2>3. todo \in Seq({RevokeAll(u)}) BY <2>2
  <2>4. \A s \in {RevokeAll(u)} : Mine(s, u) BY DEF Mine, RevokeAll, Ours
  <2>5. Careful(todo) BY <2>1, <2>3, <2>4, MineCareful
  <2> QED BY <1>5, <2>2, <2>5 DEF LogoutAll
<1>6. CASE ResetPassword(w, u)
  <2>1. PICK row : row = [users[u] EXCEPT !.password = TRUE, !.reset = None, !.failed = 0, !.lock = None] OBVIOUS
  <2>2. Reply(w, <<SaveUser(u, row), RevokeAll(u)>>) BY <1>6, <2>1 DEF ResetPassword
  <2>3. u \in DOMAIN users BY <1>6 DEF ResetPassword
  <2>4. users[u] \in UserRows(Known) /\ DOMAIN users[u] = DOMAIN Anonymized /\ Works(u, users[u]) BY <2>3, RowIsKept
  <2>5. row.active = users[u].active BY <2>1, <2>4 DEF UserRows
  <2>6. Standing(u) \/ Anonymous(row) BY <2>1, <2>3, <2>4, ErasedGets DEF Standing
  <2>7. KeptRow(u, row) BY <2>4, <2>5, <2>6 DEF KeptRow, Works
  <2> QED BY <2>2, <2>7, SaveCareful
<1>7. ASSUME NEW email \in Emails, NEW confirmed \in BOOLEAN, LoginWithSsoProfile(w, u, email, confirmed)
      PROVE  \E todo : Careful(todo) /\ Reply(w, todo)
  <2>1. Standing(u)
    <3>1. \/ u \in DOMAIN users /\ users[u].sso
          \/ u \in DOMAIN users /\ users[u].email = email
          \/ u \notin DOMAIN users
      BY <1>7 DEF LoginWithSsoProfile, New
    <3>2. email # None BY AccountsAssumption
    <3> QED BY <3>1, <3>2, ErasedIsGone DEF Standing
  <2>2. \E row : \E linked \in BOOLEAN, in \in BOOLEAN :
          Works(u, row) /\
          Reply(w, (IF linked THEN <<>> ELSE <<SaveUser(u, row)>>) \o
                   (IF in THEN <<SaveUser(u, row), NewSession(u)>> ELSE <<>>))
    <3> DEFINE linked == u \in DOMAIN users /\ users[u].sso
               known == u \in DOMAIN users /\ users[u].email = email
               row == IF linked THEN users[u]
                      ELSE IF known THEN [users[u] EXCEPT !.sso = TRUE, !.verified = @ \/ confirmed]
                      ELSE [NewUser(email) EXCEPT !.password = FALSE, !.sso = TRUE, !.verified = confirmed]
               in == row.active /\ Unlocked(row)
    <3>1. Reply(w, (IF linked THEN <<>> ELSE <<SaveUser(u, row)>>) \o
                   (IF in THEN <<SaveUser(u, row), NewSession(u)>> ELSE <<>>))
      BY <1>7 DEF LoginWithSsoProfile
    <3>4. Works(u, row)
      <4>1. CASE linked BY <4>1, RowIsKept
      <4>2. CASE ~ linked /\ known
        <5>1. users[u] \in UserRows(Known) /\ Works(u, users[u]) BY <4>2, RowIsKept
        <5>2. PICK old : old = users[u] OBVIOUS
        <5>3. [old EXCEPT !.sso = TRUE, !.verified = @ \/ confirmed].active = old.active BY <5>1, <5>2 DEF UserRows
        <5> QED BY <4>2, <5>1, <5>2, <5>3 DEF Works
      <4>3. CASE ~ linked /\ ~ known
        <5>1. [NewUser(email) EXCEPT !.password = FALSE, !.sso = TRUE, !.verified = confirmed].active BY DEF NewUser
        <5> QED BY <4>3, <5>1 DEF Works
      <4> QED BY <4>1, <4>2, <4>3
    <3> HIDE DEF linked, known, row, in
    <3>2. PICK l \in BOOLEAN, i \in BOOLEAN : (l <=> linked) /\ (i <=> in) OBVIOUS
    <3>3. Reply(w, (IF l THEN <<>> ELSE <<SaveUser(u, row)>>) \o
                   (IF i THEN <<SaveUser(u, row), NewSession(u)>> ELSE <<>>))
      BY <3>1, <3>2
    <3> QED BY <3>3, <3>4
  <2>3. PICK row : \E linked \in BOOLEAN, in \in BOOLEAN :
          Works(u, row) /\
          Reply(w, (IF linked THEN <<>> ELSE <<SaveUser(u, row)>>) \o
                   (IF in THEN <<SaveUser(u, row), NewSession(u)>> ELSE <<>>))
    BY <2>2
  <2>7. PICK linked \in BOOLEAN, in \in BOOLEAN :
          Works(u, row) /\
          Reply(w, (IF linked THEN <<>> ELSE <<SaveUser(u, row)>>) \o
                   (IF in THEN <<SaveUser(u, row), NewSession(u)>> ELSE <<>>))
    BY <2>3
  <2>4. PICK one, two : /\ one = IF linked THEN <<>> ELSE <<SaveUser(u, row)>>
                        /\ two = IF in THEN <<SaveUser(u, row), NewSession(u)>> ELSE <<>>
    OBVIOUS
  <2>5. one \in Seq(S(row)) /\ two \in Seq(S(row)) BY <1>2, <2>4
  <2>6. one \o two \in Seq(S(row)) BY <2>5, ConcatProperties
  <2> QED BY <1>3, <2>1, <2>4, <2>6, <2>7
<1>8. ASSUME NEW s \in DOMAIN sessions, Logout(w, u, s) \/ RevokeAllOtherSessions(w, u, s)
      PROVE  \E todo : Careful(todo) /\ Reply(w, todo)
  <2>1. PICK x : x.do \notin Ours /\ Reply(w, <<x>>)
    BY <1>8 DEF Logout, RevokeAllOtherSessions, Ours
  <2>2. PICK X : X = {x} OBVIOUS
  <2>3. PICK todo : todo = <<x>> OBVIOUS
  <2>4. todo \in Seq(X) BY <2>2, <2>3
  <2>5. \A y \in X : Mine(y, u) /\ y.do \notin Ours BY <2>1, <2>2 DEF Mine, Ours
  <2>6. Careful(todo) BY <2>4, <2>5, MineCareful
  <2> QED BY <2>1, <2>3, <2>6
<1> QED BY <1>4, <1>5, <1>6, <1>7, <1>8

\* Refresh tokens.
LEMMA RefreshCareful ==
  ASSUME DeskInv, EraseInv, NEW w \in Workers, NEW s \in DOMAIN sessions, RefreshTokens(w, s) \/ RefreshExpired(w, s)
  PROVE  \E todo : Careful(todo) /\ Reply(w, todo)
<1>1. CASE RefreshTokens(w, s)
  <2>1. PICK u : u = sessions[s].user OBVIOUS
  <2>2. PICK a, b : a = [do |-> "revoke", session |-> s] /\ b = NewSession(u) OBVIOUS
  <2>3. Standing(u) BY <1>1, <2>1, ErasedIsGone DEF RefreshTokens, Standing
  <2>4. PICK todo : todo = <<a, b>> OBVIOUS
  <2>5. PICK S : S = {a, b} OBVIOUS
  <2>6. todo \in Seq(S) BY <2>4, <2>5
  <2>7. \A x \in S : Mine(x, u) BY <2>2, <2>5 DEF Mine, NewSession, Ours
  <2>8. Careful(todo) BY <2>3, <2>6, <2>7, MineCareful
  <2> QED BY <1>1, <2>1, <2>2, <2>4, <2>8 DEF RefreshTokens
<1>2. CASE RefreshExpired(w, s)
  <2>1. PICK x : x = [do |-> "forget", session |-> s] OBVIOUS
  <2>2. PICK X : X = {x} OBVIOUS
  <2>3. PICK todo : todo = <<x>> OBVIOUS
  <2>4. todo \in Seq(X) BY <2>2, <2>3
  <2>5. \A y \in X : Mine(y, None) /\ y.do \notin Ours BY <2>1, <2>2 DEF Mine, Ours
  <2>6. Careful(todo) BY <2>4, <2>5, MineCareful
  <2> QED BY <1>2, <2>1, <2>3, <2>6 DEF RefreshExpired
<1> QED BY <1>1, <1>2

\* The second factor.
LEMMA FactorCareful ==
  ASSUME DeskInv, EraseInv, NEW w \in Workers, NEW u \in Users, FactorRequest(w, u)
  PROVE  \E todo : Careful(todo) /\ Reply(w, todo)
<1>1. SignedIn(u)
  BY DEF FactorRequest, SetupTotp, VerifyTotpSetup, SetupEmailOtp, SendLoginOtp, VerifyEmailOtpSetup, Verify2FA,
         Disable2FA, RegenerateRecoveryCodes, RemoveTrustedDevice
<1>2. u \in DOMAIN users /\ Standing(u) BY <1>1, RowIsKept DEF SignedIn
<1>14. PICK old : old = users[u] OBVIOUS
<1>15. old \in UserRows(Known) /\ Works(u, old) BY <1>2, <1>14, RowIsKept
<1>16. /\ \A m : Works(u, [old EXCEPT !.method = m]) /\ Works(u, Enabled(old, m))
       /\ Works(u, [old EXCEPT !.secret = TRUE, !.method = "totp"])
       /\ \A c : Works(u, [old EXCEPT !.codes = c])
       /\ Works(u, [old EXCEPT !.enabled = FALSE, !.method = None, !.secret = FALSE, !.codes = 0])
  <2>1. /\ \A m : [old EXCEPT !.method = m].active = old.active /\ Enabled(old, m).active = old.active
        /\ [old EXCEPT !.secret = TRUE, !.method = "totp"].active = old.active
        /\ \A c : [old EXCEPT !.codes = c].active = old.active
        /\ [old EXCEPT !.enabled = FALSE, !.method = None, !.secret = FALSE, !.codes = 0].active = old.active
    BY <1>15 DEF UserRows, Enabled
  <2> QED BY <1>15, <2>1 DEF Works
<1>3. ASSUME NEW S, NEW t \in Seq(S), \A s \in S : Mine(s, u), Reply(w, t) PROVE \E todo : Careful(todo) /\ Reply(w, todo)
  BY <1>2, <1>3, MineCareful
<1>4. ASSUME NEW row, Works(u, row), Reply(w, <<SaveUser(u, row)>>) PROVE \E todo : Careful(todo) /\ Reply(w, todo)
  BY <1>2, <1>4, SaveCareful DEF KeptRow
<1>5. \A row : Works(u, row) => Mine(SaveUser(u, row), u) BY DEF Mine, SaveUser, Ours
<1>6. \A c : Mine(UseOtp(c), u) /\ Mine(MissOtp(c), u) BY DEF Mine, UseOtp, MissOtp, Ours
<1>7. /\ \A p : Mine([do |-> "useOtps", user |-> u, purpose |-> p], u) /\ Mine([do |-> "otp", user |-> u, purpose |-> p], u)
      /\ Mine([do |-> "trust", user |-> u], u) /\ Mine([do |-> "untrust", user |-> u], u)
  BY DEF Mine, Ours
<1>8. CASE SetupTotp(w, u) \/ VerifyTotpSetup(w, u) \/ RegenerateRecoveryCodes(w, u)
  BY <1>4, <1>8, <1>14, <1>16 DEF SetupTotp, VerifyTotpSetup, RegenerateRecoveryCodes
<1>9. ASSUME NEW p, SendLoginOtp(w, u) \/ SetupEmailOtp(w, u), p = IF SendLoginOtp(w, u) THEN "login" ELSE "setup"
      PROVE  \E todo : Careful(todo) /\ Reply(w, todo)
  <2>1. PICK row : row = [users[u] EXCEPT !.method = "email"] OBVIOUS
  <2>2. PICK a, b, c : /\ a = [do |-> "useOtps", user |-> u, purpose |-> p]
                       /\ b = [do |-> "otp", user |-> u, purpose |-> p] /\ c = SaveUser(u, row)
    OBVIOUS
  <2>3. PICK S : S = {a, b, c} OBVIOUS
  <2>4. \A s \in S : Mine(s, u) BY <1>5, <1>7, <1>14, <1>16, <2>1, <2>2, <2>3
  <2>5. <<a, b>> \in Seq(S) /\ <<c>> \in Seq(S) BY <2>3, FewStatements
  <2>6. <<a, b>> \o <<c>> \in Seq(S) BY <2>5, ConcatProperties
  <2>7. SendOtp(u, p) = <<a, b>> BY <2>2 DEF SendOtp
  <2>8. Reply(w, <<a, b>>) \/ Reply(w, <<a, b>> \o <<c>>)
    BY <1>9, <2>1, <2>2, <2>7 DEF SendLoginOtp, SetupEmailOtp
  <2>9. PICK one, two : one = <<a, b>> /\ two = <<a, b>> \o <<c>> OBVIOUS
  <2> QED BY <1>3, <2>4, <2>5, <2>6, <2>8, <2>9
<1>10. ASSUME NEW right \in BOOLEAN, VerifyEmailOtpSetup(w, u, right) PROVE \E todo : Careful(todo) /\ Reply(w, todo)
  <2>1. PICK c \in Usable(u, "setup") :
          Reply(w, IF right THEN <<UseOtp(c), SaveUser(u, Enabled(users[u], "email"))>> ELSE <<MissOtp(c)>>)
    BY <1>10 DEF VerifyEmailOtpSetup
  <2>2. PICK a, b, d : a = UseOtp(c) /\ b = SaveUser(u, Enabled(users[u], "email")) /\ d = MissOtp(c) OBVIOUS
  <2>3. PICK S : S = {a, b, d} OBVIOUS
  <2>4. \A s \in S : Mine(s, u) BY <1>5, <1>6, <1>14, <1>16, <2>2, <2>3
  <2>5. <<a, b>> \in Seq(S) /\ <<d>> \in Seq(S) BY <2>3, FewStatements
  <2>6. PICK one, two : one = <<a, b>> /\ two = <<d>> OBVIOUS
  <2> QED BY <1>3, <2>1, <2>2, <2>4, <2>5, <2>6
<1>11. ASSUME NEW right \in BOOLEAN, NEW recovery \in BOOLEAN, NEW trust \in BOOLEAN,
              Verify2FA(w, u, right, recovery, trust)
       PROVE  \E todo : Careful(todo) /\ Reply(w, todo)
  <2> DEFINE mailed == IF users[u].method = "email" THEN Usable(u, "login") ELSE {}
             tried == {IF right THEN UseOtp(c) ELSE MissOtp(c) : c \in mailed}
             byCode == right /\ (users[u].method = "totp" \/ mailed # {})
             byRecovery == ~byCode /\ recovery /\ users[u].codes > 0
             row == [users[u] EXCEPT !.codes = @ - 1]
             second == IF byRecovery THEN <<SaveUser(u, row)>> ELSE <<>>
             third == IF byCode \/ byRecovery THEN Trust(u, trust) ELSE <<>>
             S == tried \cup {SaveUser(u, row), [do |-> "trust", user |-> u]}
  <2>1. PICK first \in {<<>>} \cup {<<t>> : t \in tried} : Reply(w, first \o second \o third)
    BY <1>11 DEF Verify2FA
  <2>2. \A t \in tried : Mine(t, u) BY <1>6
  <2>9. Works(u, row) BY <1>14, <1>16
  <2> HIDE DEF mailed, tried, byCode, byRecovery, row
  <2>3. \A s \in S : Mine(s, u) BY <1>5, <1>7, <2>2, <2>9
  <2>4. first \in Seq(S)
    <3>1. CASE first = <<>> BY <3>1
    <3>2. ASSUME NEW t \in tried, first = <<t>> PROVE first \in Seq(S) BY <3>2
    <3> QED BY <3>1, <3>2
  <2>5. second \in Seq(S)
    <3>1. PICK s : s = SaveUser(u, row) OBVIOUS
    <3>2. s \in S BY <3>1
    <3> HIDE DEF S
    <3>3. <<s>> \in Seq(S) /\ <<>> \in Seq(S) BY <3>2, FewStatements
    <3> QED BY <3>1, <3>3
  <2>6. third \in Seq(S)
    <3>1. [do |-> "trust", user |-> u] \in S OBVIOUS
    <3> HIDE DEF S
    <3>2. PICK t : t = [do |-> "trust", user |-> u] OBVIOUS
    <3>3. <<t>> \in Seq(S) /\ <<>> \in Seq(S) BY <3>1, <3>2, FewStatements
    <3>4. Trust(u, trust) = <<t>> \/ Trust(u, trust) = <<>> BY <3>2 DEF Trust
    <3> QED BY <3>3, <3>4
  <2> HIDE DEF second, third, S
  <2>7. first \o second \o third \in Seq(S) BY <2>4, <2>5, <2>6, ConcatProperties
  <2>8. PICK todo : todo = first \o second \o third OBVIOUS
  <2> QED BY <1>3, <2>1, <2>3, <2>7, <2>8
<1>12. CASE Disable2FA(w, u)
  <2>1. PICK a, b : /\ a = SaveUser(u, [users[u] EXCEPT !.enabled = FALSE, !.method = None, !.secret = FALSE, !.codes = 0])
                    /\ b = [do |-> "untrust", user |-> u]
    OBVIOUS
  <2>2. PICK S : S = {a, b} OBVIOUS
  <2>3. \A s \in S : Mine(s, u) BY <1>5, <1>7, <1>14, <1>16, <2>1, <2>2
  <2>4. PICK todo : todo = <<a, b>> OBVIOUS
  <2>5. todo \in Seq(S) BY <2>2, <2>4
  <2> QED BY <1>3, <1>12, <2>1, <2>3, <2>4, <2>5 DEF Disable2FA
<1>13. CASE RemoveTrustedDevice(w, u)
  <2>1. PICK a : a = [do |-> "untrust", user |-> u] OBVIOUS
  <2>2. PICK S : S = {a} OBVIOUS
  <2>3. \A s \in S : Mine(s, u) BY <1>7, <2>1, <2>2
  <2>4. PICK todo : todo = <<a>> OBVIOUS
  <2>5. todo \in Seq(S) BY <2>2, <2>4
  <2> QED BY <1>3, <1>13, <2>1, <2>3, <2>4, <2>5 DEF RemoveTrustedDevice
<1> QED BY <1>8, <1>9, <1>10, <1>11, <1>12, <1>13 DEF FactorRequest

\* A plan that starts.
LEMMA CarefulStarts ==
  ASSUME DeskInv, EraseInv, NEW w \in Workers, NEW todo, Careful(todo), Start(w, todo),
         UNCHANGED <<users, sessions, erasure>>
  PROVE  EraseInv'
<1>1. DOMAIN task = Workers BY DEF DeskInv, RequestsOK
<1>2. task[w] = Idle /\ \A v \in Workers : task'[v] = IF v = w THEN todo ELSE task[v] BY <1>1 DEF Start, Ready
<1>3. Erased' = Erased BY DEF Erased
<1>4. \A v \in Workers : Whole(task'[v]) BY <1>2 DEF EraseInv, Careful
<1>5. ASSUME NEW u \in Erased
      PROVE  u \in DOMAIN users /\ Anonymous(users[u]) /\ (RevokeDue(u) \/ AllRevoked(u)) /\ \A v \in Workers : Bars(u, task'[v])
  BY <1>2 DEF EraseInv, Gone, Careful
<1>6. ASSUME NEW u, RevokeDue(u) PROVE RevokeDue(u)'
  <2>1. PICK v \in Workers : \E i \in DOMAIN task[v] : task[v][i].do = "revokeAll" /\ task[v][i].user = u
    BY <1>6 DEF RevokeDue
  <2>2. v # w BY <1>2, <2>1 DEF Idle
  <2> QED BY <1>2, <2>1, <2>2 DEF RevokeDue
<1>7. \A u : AllRevoked(u)' <=> AllRevoked(u) BY DEF AllRevoked
<1>8. \A u \in Erased : Gone(u)' BY <1>5, <1>6, <1>7 DEF Gone
<1>9. WorkInv' BY <1>2 DEF EraseInv, WorkInv, Careful, Lasts, Works
<1> QED BY <1>3, <1>4, <1>8, <1>9 DEF EraseInv

\* Requests of all services.
LEMMA RequestErases ==
  ASSUME DeskInv, EraseInv, NEW w \in Workers,
         \/ \E u \in Users : AccountRequest(w, u) \/ FactorRequest(w, u)
         \/ \E s \in DOMAIN sessions : RefreshTokens(w, s) \/ RefreshExpired(w, s)
         \/ \E a \in Users : CompanyRequest(w, a)
         \/ FleetRequest(w) \/ DeskRequest(w) \/ PrinterRequest(w)
  PROVE  EraseInv'
<1>1. ASSUME NEW todo, Careful(todo), Reply(w, todo) PROVE EraseInv'
  BY <1>1, CarefulStarts DEF Reply
<1>2. ASSUME NEW u \in Users, AccountRequest(w, u) PROVE EraseInv'
  <2>1. \E todo : Careful(todo) /\ Reply(w, todo)
    <3>1. CASE \/ Login(w, u) \/ LogoutAll(w, u) \/ ResetPassword(w, u)
               \/ \E email \in Emails, confirmed \in BOOLEAN : LoginWithSsoProfile(w, u, email, confirmed)
               \/ \E s \in DOMAIN sessions : Logout(w, u, s) \/ RevokeAllOtherSessions(w, u, s)
      BY <3>1, SignInCareful
    <3>2. CASE \/ \E email \in Emails : Register(w, u, email) \/ RequestEmailChange(w, u, email)
               \/ VerifyEmail(w, u) \/ ResendVerificationEmail(w, u) \/ VerifyEmailChange(w, u) \/ UpdateProfile(w, u)
               \/ UnlockUser(w, u) \/ ForgotPassword(w, u) \/ ChangePassword(w, u) \/ HandleFailedLogin(w, u)
      BY <3>2, AddressCareful
    <3> QED BY <1>2, <3>1, <3>2 DEF AccountRequest
  <2> QED BY <1>1, <2>1
<1>3. ASSUME NEW u \in Users, FactorRequest(w, u) PROVE EraseInv' BY <1>1, <1>3, FactorCareful
<1>4. ASSUME NEW s \in DOMAIN sessions, RefreshTokens(w, s) \/ RefreshExpired(w, s) PROVE EraseInv'
  BY <1>1, <1>4, RefreshCareful
<1>5. ASSUME NEW S, NEW todo \in Seq(S), \A s \in S : s.do \notin Ours, Reply(w, todo) PROVE EraseInv'
  <2>1. \A s \in S : Mine(s, None) BY <1>5 DEF Mine, Ours
  <2>2. Careful(todo) BY <1>5, <2>1, MineCareful
  <2> QED BY <1>1, <1>5, <2>2
<1>6. ASSUME NEW s, s.do \notin Ours, Reply(w, <<s>>) PROVE EraseInv'
  <2>1. PICK S : S = {s} OBVIOUS
  <2>2. PICK todo : todo = <<s>> OBVIOUS
  <2>3. todo \in Seq(S) /\ Reply(w, todo) BY <1>6, <2>1, <2>2
  <2> QED BY <1>5, <1>6, <2>1, <2>3
<1>7. ASSUME NEW n \in 0 .. 2, NEW s, CompanyPlan(w, n, s) PROVE EraseInv'
  <2>1. s.do \in CompanyKinds /\ Reply(w, <<s>>) BY <1>7, KindsOfCompany DEF CompanyPlan, Ask
  <2>2. s.do \notin Ours BY <2>1 DEF Ours, CompanyKinds
  <2> QED BY <1>6, <2>1, <2>2
<1>8. ASSUME NEW n \in 0 .. 2, NEW s, FleetPlan(w, n, s) PROVE EraseInv'
  <2>1. s.do \in FleetKinds /\ Reply(w, <<s>>) BY <1>8, KindsOfFleet DEF FleetPlan, Call, Ask
  <2>2. s.do \notin Ours BY <2>1 DEF Ours, FleetKinds
  <2> QED BY <1>6, <2>1, <2>2
<1>9. ASSUME NEW a \in Users, CompanyRequest(w, a) PROVE EraseInv'
  <2>1. CASE \E u \in DOMAIN users : Ask(w, AnonymizeUser(u)) BY <1>1, <2>1, EraseCareful DEF Ask
  <2> QED BY <1>7, <1>9, <2>1, CompanyRequests
<1>10. CASE FleetRequest(w) BY <1>7, <1>8, <1>10, FleetRequests
<1>11. CASE DeskRequest(w) \/ PrinterRequest(w)
  <2>1. PICK n \in 0 .. 2 : \E todo : DeskPlan(w, n, todo) BY <1>11, DeskRequests
  <2>2. PICK todo : DeskPlan(w, n, todo) BY <2>1
  <2>3. todo \in Seq(DeskSteps(Later(n))) /\ Reply(w, todo) BY <2>2 DEF DeskPlan, Serve, Call, Ask
  <2>4. \A s \in DeskSteps(Later(n)) : s.do \notin Ours
    <3>1. \A s \in DeskSteps(Later(n)) : s.do \in DeskKinds \cup {"device", "dropDevice"} BY KindsOfDesk
    <3> QED BY <3>1 DEF DeskKinds, Ours
  <2> QED BY <1>5, <2>3, <2>4
<1> QED BY <1>2, <1>3, <1>4, <1>9, <1>10, <1>11

\* Where sessions are to be revoked, the worker is at a statement of the accounts.
LEMMA DueAtAccounts ==
  ASSUME DeskInv, NEW v \in Workers, NEW i \in DOMAIN task[v], task[v][i].do = "revokeAll"
  PROVE  task[v] # Idle /\ Now(v).do \in AccountKinds
<1> DEFINE k == Known
<1>1. task[v] \in Plans(k) BY DEF DeskInv
<1> HIDE DEF k
<1>2. CASE task[v] \in Seq(AccountSteps(k))
  <2>1. task[v] # Idle /\ task[v][1] \in AccountSteps(k) /\ Now(v) = task[v][1] BY <1>2 DEF Idle, Now
  <2> QED BY <2>1, KindsOfAccounts
<1>3. CASE task[v] \in {t \in Seq(CompanySteps(k) \cup FleetSteps(k)) : Len(t) <= 1}
  <2>1. task[v][i] \in CompanySteps(k) \cup FleetSteps(k) BY <1>3
  <2>2. task[v][i].do \in CompanyKinds \cup FleetKinds BY <2>1, KindsOfCompany, KindsOfFleet
  <2> QED BY <2>2 DEF CompanyKinds, FleetKinds
<1>4. CASE task[v] \in Seq(DeskSteps(k))
  <2>1. task[v][i] \in DeskSteps(k) BY <1>4
  <2>2. task[v][i].do \in DeskKinds \cup {"device", "dropDevice"} BY <2>1, KindsOfDesk
  <2> QED BY <2>2 DEF DeskKinds
<1> QED BY <1>1, <1>2, <1>3, <1>4 DEF Plans

\* A step that only takes statements of the accounts away keeps those who work.
LEMMA WorkStays ==
  ASSUME DeskInv, WorkInv, NEW K, Turns(K), "user" \notin K, erasure.done \subseteq erasure'.done,
         \A u \in DOMAIN users' : (u \in DOMAIN users /\ users'[u] = users[u]) \/ users'[u].active \/ u \in erasure'.done
  PROVE  WorkInv'
<1>1. ASSUME NEW v \in Workers, NEW i \in DOMAIN task'[v], task'[v][i].do = "user"
      PROVE  task'[v][i].erase \/ task'[v][i].row.active \/ task'[v][i].user \in erasure'.done
  <2>1. PICK s : s = task'[v][i] OBVIOUS
  <2>2. \E j \in DOMAIN task[v] : task[v][j] = s
    <3>1. CASE task'[v] = task[v] BY <2>1, <3>1
    <3>2. CASE Rests(v, s)
      <4>1. \E S : task[v] \in Seq(S)
        <5>1. task[v] \in Plans(Known) BY DEF DeskInv
        <5> QED BY <5>1 DEF Plans
      <4> QED BY <3>2, <4>1 DEF Rests
    <3> QED BY <1>1, <2>1, <3>1, <3>2 DEF Turns
  <2>3. Lasts(task[v]) BY DEF WorkInv
  <2> QED BY <1>1, <2>1, <2>2, <2>3 DEF Lasts, Works
<1>2. \A u \in DOMAIN users' : users'[u].active \/ u \in erasure'.done BY DEF WorkInv, Works
<1> QED BY <1>1, <1>2 DEF WorkInv, Lasts, Works

\* A statement that is not of the accounts.
LEMMA OthersErase ==
  ASSUME DeskInv, EraseInv, NEW w \in Workers, task[w] # Idle, Now(w).do \notin AccountKinds,
         \A v \in Workers \ {w} : task'[v] = task[v], NEW K, Turns(K), K \cap Ours = {},
         UNCHANGED <<sessions, erasure>>, \A u \in DOMAIN users : u \in DOMAIN users' /\ users'[u] = users[u],
         \A u \in DOMAIN users' \ DOMAIN users : users'[u].active
  PROVE  EraseInv'
<1>1. Erased' = Erased BY DEF Erased
<1>2. \A i \in DOMAIN task'[w] : task'[w][i].do \in Ours => Rests(w, task'[w][i]) \/ task'[w] = task[w]
  BY DEF Turns
<1>3. \E S : task[w] \in Seq(S)
  <2>1. task[w] \in Plans(Known) BY DEF DeskInv
  <2> QED BY <2>1 DEF Plans
<1>4. ASSUME NEW i \in DOMAIN task[w] PROVE task[w][i].do # "revokeAll" BY <1>4, DueAtAccounts
<1>5. ASSUME NEW i \in DOMAIN task'[w], task'[w][i].do \in Ours, task'[w] # task[w]
      PROVE  \E j \in DOMAIN task[w] : j # 1 /\ task[w][j] = task'[w][i]
  <2>1. PICK j \in 2 .. Len(task[w]) : task[w][j] = task'[w][i] BY <1>2, <1>5 DEF Rests
  <2>2. j \in DOMAIN task[w] /\ j # 1 BY <1>3, <2>1
  <2> QED BY <2>1, <2>2
<1>6. Whole(task'[w])
  <2>1. CASE task'[w] = task[w] BY <2>1 DEF EraseInv
  <2>2. CASE task'[w] # task[w]
    <3>1. Whole(task[w]) BY DEF EraseInv
    <3> QED BY <1>4, <1>5, <2>2, <3>1 DEF Whole, Ours
  <2> QED BY <2>1, <2>2
<1>7. ASSUME NEW u \in Erased PROVE Bars(u, task'[w])
  <2>1. Bars(u, task[w]) BY <1>7 DEF EraseInv, Gone
  <2> QED BY <1>5, <2>1 DEF Bars, Ours
<1>8. ASSUME NEW u, RevokeDue(u) PROVE RevokeDue(u)'
  <2>1. PICK v \in Workers : \E i \in DOMAIN task[v] : task[v][i].do = "revokeAll" /\ task[v][i].user = u
    BY <1>8 DEF RevokeDue
  <2>2. v # w BY <1>4, <2>1
  <2> QED BY <2>1, <2>2 DEF RevokeDue
<1>9. \A u : AllRevoked(u)' <=> AllRevoked(u) BY DEF AllRevoked
<1>10. \A v \in Workers : Whole(task'[v]) BY <1>6 DEF EraseInv
<1>11. ASSUME NEW u \in Erased PROVE Gone(u)'
  <2>1. u \in DOMAIN users /\ Anonymous(users[u]) /\ (RevokeDue(u) \/ AllRevoked(u)) /\ \A v \in Workers : Bars(u, task[v])
    BY <1>11 DEF EraseInv, Gone
  <2>2. ASSUME NEW v \in Workers PROVE Bars(u, task'[v]) BY <1>7, <1>11, <2>1
  <2> QED BY <1>8, <1>9, <2>1, <2>2 DEF Gone
<1>12. WorkInv' BY WorkStays DEF EraseInv, Ours
<1> QED BY <1>1, <1>10, <1>11, <1>12 DEF EraseInv

\* What is left of a plan when a statement is done.
LEMMA TailErases ==
  ASSUME NEW S, NEW t \in Seq(S), t # <<>>
  PROVE  /\ Whole(t) => Whole(Tail(t))
         /\ \A u : Bars(u, t) => Bars(u, Tail(t))
         /\ \A i \in DOMAIN t : i # 1 => i - 1 \in DOMAIN Tail(t) /\ Tail(t)[i - 1] = t[i]
         /\ \A i \in DOMAIN Tail(t) : i + 1 \in DOMAIN t /\ Tail(t)[i] = t[i + 1] /\ i + 1 # 1
<1>1. PICK r : r = Tail(t) OBVIOUS
<1>2. r \in Seq(S) /\ Len(r) = Len(t) - 1 /\ Len(t) \in Nat \ {0} /\ \A i \in 1 .. Len(r) : r[i] = t[i + 1] BY <1>1
<1>3. \A i \in DOMAIN r : i + 1 \in DOMAIN t /\ r[i] = t[i + 1] /\ i + 1 # 1 BY <1>2
<1>4. \A i \in DOMAIN t : i # 1 => i - 1 \in DOMAIN r /\ r[i - 1] = t[i] BY <1>2
<1>5. Whole(t) => Whole(r)
  <2> SUFFICES ASSUME Whole(t), NEW i \in DOMAIN r, r[i].do = "user"
               PROVE  (\A j \in DOMAIN r : r[j].do = "revokeAll" => r[j].user = r[i].user) /\ ~ r[i].erase
    BY DEF Whole
  <2>1. i + 1 \in DOMAIN t /\ r[i] = t[i + 1] /\ i + 1 # 1 BY <1>3
  <2>2. \A j \in DOMAIN t : t[j].do = "revokeAll" => t[j].user = r[i].user BY <2>1 DEF Whole
  <2>3. ~ r[i].erase BY <2>1 DEF Whole
  <2> QED BY <1>3, <2>2, <2>3
<1>6. \A u : Bars(u, t) => Bars(u, r) BY <1>3 DEF Bars
<1> QED BY <1>1, <1>3, <1>4, <1>5, <1>6

\* A statement that is done leaves the rest to do.
LEMMA DoneErases ==
  ASSUME DeskInv, EraseInv, NEW w \in Workers, task[w] # Idle, Done(w)
  PROVE  /\ \A v \in Workers : Whole(task'[v])
         /\ \A u : \A v \in Workers : Bars(u, task[v]) => Bars(u, task'[v])
         /\ \A u : RevokeDue(u) => RevokeDue(u)' \/ (At(w, "revokeAll") /\ Now(w).user = u)
         /\ \A u : \A i \in DOMAIN task[w] : i # 1 /\ task[w][i].do = "revokeAll" /\ task[w][i].user = u => RevokeDue(u)'
<1>1. DOMAIN task = Workers BY DEF DeskInv, RequestsOK
<1>2. \A v \in Workers : task'[v] = IF v = w THEN Tail(task[w]) ELSE task[v] BY <1>1 DEF Done
<1>3. \E S : task[w] \in Seq(S)
  <2>1. task[w] \in Plans(Known) BY DEF DeskInv
  <2> QED BY <2>1 DEF Plans
<1>4. PICK S : task[w] \in Seq(S) BY <1>3
<1>5. PICK t : t = task[w] OBVIOUS
<1>6. t \in Seq(S) /\ t # <<>> BY <1>4, <1>5 DEF Idle
<1>7. /\ Whole(t) => Whole(Tail(t))
      /\ \A u : Bars(u, t) => Bars(u, Tail(t))
      /\ \A i \in DOMAIN t : i # 1 => i - 1 \in DOMAIN Tail(t) /\ Tail(t)[i - 1] = t[i]
  BY <1>6, TailErases
<1>8. \A v \in Workers : Whole(task'[v]) BY <1>2, <1>5, <1>7 DEF EraseInv
<1>9. \A u : \A v \in Workers : Bars(u, task[v]) => Bars(u, task'[v]) BY <1>2, <1>5, <1>7
<1>10. ASSUME NEW u, NEW i \in DOMAIN task[w], i # 1, task[w][i].do = "revokeAll", task[w][i].user = u
       PROVE  RevokeDue(u)'
  <2>1. i - 1 \in DOMAIN task'[w] /\ task'[w][i - 1] = task[w][i] BY <1>2, <1>5, <1>7, <1>10
  <2> QED BY <1>10, <2>1 DEF RevokeDue
<1>11. ASSUME NEW u, RevokeDue(u), ~ (At(w, "revokeAll") /\ Now(w).user = u) PROVE RevokeDue(u)'
  <2>1. PICK v \in Workers : \E i \in DOMAIN task[v] : task[v][i].do = "revokeAll" /\ task[v][i].user = u
    BY <1>11 DEF RevokeDue
  <2>2. PICK i \in DOMAIN task[v] : task[v][i].do = "revokeAll" /\ task[v][i].user = u BY <2>1
  <2>3. CASE v # w BY <1>2, <2>2, <2>3 DEF RevokeDue
  <2>4. CASE v = w
    <3>1. task[w][1] = Now(w) BY NowIsFirst
    <3>2. i # 1 BY <1>11, <2>2, <2>4, <3>1 DEF At
    <3> QED BY <1>10, <2>2, <2>4, <3>2
  <2> QED BY <2>3, <2>4
<1> QED BY <1>8, <1>9, <1>10, <1>11

\* Statements of the accounts that keep the users, and only revoke sessions or add one for
\* an account that is not erased.
LEMMA SessionsErase ==
  ASSUME DeskInv, EraseInv, NEW w \in Workers, task[w] # Idle, Done(w), UNCHANGED <<users, erasure>>,
         \A u \in Erased : AllRevoked(u) \/ (At(w, "revokeAll") /\ Now(w).user = u) => AllRevoked(u)'
  PROVE  EraseInv'
<1>1. Erased' = Erased BY DEF Erased
<1>2. ASSUME NEW u \in Erased PROVE Gone(u)'
  <2>1. u \in DOMAIN users /\ Anonymous(users[u]) /\ (RevokeDue(u) \/ AllRevoked(u)) /\ \A v \in Workers : Bars(u, task[v])
    BY <1>2 DEF EraseInv, Gone
  <2>2. RevokeDue(u) => RevokeDue(u)' \/ (At(w, "revokeAll") /\ Now(w).user = u) BY DoneErases
  <2>3. \A v \in Workers : Bars(u, task'[v]) BY <2>1, DoneErases
  <2> QED BY <1>2, <2>1, <2>2, <2>3 DEF Gone
<1>3. \A v \in Workers : Whole(task'[v]) BY DoneErases
<1>4. PICK K : K = {} OBVIOUS
<1>5. Turns(K) BY <1>4, StatementAdds, AddsTurns
<1>6. WorkInv' BY <1>4, <1>5, WorkStays DEF EraseInv
<1> QED BY <1>1, <1>2, <1>3, <1>6 DEF EraseInv

\* The row of an account is saved.
LEMMA StoreUserErases == ASSUME DeskInv, EraseInv, NEW w \in Workers, StoreUser(w) PROVE EraseInv'
<1>0. PICK u0, row : u0 = Now(w).user /\ row = Now(w).row OBVIOUS
<1>1. task[w] # Idle /\ Now(w).do = "user" /\ 1 \in DOMAIN task[w] /\ task[w][1] = Now(w)
  BY NowIsFirst DEF StoreUser, At
<1>2. Now(w).erase \in BOOLEAN
  <2>1. Now(w) \in AccountSteps(Known) BY <1>1, Statement DEF AccountKinds
  <2>2. Now(w) \in UserSaves(Known) BY <1>1, <2>1, KindsOfAccounts
  <2> QED BY <2>2 DEF UserSaves
<1>3. DOMAIN task = Workers /\ DOMAIN Idle = {} /\ erasure \in [done : SUBSET DOMAIN users, raced : SUBSET Users]
  BY DEF DeskInv, RequestsOK, Idle, AccountTables
<1>4. UNCHANGED sessions /\ \A u : AllRevoked(u)' <=> AllRevoked(u) BY DEF StoreUser, AllRevoked
<1>5. Whole(task[w]) /\ \A u \in Erased : Gone(u) BY DEF EraseInv
<1>6. \A i \in DOMAIN task[w] : task[w][i].do = "revokeAll" => task[w][i].user = u0 BY <1>0, <1>1, <1>5 DEF Whole
<1>7. ~ At(w, "revokeAll") BY <1>1 DEF At
<1>10. PICK K : K = {} OBVIOUS
<1>11. Done(w) \/ Fail(w) => Turns(K) BY <1>1, <1>10, StatementAdds, AddsTurns
<1>8. CASE Fail(w) /\ row.email # None /\ UNCHANGED <<users, erasure>>
  <2>1. \A v \in Workers : task'[v] = IF v = w THEN Idle ELSE task[v] BY <1>3, <1>8 DEF Fail
  <2>2. ~ Anonymous(row) BY <1>8, ErasedIsGone
  <2>3. ASSUME NEW u \in Erased PROVE Gone(u)'
    <3>1. u \in DOMAIN users /\ Anonymous(users[u]) /\ (RevokeDue(u) \/ AllRevoked(u)) /\ \A v \in Workers : Bars(u, task[v])
      BY <1>5, <2>3 DEF Gone
    <3>2. u # u0 BY <1>0, <1>1, <2>2, <3>1 DEF Bars
    <3>3. ASSUME RevokeDue(u) PROVE RevokeDue(u)'
      <4>1. PICK v \in Workers : \E i \in DOMAIN task[v] : task[v][i].do = "revokeAll" /\ task[v][i].user = u
        BY <3>3 DEF RevokeDue
      <4>2. v # w BY <1>6, <3>2, <4>1
      <4> QED BY <2>1, <4>1, <4>2 DEF RevokeDue
    <3>4. Bars(u, Idle) BY <1>3 DEF Bars
    <3>5. \A v \in Workers : Bars(u, task'[v]) BY <2>1, <3>1, <3>4
    <3> QED BY <1>4, <1>8, <3>1, <3>3, <3>5 DEF Gone
  <2>4. Whole(Idle) BY <1>3 DEF Whole
  <2>5. \A v \in Workers : Whole(task'[v]) BY <2>1, <2>4 DEF EraseInv
  <2>6. Erased' = Erased BY <1>8 DEF Erased
  <2>7. WorkInv' BY <1>8, <1>10, <1>11, WorkStays DEF EraseInv
  <2> QED BY <2>3, <2>5, <2>6, <2>7 DEF EraseInv
<1>9. CASE Done(w) /\ users' = With(users, u0, row)
           /\ erasure' = IF Now(w).erase
                         THEN [done |-> erasure.done \cup {u0},
                               raced |-> erasure.raced \cup
                                         (IF \E v \in Busy \ {w} : Holds(v, u0, {"user", "session"}) THEN {u0} ELSE {})]
                         ELSE erasure
  <2>1. /\ \A v \in Workers : Whole(task'[v])
        /\ \A u : \A v \in Workers : Bars(u, task[v]) => Bars(u, task'[v])
        /\ \A u : RevokeDue(u) => RevokeDue(u)'
        /\ \A u : \A i \in DOMAIN task[w] : i # 1 /\ task[w][i].do = "revokeAll" /\ task[w][i].user = u => RevokeDue(u)'
    BY <1>1, <1>7, <1>9, DoneErases
  <2>2. \A u \in DOMAIN users \cup {u0} : u \in DOMAIN users' /\ users'[u] = IF u = u0 THEN row ELSE users[u]
    BY <1>9 DEF With
  <2>3. ASSUME NEW u \in Erased PROVE Gone(u)'
    <3>1. u \in DOMAIN users /\ Anonymous(users[u]) /\ (RevokeDue(u) \/ AllRevoked(u)) /\ \A v \in Workers : Bars(u, task[v])
      BY <1>5, <2>3 DEF Gone
    <3>2. u = u0 => Anonymous(row) BY <1>0, <1>1, <3>1 DEF Bars
    <3>3. u \in DOMAIN users' /\ Anonymous(users'[u]) BY <2>2, <3>1, <3>2
    <3>4. \A v \in Workers : Bars(u, task'[v]) BY <2>1, <3>1
    <3> QED BY <1>4, <2>1, <3>1, <3>3, <3>4 DEF Gone
  <2>4. ASSUME Now(w).erase, u0 \in Erased' PROVE Gone(u0)'
    <3>1. row = Anonymized /\ Len(task[w]) = 2 /\ task[w][2] = RevokeAll(u0) BY <1>0, <1>1, <1>5, <2>4 DEF Whole
    <3>2. DOMAIN task[w] = 1 .. 2
      <4>1. task[w] \in Plans(Known) BY DEF DeskInv
      <4>2. \E S : task[w] \in Seq(S) BY <4>1 DEF Plans
      <4> QED BY <3>1, <4>2
    <3>3. task[w][2].do = "revokeAll" /\ task[w][2].user = u0 BY <3>1 DEF RevokeAll
    <3>10. Anonymous(row) BY <3>1, JustErased
    <3>4. Bars(u0, task[w])
      <4>1. \A i \in DOMAIN task[w] : i = 1 \/ i = 2 BY <3>2
      <4> QED BY <1>0, <1>1, <3>10, <3>3, <4>1 DEF Bars
    <3>5. RevokeDue(u0)' BY <2>1, <3>2, <3>3
    <3>6. \A v \in Busy \ {w} : ~ Holds(v, u0, {"user", "session"}) BY <1>3, <1>9, <2>4 DEF Erased
    <3>7. ASSUME NEW v \in Workers \ {w} PROVE Bars(u0, task[v])
      <4>1. CASE task[v] = Idle BY <1>3, <4>1 DEF Bars
      <4>2. CASE task[v] # Idle
        <5>1. ~ Holds(v, u0, {"user", "session"}) BY <3>6, <3>7, <4>2 DEF Busy
        <5> QED BY <5>1 DEF Holds, Bars
      <4> QED BY <4>1, <4>2
    <3>8. \A v \in Workers : Bars(u0, task'[v]) BY <2>1, <3>4, <3>7
    <3>9. u0 \in DOMAIN users' /\ Anonymous(users'[u0]) BY <2>2, <3>10
    <3> QED BY <3>5, <3>8, <3>9 DEF Gone
  <2>5. Erased' \subseteq IF Now(w).erase THEN Erased \cup {u0} ELSE Erased BY <1>2, <1>3, <1>9 DEF Erased
  <2>6. \A u \in Erased' : Gone(u)' BY <1>2, <2>3, <2>4, <2>5
  <2>7. WorkInv'
    <3>1. erasure.done \subseteq erasure'.done /\ (Now(w).erase => u0 \in erasure'.done) BY <1>9
    <3>2. Now(w).erase \/ row.active \/ u0 \in erasure.done
      <4>1. Lasts(task[w]) BY DEF EraseInv, WorkInv
      <4> QED BY <1>0, <1>1, <4>1 DEF Lasts, Works
    <3>3. DOMAIN users' = DOMAIN users \cup {u0} BY <1>9 DEF With
    <3>4. ASSUME NEW u \in DOMAIN users'
          PROVE  (u \in DOMAIN users /\ users'[u] = users[u]) \/ users'[u].active \/ u \in erasure'.done
      BY <2>2, <3>1, <3>2, <3>3, <3>4
    <3> QED BY <1>9, <1>10, <1>11, <3>1, <3>4, WorkStays DEF EraseInv
  <2> QED BY <2>1, <2>6, <2>7 DEF EraseInv
<1> QED BY <1>0, <1>8, <1>9 DEF StoreUser

\* Every other statement of the accounts.
LEMMA AccountStepErases ==
  ASSUME DeskInv, EraseInv, NEW w \in Workers,
         StoreSession(w) \/ RevokeSessions(w) \/ StoreOtp(w) \/ StoreTrust(w)
  PROVE  EraseInv'
<1>1. task[w] # Idle /\ Done(w) /\ UNCHANGED <<users, erasure>> /\ 1 \in DOMAIN task[w] /\ task[w][1] = Now(w)
  BY NowIsFirst DEF StoreSession, RevokeSessions, StoreOtp, StoreTrust, At
<1>2. \A s \in DOMAIN sessions : sessions[s] \in SessionRows BY DEF DeskInv, AccountTables, Table
<1>3. ASSUME NEW u \in Erased, AllRevoked(u) \/ (At(w, "revokeAll") /\ Now(w).user = u) PROVE AllRevoked(u)'
  <2>1. CASE StoreSession(w)
    <3>1. Bars(u, task[w]) BY <1>3 DEF EraseInv, Gone
    <3>2. At(w, "session") /\ sessions' = With(sessions, Token, [user |-> Now(w).user, revoked |-> FALSE])
      BY <2>1 DEF StoreSession
    <3>3. Now(w).user # u /\ AllRevoked(u) BY <1>1, <1>3, <3>1, <3>2 DEF Bars, At
    <3>4. DOMAIN sessions' = DOMAIN sessions \cup {Token}
          /\ \A s \in DOMAIN sessions' : sessions'[s] = IF s = Token THEN [user |-> Now(w).user, revoked |-> FALSE]
                                                        ELSE sessions[s]
      BY <3>2 DEF With
    <3> QED BY <3>3, <3>4 DEF AllRevoked
  <2>2. CASE RevokeSessions(w)
    <3>1. \A which : DOMAIN Revoked(which) = DOMAIN sessions
                     /\ \A s \in DOMAIN sessions : /\ Revoked(which)[s].user = sessions[s].user
                                                   /\ sessions[s].revoked \/ s \in which => Revoked(which)[s].revoked
      BY <1>2 DEF Revoked, SessionRows
    <3>2. CASE At(w, "forget")
      <4>1. AllRevoked(u) /\ sessions' = Without(sessions, Now(w).session)
        BY <1>3, <2>2, <3>2 DEF RevokeSessions, At
      <4> QED BY <4>1 DEF Without, AllRevoked
    <3>3. ASSUME NEW which, sessions' = Revoked(which), AllRevoked(u) \/ which = SessionsOf(u) PROVE AllRevoked(u)'
      BY <3>1, <3>3 DEF AllRevoked, SessionsOf
    <3>4. CASE At(w, "revokeAll") /\ sessions' = Revoked(SessionsOf(Now(w).user)) BY <1>3, <3>3, <3>4
    <3>5. CASE \/ At(w, "revoke") /\ sessions' = Revoked({Now(w).session})
               \/ At(w, "revokeOthers") /\ sessions' = Revoked(SessionsOf(Now(w).user) \ {Now(w).but})
      <4>1. AllRevoked(u) BY <1>3, <3>5 DEF At
      <4> QED BY <3>3, <3>5, <4>1
    <3> QED BY <2>2, <3>2, <3>4, <3>5 DEF RevokeSessions
  <2>3. CASE StoreOtp(w) \/ StoreTrust(w)
    <3>1. UNCHANGED sessions /\ ~ At(w, "revokeAll") BY <2>3 DEF StoreOtp, StoreTrust, At
    <3> QED BY <1>3, <3>1 DEF AllRevoked
  <2> QED BY <2>1, <2>2, <2>3
<1> QED BY <1>1, <1>3, SessionsErase

\* The process stops.
LEMMA StopErases == ASSUME DeskInv, EraseInv, Stop PROVE EraseInv'
<1>1. (\A v \in Workers : task'[v] = Idle) /\ DOMAIN Idle = {} BY DEF Stop, Crash, Idle
<1>2. erasure \in [done : SUBSET DOMAIN users, raced : SUBSET Users] BY DEF DeskInv, AccountTables
<1>3. Erased' = {u \in Erased : \A v \in Busy : ~ Holds(v, u, {"revokeAll"})} BY <1>2 DEF Stop, Erased
<1>4. \A v \in Workers : Whole(task'[v]) BY <1>1 DEF Whole
<1>5. ASSUME NEW u \in Erased' PROVE Gone(u)'
  <2>1. u \in Erased /\ \A v \in Busy : ~ Holds(v, u, {"revokeAll"}) BY <1>3, <1>5
  <2>2. u \in DOMAIN users /\ Anonymous(users[u]) /\ (RevokeDue(u) \/ AllRevoked(u)) BY <2>1 DEF EraseInv, Gone
  <2>3. \A v \in Workers : task[v] = Idle \/ ~ Holds(v, u, {"revokeAll"}) BY <2>1 DEF Busy
  <2>4. ~ RevokeDue(u) BY <1>1, <2>3 DEF RevokeDue, Holds
  <2>5. AllRevoked(u)' BY <2>2, <2>4 DEF AllRevoked, Stop
  <2>6. \A v \in Workers : Bars(u, task'[v]) BY <1>1 DEF Bars
  <2>7. u \in DOMAIN users' /\ Anonymous(users'[u]) BY <2>2 DEF Stop
  <2> QED BY <2>5, <2>6, <2>7 DEF Gone
<1>6. WorkInv'
  <2>1. UNCHANGED users /\ erasure'.done = erasure.done BY <1>2 DEF Stop
  <2> QED BY <1>1, <2>1 DEF EraseInv, WorkInv, Lasts, Works
<1> QED BY <1>4, <1>5, <1>6 DEF EraseInv

\* A statement of the organizations, of the devices or of the desk.
LEMMA OtherStepErases ==
  ASSUME DeskInv, EraseInv, FoundInv, NEW w \in Workers,
         CompanyStep(w) \/ StoreDevice(w) \/ SetColumns(w) \/ DropDevice(w) \/ DeskStep(w)
  PROVE  EraseInv'
<1>1. DOMAIN task = Workers BY DEF DeskInv, RequestsOK
<1>2. ASSUME NEW todo, Done(w) \/ Fail(w) \/ Then(w, todo) PROVE \A v \in Workers \ {w} : task'[v] = task[v]
  BY <1>1, <1>2 DEF Done, Fail, Then
<1>3. {} \cap Ours = {} /\ BenchKinds \cap Ours = {} BY DEF BenchKinds, DeskKinds, Ours
<1>4. CASE CompanyStep(w)
  <2>1. Done(w) \/ Fail(w) BY <1>4 DEF CompanyStep, FoundOrganization, StoreOrganization, StoreMember, DropMember, StoreInvitation
  <2>2. task[w] # Idle /\ Now(w).do \in CompanyKinds
    BY <1>4 DEF CompanyStep, FoundOrganization, StoreOrganization, StoreMember, DropMember, StoreInvitation, At, CompanyKinds
  <2>3. Now(w).do \notin AccountKinds BY <2>2 DEF CompanyKinds, AccountKinds
  <2>4. UNCHANGED <<sessions, erasure>>
    BY <1>4 DEF CompanyStep, FoundOrganization, StoreOrganization, StoreMember, DropMember, StoreInvitation, accounts
  <2>5. \A u \in DOMAIN users : u \in DOMAIN users' /\ users'[u] = users[u]
    <3>1. CASE FoundOrganization(w)
      <4>1. UNCHANGED users \/ (Now(w).user \notin DOMAIN users /\ users' = With(users, Now(w).user, Now(w).row))
        BY <3>1 DEF FoundOrganization
      <4> QED BY <4>1 DEF With
    <3>2. CASE StoreOrganization(w) \/ StoreMember(w) \/ DropMember(w) \/ StoreInvitation(w)
      BY <3>2 DEF StoreOrganization, StoreMember, DropMember, StoreInvitation, accounts
    <3> QED BY <1>4, <3>1, <3>2 DEF CompanyStep
  <2>8. \A u \in DOMAIN users' \ DOMAIN users : users'[u].active
    <3>1. CASE FoundOrganization(w)
      <4>1. UNCHANGED users \/ users' = With(users, Now(w).user, Now(w).row) BY <3>1 DEF FoundOrganization
      <4>2. Now(w).row.active BY <3>1 DEF FoundOrganization, FoundInv
      <4> QED BY <4>1, <4>2 DEF With
    <3>2. CASE StoreOrganization(w) \/ StoreMember(w) \/ DropMember(w) \/ StoreInvitation(w)
      BY <3>2 DEF StoreOrganization, StoreMember, DropMember, StoreInvitation, accounts
    <3> QED BY <1>4, <3>1, <3>2 DEF CompanyStep
  <2>6. PICK K : K = {} OBVIOUS
  <2>7. Turns(K) /\ K \cap Ours = {} BY <1>3, <1>4, <2>6, StepTurns
  <2> QED BY <1>2, <2>1, <2>2, <2>3, <2>4, <2>5, <2>7, <2>8, OthersErase
<1>5. CASE StoreDevice(w) \/ SetColumns(w) \/ DropDevice(w)
  <2>1. task[w] # Idle /\ Done(w) /\ Now(w).do \notin AccountKinds /\ UNCHANGED <<users, sessions, erasure>>
    BY <1>5 DEF StoreDevice, SetColumns, DropDevice, At, AccountKinds, accounts
  <2>2. PICK K : K = {} OBVIOUS
  <2>3. Turns(K) /\ K \cap Ours = {} BY <1>3, <1>5, <2>2, StepTurns
  <2> QED BY <1>2, <2>1, <2>3, OthersErase
<1>6. CASE DeskStep(w)
  <2>1. \E todo : Done(w) \/ Fail(w) \/ Then(w, todo)
    BY <1>6 DEF DeskStep, StoreHardware, StoreRental, StorePrinter, RemovePrinters, SyncPrinter, MoveDevice, CutShort
  <2>2. task[w] # Idle /\ Now(w).do \in DeskKinds
    BY <1>6 DEF DeskStep, StoreHardware, StoreRental, StorePrinter, RemovePrinters, SyncPrinter, MoveDevice, At, DeskKinds
  <2>3. Now(w).do \notin AccountKinds BY <2>2 DEF DeskKinds, AccountKinds
  <2>4. UNCHANGED <<users, sessions, erasure>>
    BY <1>6 DEF DeskStep, StoreHardware, StoreRental, StorePrinter, RemovePrinters, SyncPrinter, MoveDevice, accounts
  <2>5. Turns(BenchKinds) BY <1>6, StepTurns
  <2>6. \A v \in Workers \ {w} : task'[v] = task[v] BY <1>2, <2>1
  <2> HIDE DEF BenchKinds
  <2> QED BY <1>3, <2>2, <2>3, <2>4, <2>5, <2>6, OthersErase
<1> QED BY <1>4, <1>5, <1>6

\* Whoever is to found an organization works.
LEMMA FounderWorks == ASSUME DeskInv, DeskInv', FoundInv, [Next]_vars PROVE FoundInv'
<1>1. ASSUME NEW K, Turns(K), "found" \notin K PROVE FoundInv'
  <2>1. ASSUME NEW v \in Workers, At(v, "found")' PROVE At(v, "found") /\ Now(v)' = Now(v)
    BY <1>1, <2>1, HeadStays DEF CompanyKinds
  <2> QED BY <2>1 DEF FoundInv
<1>2. ASSUME NEW w \in Workers, NEW s, One(w, s), s.do = "found" => s.row.active PROVE FoundInv'
  BY <1>2, OneHead DEF FoundInv
<1>3. ASSUME NEW w \in Workers, NEW a \in Users, CompanyRequest(w, a) PROVE FoundInv'
  BY <1>1, <1>2, <1>3, CompanyForms DEF OtherKinds, Founding, Adding, Changing, Dropping, Inviting, Joining
<1>4. ASSUME NEW w \in Workers, FleetRequest(w) PROVE FoundInv'
  BY <1>1, <1>2, <1>4, FleetForms DEF FleetKinds, Changing
<1>5. AccountsNext => FoundInv' BY <1>1, StepTurns DEF AccountKinds
<1>6. PICK K : K = {} OBVIOUS
<1>7. ASSUME NEW w \in Workers, CompanyStep(w) \/ StoreDevice(w) \/ SetColumns(w) \/ DropDevice(w) PROVE FoundInv'
  <2>1. Turns(K) BY <1>6, <1>7, StepTurns
  <2> QED BY <1>1, <1>6, <2>1
<1>8. ASSUME NEW w \in Workers, DeskRequest(w) \/ PrinterRequest(w) \/ DeskStep(w) PROVE FoundInv'
  <2>1. Turns(BenchKinds) BY <1>8, StepTurns
  <2>2. "found" \notin BenchKinds BY DEF BenchKinds, DeskKinds
  <2> QED BY <1>1, <2>1, <2>2
<1>9. CASE UNCHANGED vars
  <2>1. Turns(K) BY <1>6, <1>9, StepTurns
  <2> QED BY <1>1, <1>6, <2>1
<1>10. CASE Elsewhere
  BY <1>3, <1>4, <1>5, <1>7, <1>10 DEF Elsewhere, FleetNext, MembershipsNext
<1> QED BY <1>8, <1>9, <1>10 DEF Next

\* Every step leaves the erased accounts erased.
LEMMA EraseKeeps == ASSUME DeskInv, EraseInv, FoundInv, [Next]_vars PROVE EraseInv'
<1>1. ASSUME UNCHANGED <<task, users, sessions, erasure>> PROVE EraseInv'
  <2>1. Erased' = Erased BY <1>1 DEF Erased
  <2>2. \A u : Gone(u) => Gone(u)' BY <1>1 DEF Gone, RevokeDue, AllRevoked
  <2>3. WorkInv' BY <1>1 DEF EraseInv, WorkInv, Lasts, Works
  <2> QED BY <1>1, <2>1, <2>2, <2>3 DEF EraseInv
<1>2. CASE UNCHANGED vars BY <1>1, <1>2 DEF vars, requests, accounts
<1>3. CASE AccountsNext
  <2>1. ASSUME NEW t \in 1 .. MaxTokens, Expire(t) PROVE EraseInv' BY <1>1, <2>1 DEF Expire, requests
  <2>2. ASSUME NEW w \in Workers, AccountStep(w) PROVE EraseInv'
    BY <2>2, StoreUserErases, AccountStepErases DEF AccountStep
  <2> QED BY <1>3, <2>1, <2>2, StopErases, RequestErases DEF AccountsNext
<1>4. CASE Elsewhere
  <2>1. ASSUME NEW w \in Workers, \/ \E a \in Users : CompanyRequest(w, a)
                                  \/ FleetRequest(w) \/ CompanyStep(w) \/ StoreDevice(w) \/ SetColumns(w) \/ DropDevice(w)
        PROVE  EraseInv'
    BY <2>1, RequestErases, OtherStepErases
  <2> QED BY <1>3, <1>4, <2>1 DEF Elsewhere, FleetNext, MembershipsNext
<1>5. ASSUME NEW w \in Workers, DeskRequest(w) \/ PrinterRequest(w) \/ DeskStep(w) PROVE EraseInv'
  BY <1>5, RequestErases, OtherStepErases
<1> QED BY <1>2, <1>4, <1>5 DEF Next

\* Both from the start.
LEMMA ErasedStay == Spec => [](EraseInv /\ FoundInv)
<1>1. Init => EraseInv /\ FoundInv
  <2> SUFFICES ASSUME Init PROVE EraseInv /\ FoundInv OBVIOUS
  <2>1. Erased = {} /\ DOMAIN users = {} BY DEF Init, Erased, Empty
  <2>2. \A v \in Workers : task[v] = Idle /\ DOMAIN Idle = {} BY DEF Init, RequestsInit, Idle
  <2>3. \A v \in Workers : Whole(task[v]) /\ Lasts(task[v]) BY <2>2 DEF Whole, Lasts
  <2>4. FoundInv BY <2>2 DEF FoundInv, At
  <2> QED BY <2>1, <2>3, <2>4 DEF EraseInv, WorkInv
<1>2. DeskInv /\ DeskInv' /\ (EraseInv /\ FoundInv) /\ [Next]_vars => (EraseInv /\ FoundInv)' BY EraseKeeps, FounderWorks
<1> QED BY <1>1, <1>2, DeskInOrder, PTL DEF Spec

\* An erased account stays erased (ErasedStaysErased, anonymizeUser), for any number of requests
\* and stops: no token, link or refresh token, handed out before or asked for by the address that
\* is left, brings back a name, an address, a second factor or a link to a provider or switches
\* the account on, and no session of it is valid, unless a request was using the account, or the
\* process stopped, while it was erased.  A password and a confirmation it can get.
THEOREM ErasedAccountsStayErased == Spec => []ErasedStaysErased
<1>1. EraseInv => ErasedStaysErased
  <2> SUFFICES ASSUME EraseInv, NEW u \in Erased
               PROVE  /\ Anonymous(users[u])
                      /\ (\A v \in Busy : ~ Holds(v, u, {"revokeAll"})) => \A s \in SessionsOf(u) : sessions[s].revoked
    BY DEF ErasedStaysErased, Erased
  <2>1. Anonymous(users[u]) /\ (RevokeDue(u) \/ AllRevoked(u)) BY DEF EraseInv, Gone
  <2>2. ASSUME \A v \in Busy : ~ Holds(v, u, {"revokeAll"}) PROVE AllRevoked(u)
    <3>1. \A v \in Workers : task[v] = Idle \/ ~ Holds(v, u, {"revokeAll"}) BY <2>2 DEF Busy
    <3>2. DOMAIN Idle = {} BY DEF Idle
    <3>3. ~ RevokeDue(u) BY <3>1, <3>2 DEF RevokeDue, Holds
    <3> QED BY <2>1, <3>3
  <2> QED BY <2>1, <2>2 DEF AllRevoked, SessionsOf
<1> QED BY <1>1, ErasedStay, PTL

\* An organization keeps an administrator whose account works (AnAdminRemains) through removals,
\* demotions, erasures and stale saves (removeMember, updateMember, acceptInvitation,
\* assertNotLastOrgAdmin), for any number of requests and stops, unless another member demoted
\* the last one, two changes of its members overlapped, or one of its administrators is an
\* account that was erased.
THEOREM AdministratorsRemain == Spec => []AnAdminRemains
<1>1. Init => StaffInv
  <2> SUFFICES ASSUME Init PROVE StaffInv OBVIOUS
  <2>1. DOMAIN organizations = {} BY DEF Init, Empty
  <2>2. \A v \in Workers : task[v] = Idle BY DEF Init, RequestsInit
  <2> QED BY <2>1, <2>2 DEF StaffInv, Settled, InOne, At
<1>2. DeskInv /\ DeskInv' /\ StaffInv /\ [Next]_vars => StaffInv' BY StaffKeeps
<1>3. DeskInv /\ StaffInv /\ EraseInv => AnAdminRemains
  <2> SUFFICES ASSUME DeskInv, StaffInv, EraseInv, NEW o \in Settled PROVE Working(o) # {} \/ Left(o) # {}
    BY DEF AnAdminRemains
  <2>1. PICK m \in Admins(o) : TRUE BY DEF StaffInv
  <2>2. m \in DOMAIN members /\ members[m] \in MemberRows(Known) BY <2>1 DEF Admins, Of, DeskInv, CompanyTables, Table
  <2>3. members[m].user \in DOMAIN users BY <2>2 DEF MemberRows, Known
  <2>4. Works(members[m].user, users[members[m].user]) BY <2>3 DEF EraseInv, WorkInv
  <2> QED BY <2>1, <2>4 DEF Works, Working, Left
<1> QED BY <1>1, <1>2, <1>3, ErasedStay, DeskInOrder, PTL DEF Spec
=============================================================================
