-------------------------- MODULE RentalDesk_proofs --------------------------
(* What RentalDesk and the modules below it keep true, for any number of workers,
   users, organizations and tokens.  The requests only read: a request leaves a plan,
   the statements its worker has still to run.  DeskInv says what a plan may hold, so
   that the statements, one by one, keep the tables in order.                      *)
EXTENDS RentalDesk, FiniteSetTheorems, SequenceTheorems, TLAPS

-----------------------------------------------------------------------------
(* Rows and statements.  What they may name was drawn or stored before: k is what is *)
(* known of that at the moment, and it only ever grows.                              *)

Known ==
  [next |-> tokens.next, requests |-> load.requests, users |-> DOMAIN users,
   orgs |-> DOMAIN organizations, released |-> desk.released]

Grows(k, l) ==
  /\ k.next <= l.next /\ k.requests <= l.requests
  /\ k.users \subseteq l.users /\ k.orgs \subseteq l.orgs /\ k.released \subseteq l.released

Ids(k) == 1 .. (k.next - 1)
Opt(S) == S \cup {None}

UserRows(k) ==
  [email : Opt(Emails), named : BOOLEAN, active : BOOLEAN, verified : BOOLEAN, password : BOOLEAN,
   sso : BOOLEAN, verification : Opt(Ids(k)), failed : 0 .. k.requests, lock : Opt(Ids(k)),
   reset : Opt(Ids(k)), pending : Opt(Emails), change : Opt(Ids(k)), method : {None, "totp", "email"},
   secret : BOOLEAN, enabled : BOOLEAN, codes : 0 .. RecoveryCodes]
Factor(row) == row.enabled => row.method = "email" \/ (row.method = "totp" /\ row.secret)
AccountRows(k) == {row \in UserRows(k) : Factor(row)}
SessionRows == [user : Users, revoked : BOOLEAN]
OtpRows == [user : Users, purpose : Purposes, used : BOOLEAN, attempts : 0 .. MaxOtpAttempts]

OrgRows == [live : BOOLEAN, credential : Nat \cup {None, Masked}]
MemberRows(k) == [user : k.users, org : k.orgs, admin : BOOLEAN, permitted : BOOLEAN, pin : Opt(Pins)]
InvitationRows(k) == [org : k.orgs, email : Emails, admin : BOOLEAN, accepted : BOOLEAN]

DeviceRows(k) ==
  [org : Opt(Orgs), name : Names, status : Status, code : Opt(Ids(k)), active : BOOLEAN,
   client : Opt(Ids(k)), server : Opt(Users)]
Belongs(d, row, k) == row.status = "verified" => row.org \in k.orgs \/ d \in k.released

HardwareRows(k) == [status : {"available", "rented", "maintenance", "retired"}, device : Opt(Ids(k))]
RentalRows(k) == [hardware : Ids(k), org : k.orgs, status : Live \cup {"returned", "cancelled"}]
PrinterRows(k) == [org : Opt(Orgs), device : Opt(Ids(k)), rental : Opt(Ids(k)), local : Opt(Locals)]

UserSaves(k) ==
  {s \in [do : {"user"}, user : Users, row : AccountRows(k), erase : BOOLEAN] :
     s.erase => s.row = Anonymized}
AccountSteps(k) ==
  UserSaves(k) \cup [do : {"session", "revokeAll"}, user : Users]
    \cup [do : {"revoke", "forget"}, session : Ids(k)] \cup [do : {"revokeOthers"}, user : Users, but : Ids(k)]
    \cup [do : {"useOtps", "otp"}, user : Users, purpose : Purposes]
    \cup [do : {"saveOtp"}, code : Ids(k), row : OtpRows] \cup [do : {"trust", "untrust"}, user : Users]

Founds(k) == [do : {"found"}, org : Orgs, id : Ids(k), user : Users, row : AccountRows(k)]
OrgSaves(k) == [do : {"organization"}, org : k.orgs, row : OrgRows, members : SUBSET Id]
MemberSaves(k) ==
  {s \in [do : {"member"}, id : Ids(k), row : MemberRows(k), org : k.orgs, change : {"add", "update", "demote"}] :
     s.org = s.row.org}
MemberDrops(k) == [do : {"dropMember"}, id : Ids(k), org : k.orgs]
Accepts(k) ==
  {s \in [do : {"accept"}, id : Ids(k), row : MemberRows(k), org : k.orgs, invitation : Ids(k),
          as : InvitationRows(k)] : s.org = s.row.org /\ s.as.accepted}
CompanySteps(k) ==
  Founds(k) \cup OrgSaves(k) \cup [do : {"close"}, org : k.orgs] \cup MemberSaves(k) \cup MemberDrops(k)
    \cup Accepts(k) \cup [do : {"invite"}, id : Ids(k), row : InvitationRows(k)]
    \cup [do : {"uninvite"}, id : Ids(k)]

DeviceSaves(k) ==
  {s \in [do : {"device"}, id : Ids(k), row : DeviceRows(k), as : {"save", "admit", "block"}] :
     Belongs(s.id, s.row, k)}
FleetSteps(k) ==
  DeviceSaves(k) \cup [do : {"couple"}, id : Ids(k), server : Opt(Users)]
    \cup [do : {"client", "dropDevice"}, id : Ids(k)]

HardwareSaves(k) ==
  {s \in [do : {"hardware"}, id : Ids(k), row : HardwareRows(k), byHand : BOOLEAN, about : SUBSET Ids(k)] :
     s.about = {s.id}}
Frees(k) ==
  {s \in [do : {"free"}, id : Ids(k), byHand : BOOLEAN, about : SUBSET Ids(k)] : s.about = {s.id}}
HardwareDrops(k) ==
  {s \in [do : {"dropHardware"}, id : Ids(k), about : SUBSET Ids(k)] : s.about = {s.id}}
RentalSaves(k) ==
  {s \in [do : {"rental"}, id : Ids(k), row : RentalRows(k), about : SUBSET Ids(k)] :
     s.about = {s.id, s.row.hardware}}
PrinterSaves(k) ==
  {s \in [do : {"printer"}, id : Ids(k), row : PrinterRows(k), about : SUBSET Ids(k)] :
     s.about = {s.row.rental} \ {None}}
PrinterDrops(k) == [do : {"dropPrinters"}, gone : SUBSET Ids(k), about : SUBSET Ids(k)]
Moves(k) == [do : {"move"}, id : Ids(k), org : Opt(k.orgs), rest : Seq(PrinterSaves(k)), about : SUBSET Ids(k)]
BenchSteps(k) ==
  HardwareSaves(k) \cup Frees(k) \cup HardwareDrops(k) \cup RentalSaves(k) \cup PrinterSaves(k)
    \cup PrinterDrops(k) \cup Moves(k)
    \cup [do : {"dropPrintersOf", "release", "unassign"}, id : Ids(k), about : SUBSET Ids(k)]
    \cup [do : {"sync"}, id : Ids(k), org : Opt(Orgs), local : Locals, about : SUBSET Ids(k)]
DeskSteps(k) == BenchSteps(k) \cup DeviceSaves(k) \cup [do : {"dropDevice"}, id : Ids(k)]

(* A request of the accounts or of the desk has several statements, every other one.  *)
Plans(k) ==
  Seq(AccountSteps(k)) \cup {t \in Seq(CompanySteps(k) \cup FleetSteps(k)) : Len(t) <= 1}
    \cup Seq(DeskSteps(k))

Table(f, D, R) == DOMAIN f \subseteq D /\ f \in [DOMAIN f -> R]

AccountTables(k) ==
  /\ Table(users, Users, AccountRows(k)) /\ Table(sessions, Ids(k), SessionRows)
  /\ Table(otps, Ids(k), OtpRows) /\ trusted \subseteq Users
  /\ tokens \in [next : 1 .. (MaxTokens + 1), expired : SUBSET (1 .. MaxTokens)]
  /\ erasure \in [done : SUBSET DOMAIN users, raced : SUBSET Users]
CompanyTables(k) ==
  /\ Table(organizations, Orgs, OrgRows) /\ Table(members, Ids(k), MemberRows(k))
  /\ Table(invitations, Ids(k), InvitationRows(k))
  /\ staffing \in [raced : SUBSET Orgs, demoted : SUBSET Orgs, accepted : Seq(Ids(k))]
FleetTables(k) ==
  /\ Table(devices, Ids(k), DeviceRows(k)) /\ \A d \in DOMAIN devices : Belongs(d, devices[d], k)
  /\ blocked \in [now : SUBSET Ids(k), raced : SUBSET Ids(k)]
DeskTables(k) ==
  /\ Table(hardware, Ids(k), HardwareRows(k)) /\ Table(rentals, Ids(k), RentalRows(k))
  /\ Table(printers, Ids(k), PrinterRows(k))
  /\ \A h \in DOMAIN hardware : hardware[h].device \in DOMAIN devices \cup {None}
  /\ \A r \in DOMAIN rentals : rentals[r].hardware \in DOMAIN hardware
  /\ \A p \in DOMAIN printers : printers[p].device \in DOMAIN devices \cup {None}
  /\ desk \in [loose : SUBSET Ids(k), released : SUBSET Ids(k)]

DeskInv ==
  /\ RequestsOK /\ task \in [Workers -> Plans(Known)]
  /\ AccountTables(Known) /\ CompanyTables(Known) /\ FleetTables(Known) /\ DeskTables(Known)

-----------------------------------------------------------------------------
(* What is known only grows.                                                         *)

KnownType(k) == k.next \in Nat /\ k.requests \in Nat

\* Sequences over a larger set.
LEMMA SeqGrows == ASSUME NEW S, NEW T, S \subseteq T PROVE Seq(S) \subseteq Seq(T)
OBVIOUS

\* The rows of before are among the rows of now.
LEMMA RowsGrow ==
  ASSUME NEW k, NEW l, KnownType(k), KnownType(l), Grows(k, l)
  PROVE  /\ Ids(k) \subseteq Ids(l) /\ AccountRows(k) \subseteq AccountRows(l)
         /\ MemberRows(k) \subseteq MemberRows(l) /\ InvitationRows(k) \subseteq InvitationRows(l)
         /\ DeviceRows(k) \subseteq DeviceRows(l) /\ HardwareRows(k) \subseteq HardwareRows(l)
         /\ RentalRows(k) \subseteq RentalRows(l) /\ PrinterRows(k) \subseteq PrinterRows(l)
<1>1. Ids(k) \subseteq Ids(l) BY DEF Ids, Grows, KnownType
<1>2. 0 .. k.requests \subseteq 0 .. l.requests BY DEF Grows, KnownType
<1>3. k.users \subseteq l.users /\ k.orgs \subseteq l.orgs BY DEF Grows
<1>4. UserRows(k) \subseteq UserRows(l) BY <1>1, <1>2 DEF UserRows, Opt
<1>5. AccountRows(k) \subseteq AccountRows(l) BY <1>4 DEF AccountRows
<1>6. MemberRows(k) \subseteq MemberRows(l) /\ InvitationRows(k) \subseteq InvitationRows(l)
  BY <1>3 DEF MemberRows, InvitationRows
<1>7. DeviceRows(k) \subseteq DeviceRows(l) BY <1>1 DEF DeviceRows, Opt
<1>8. /\ HardwareRows(k) \subseteq HardwareRows(l) /\ RentalRows(k) \subseteq RentalRows(l)
      /\ PrinterRows(k) \subseteq PrinterRows(l)
  BY <1>1, <1>3 DEF HardwareRows, RentalRows, PrinterRows, Opt
<1> QED BY <1>1, <1>5, <1>6, <1>7, <1>8

\* So are the statements and the plans.
LEMMA PlansGrow ==
  ASSUME NEW k, NEW l, KnownType(k), KnownType(l), Grows(k, l)
  PROVE  /\ AccountSteps(k) \subseteq AccountSteps(l)
         /\ CompanySteps(k) \subseteq CompanySteps(l) /\ FleetSteps(k) \subseteq FleetSteps(l)
         /\ DeskSteps(k) \subseteq DeskSteps(l) /\ Plans(k) \subseteq Plans(l)
<1>1. k.orgs \subseteq l.orgs /\ k.released \subseteq l.released BY DEF Grows
<1>2. AccountSteps(k) \subseteq AccountSteps(l)
  <2>1. UserSaves(k) \subseteq UserSaves(l) BY RowsGrow DEF UserSaves
  <2> QED BY <2>1, RowsGrow DEF AccountSteps
<1>3. CompanySteps(k) \subseteq CompanySteps(l)
  <2>1. /\ Founds(k) \subseteq Founds(l) /\ OrgSaves(k) \subseteq OrgSaves(l)
        /\ MemberSaves(k) \subseteq MemberSaves(l) /\ MemberDrops(k) \subseteq MemberDrops(l)
    BY <1>1, RowsGrow DEF Founds, OrgSaves, MemberSaves, MemberDrops
  <2>2. Accepts(k) \subseteq Accepts(l) BY <1>1, RowsGrow DEF Accepts
  <2> QED BY <1>1, <2>1, <2>2, RowsGrow DEF CompanySteps
<1>4. DeviceSaves(k) \subseteq DeviceSaves(l) BY <1>1, RowsGrow DEF DeviceSaves, Belongs
<1>5. FleetSteps(k) \subseteq FleetSteps(l) BY <1>4, RowsGrow DEF FleetSteps
<1>6. DeskSteps(k) \subseteq DeskSteps(l)
  <2>1. /\ HardwareSaves(k) \subseteq HardwareSaves(l) /\ Frees(k) \subseteq Frees(l)
        /\ HardwareDrops(k) \subseteq HardwareDrops(l)
    BY RowsGrow DEF HardwareSaves, Frees, HardwareDrops
  <2>2. /\ RentalSaves(k) \subseteq RentalSaves(l) /\ PrinterSaves(k) \subseteq PrinterSaves(l)
        /\ PrinterDrops(k) \subseteq PrinterDrops(l)
    BY RowsGrow DEF RentalSaves, PrinterSaves, PrinterDrops
  <2>3. Seq(PrinterSaves(k)) \subseteq Seq(PrinterSaves(l)) BY <2>2, SeqGrows
  <2>4. Moves(k) \subseteq Moves(l) BY <1>1, <2>3, RowsGrow DEF Moves, Opt
  <2> QED BY <1>4, <2>1, <2>2, <2>4, RowsGrow DEF DeskSteps, BenchSteps
<1>7. CompanySteps(k) \cup FleetSteps(k) \subseteq CompanySteps(l) \cup FleetSteps(l)
  BY <1>3, <1>5
<1>8. /\ Seq(AccountSteps(k)) \subseteq Seq(AccountSteps(l)) /\ Seq(DeskSteps(k)) \subseteq Seq(DeskSteps(l))
      /\ Seq(CompanySteps(k) \cup FleetSteps(k)) \subseteq Seq(CompanySteps(l) \cup FleetSteps(l))
  BY <1>2, <1>6, <1>7, SeqGrows
<1>9. Plans(k) \subseteq Plans(l) BY <1>8 DEF Plans
<1> QED BY <1>2, <1>3, <1>5, <1>6, <1>9

-----------------------------------------------------------------------------
(* Requests.  A request that starts drew n numbers.                                  *)

Later(n) ==
  [next |-> tokens.next + n, requests |-> load.requests + 1, users |-> DOMAIN users,
   orgs |-> DOMAIN organizations, released |-> desk.released]

\* What is known when the request has started.
LEMMA LaterFacts ==
  ASSUME DeskInv, NEW n \in 0 .. 2
  PROVE  /\ KnownType(Known) /\ KnownType(Later(n)) /\ Grows(Known, Later(n))
         /\ Token \in Nat \ {0} /\ Known.next = Token /\ Later(n).next = Token + n
         /\ Known.requests = load.requests /\ Later(n).requests = load.requests + 1
         /\ Later(n).users = DOMAIN users /\ Later(n).orgs = DOMAIN organizations
         /\ Later(n).released = desk.released
         /\ Known.users = DOMAIN users /\ Known.orgs = DOMAIN organizations
         /\ Known.released = desk.released
         /\ Ids(Known) = 1 .. (Token - 1) /\ Ids(Later(n)) = 1 .. (Token + n - 1)
         /\ load.requests \in Nat
<1>1. tokens.next \in Nat \ {0} BY DEF DeskInv, AccountTables
<1>2. load.requests \in Nat BY RequestsAssumption DEF DeskInv, RequestsOK
<1>3. /\ Known.next = tokens.next /\ Known.requests = load.requests /\ Known.users = DOMAIN users
      /\ Known.orgs = DOMAIN organizations /\ Known.released = desk.released
  BY DEF Known
<1>4. /\ Later(n).next = tokens.next + n /\ Later(n).requests = load.requests + 1
      /\ Later(n).users = DOMAIN users /\ Later(n).orgs = DOMAIN organizations
      /\ Later(n).released = desk.released
  BY DEF Later, Known
<1> QED BY <1>1, <1>2, <1>3, <1>4 DEF KnownType, Grows, Ids, Token

\* Rows of accounts as a request may write them.
LEMMA AccountRow ==
  ASSUME DeskInv, NEW n \in 0 .. 2, NEW u \in DOMAIN users
  PROVE  /\ users[u] \in AccountRows(Later(n)) /\ u \in Users
         /\ users[u] \in UserRows(Later(n)) /\ Factor(users[u])
         /\ users[u].failed \in 0 .. load.requests /\ users[u].codes \in 0 .. RecoveryCodes
<1>1. users[u] \in AccountRows(Known) /\ u \in Users BY DEF DeskInv, AccountTables, Table
<1>2. users[u] \in AccountRows(Later(n)) BY <1>1, LaterFacts, RowsGrow
<1>3. users[u].failed \in 0 .. load.requests /\ users[u].codes \in 0 .. RecoveryCodes
  BY <1>1, LaterFacts DEF AccountRows, UserRows
<1> QED BY <1>1, <1>2, <1>3 DEF AccountRows

\* A new account.
LEMMA NewRow ==
  ASSUME DeskInv, NEW n \in 0 .. 2, NEW email \in Opt(Emails)
  PROVE  NewUser(email) \in UserRows(Later(n)) /\ Factor(NewUser(email))
BY LaterFacts, AccountsAssumption DEF NewUser, UserRows, Factor, Opt

AccountPlan(w, n, todo) == todo \in Seq(AccountSteps(Later(n))) /\ Draw(n) /\ Reply(w, todo)

\* Statements of the accounts.
LEMMA AccountStatements ==
  ASSUME NEW k, NEW u \in Users
  PROVE  /\ \A row \in AccountRows(k) : SaveUser(u, row) \in AccountSteps(k)
         /\ NewSession(u) \in AccountSteps(k) /\ RevokeAll(u) \in AccountSteps(k)
         /\ [do |-> "untrust", user |-> u] \in AccountSteps(k)
         /\ [do |-> "trust", user |-> u] \in AccountSteps(k)
<1>1. \A row \in AccountRows(k) : SaveUser(u, row) \in UserSaves(k) BY DEF SaveUser, UserSaves
<1>2. /\ NewSession(u) \in [do : {"session", "revokeAll"}, user : Users]
      /\ RevokeAll(u) \in [do : {"session", "revokeAll"}, user : Users]
      /\ [do |-> "untrust", user |-> u] \in [do : {"trust", "untrust"}, user : Users]
      /\ [do |-> "trust", user |-> u] \in [do : {"trust", "untrust"}, user : Users]
  BY DEF NewSession, RevokeAll
<1> QED BY <1>1, <1>2 DEF AccountSteps

\* A request that saves one row.
LEMMA OneSave ==
  ASSUME NEW w \in Workers, NEW u \in Users, NEW n \in 0 .. 2, NEW row \in AccountRows(Later(n)),
         Draw(n), Reply(w, <<SaveUser(u, row)>>)
  PROVE  \E m \in 0 .. 2 : \E todo : AccountPlan(w, m, todo)
<1>1. SaveUser(u, row) \in AccountSteps(Later(n)) BY AccountStatements
<1>2. <<SaveUser(u, row)>> \in Seq(AccountSteps(Later(n))) BY <1>1
<1> QED BY <1>2 DEF AccountPlan

\* What the requests write in a row.
Edits(k, old) ==
  /\ old \in AccountRows(k)
  /\ \A t \in Opt(Ids(k)) : /\ \A email \in Opt(Emails) :
                                [old EXCEPT !.pending = email, !.change = t] \in AccountRows(k)
                           /\ [old EXCEPT !.verified = TRUE, !.verification = t] \in AccountRows(k)
                           /\ [old EXCEPT !.verification = t] \in AccountRows(k)
                           /\ [old EXCEPT !.reset = t] \in AccountRows(k)
  /\ \A email \in Opt(Emails) :
       [old EXCEPT !.email = email, !.pending = None, !.change = None] \in AccountRows(k)
  /\ [old EXCEPT !.named = TRUE] \in AccountRows(k)
  /\ \A n \in 0 .. k.requests :
       /\ \A t \in Opt(Ids(k)) : [old EXCEPT !.failed = n, !.lock = t] \in AccountRows(k)
       /\ [old EXCEPT !.password = TRUE, !.reset = None, !.failed = n, !.lock = None] \in AccountRows(k)
  /\ \A b \in BOOLEAN : [old EXCEPT !.sso = TRUE, !.verified = b] \in AccountRows(k)
  /\ \A c \in 0 .. RecoveryCodes : [old EXCEPT !.codes = c] \in AccountRows(k)
  /\ [old EXCEPT !.enabled = FALSE, !.method = None, !.secret = FALSE, !.codes = 0] \in AccountRows(k)
  /\ ~ old.enabled => /\ [old EXCEPT !.secret = TRUE, !.method = "totp"] \in AccountRows(k)
                      /\ [old EXCEPT !.method = "email"] \in AccountRows(k)
  /\ Enabled(old, "email") \in AccountRows(k)
  /\ old.secret => Enabled(old, "totp") \in AccountRows(k)

\* What the requests write in a row keeps it well formed, and its second factor usable.
LEMMA RowEdits ==
  ASSUME NEW k, NEW old \in UserRows(k), Factor(old)
  PROVE  Edits(k, old)
<1>1. 0 \in 0 .. RecoveryCodes /\ RecoveryCodes \in 0 .. RecoveryCodes BY AccountsAssumption
<1>2. old \in AccountRows(k) BY DEF AccountRows
<1> USE DEF AccountRows, UserRows, Factor
<1>3. \A t \in Opt(Ids(k)) : \A email \in Opt(Emails) :
        [old EXCEPT !.pending = email, !.change = t] \in AccountRows(k)
  <2> SUFFICES ASSUME NEW t \in Opt(Ids(k)), NEW email \in Opt(Emails)
               PROVE  [old EXCEPT !.pending = email, !.change = t] \in AccountRows(k)
    OBVIOUS
  <2>1. [old EXCEPT !.pending = email] \in UserRows(k) /\ Factor([old EXCEPT !.pending = email])
    OBVIOUS
  <2> DEFINE mid == [old EXCEPT !.pending = email]
  <2>2. mid \in UserRows(k) /\ Factor(mid) BY <2>1
  <2> HIDE DEF mid
  <2>3. [mid EXCEPT !.change = t] \in AccountRows(k) BY <2>2
  <2> QED BY <2>3 DEF mid
<1>4. \A t \in Opt(Ids(k)) : /\ [old EXCEPT !.verified = TRUE, !.verification = t] \in AccountRows(k)
                            /\ [old EXCEPT !.verification = t] \in AccountRows(k)
                            /\ [old EXCEPT !.reset = t] \in AccountRows(k)
  OBVIOUS
<1>5. \A email \in Opt(Emails) :
        [old EXCEPT !.email = email, !.pending = None, !.change = None] \in AccountRows(k)
  BY DEF Opt
<1>6. [old EXCEPT !.named = TRUE] \in AccountRows(k) OBVIOUS
<1>7. \A n \in 0 .. k.requests : \A t \in Opt(Ids(k)) :
        [old EXCEPT !.failed = n, !.lock = t] \in AccountRows(k)
  OBVIOUS
<1>8. \A n \in 0 .. k.requests :
        [old EXCEPT !.password = TRUE, !.reset = None, !.failed = n, !.lock = None] \in AccountRows(k)
  BY DEF Opt
<1>9. \A b \in BOOLEAN : [old EXCEPT !.sso = TRUE, !.verified = b] \in AccountRows(k) OBVIOUS
<1>10. \A c \in 0 .. RecoveryCodes : [old EXCEPT !.codes = c] \in AccountRows(k) OBVIOUS
<1>11. [old EXCEPT !.enabled = FALSE, !.method = None, !.secret = FALSE, !.codes = 0] \in AccountRows(k)
  BY <1>1
<1>12. ~ old.enabled => [old EXCEPT !.secret = TRUE, !.method = "totp"] \in AccountRows(k) OBVIOUS
<1>13. ~ old.enabled => [old EXCEPT !.method = "email"] \in AccountRows(k) OBVIOUS
<1>14. Enabled(old, "email") \in AccountRows(k) BY <1>1 DEF Enabled
<1>15. old.secret => Enabled(old, "totp") \in AccountRows(k) BY <1>1 DEF Enabled
<1> HIDE DEF AccountRows, UserRows, Factor
<1> QED BY Zenon, <1>2, <1>3, <1>4, <1>5, <1>6, <1>7, <1>8, <1>9, <1>10, <1>11, <1>12, <1>13, <1>14, <1>15
        DEF Edits

\* Registration and the address.
LEMMA AddressRequests ==
  ASSUME DeskInv, NEW w \in Workers, NEW u \in Users, NEW email \in Opt(Emails),
         \/ Register(w, u, email) \/ RequestEmailChange(w, u, email) \/ VerifyEmail(w, u)
         \/ ResendVerificationEmail(w, u) \/ VerifyEmailChange(w, u) \/ UpdateProfile(w, u)
         \/ ForgotPassword(w, u) \/ ChangePassword(w, u) \/ UnlockUser(w, u)
  PROVE  \E n \in 0 .. 2 : \E todo : AccountPlan(w, n, todo)
<1>1. CASE Register(w, u, email)
  <2> DEFINE row == [NewUser(email) EXCEPT !.verification = Token]
  <2>1. Token \in Ids(Later(1)) BY LaterFacts
  <2>2. NewUser(email) \in UserRows(Later(1)) /\ Factor(NewUser(email)) BY NewRow DEF Opt
  <2>3. Edits(Later(1), NewUser(email)) BY <2>2, RowEdits
  <2>4. row \in AccountRows(Later(1)) BY Zenon, <2>1, <2>3 DEF Opt, Edits
  <2> HIDE DEF row
  <2> QED BY <1>1, <2>4, OneSave DEF Register, row
<1>2. ASSUME u \in DOMAIN users, NEW n \in {0, 1}, NEW row, Draw(n), Reply(w, <<SaveUser(u, row)>>),
             \/ row = [users[u] EXCEPT !.pending = email, !.change = Token] /\ n = 1
             \/ row = [users[u] EXCEPT !.verified = TRUE, !.verification = None]
             \/ row = [users[u] EXCEPT !.verification = Token] /\ n = 1
             \/ row = [users[u] EXCEPT !.email = users[u].pending, !.pending = None, !.change = None]
             \/ row = [users[u] EXCEPT !.named = TRUE]
             \/ row = [users[u] EXCEPT !.reset = Token] /\ n = 1
             \/ row = users[u]
             \/ row = [users[u] EXCEPT !.failed = 0, !.lock = None]
      PROVE  \E m \in 0 .. 2 : \E todo : AccountPlan(w, m, todo)
  <2> DEFINE old == users[u]
  <2>1. old \in UserRows(Later(n)) /\ Factor(old) BY <1>2, AccountRow
  <2>2. n = 1 => Token \in Opt(Ids(Later(n))) BY LaterFacts DEF Opt
  <2>3. 0 \in 0 .. Later(n).requests /\ None \in Opt(Ids(Later(n))) /\ email \in Opt(Emails)
    BY LaterFacts DEF Opt
  <2>4. old.pending \in Opt(Emails) BY <2>1 DEF UserRows
  <2>5. \/ row = [old EXCEPT !.pending = email, !.change = Token] /\ n = 1
        \/ row = [old EXCEPT !.verified = TRUE, !.verification = None]
        \/ row = [old EXCEPT !.verification = Token] /\ n = 1
        \/ row = [old EXCEPT !.email = old.pending, !.pending = None, !.change = None]
        \/ row = [old EXCEPT !.named = TRUE]
        \/ row = [old EXCEPT !.reset = Token] /\ n = 1
        \/ row = old
        \/ row = [old EXCEPT !.failed = 0, !.lock = None]
    BY <1>2
  <2>6. old \in AccountRows(Later(n)) BY <2>1 DEF AccountRows
  <2> HIDE DEF old
  <2>7. Edits(Later(n), old) BY <2>1, RowEdits
  <2>8. row \in AccountRows(Later(n))
    <3>1. CASE row = [old EXCEPT !.pending = email, !.change = Token] /\ n = 1
      BY Zenon, <2>2, <2>3, <2>4, <2>6, <2>7, <3>1 DEF Edits
    <3>2. CASE row = [old EXCEPT !.verified = TRUE, !.verification = None]
      BY Zenon, <2>2, <2>3, <2>4, <2>6, <2>7, <3>2 DEF Edits
    <3>3. CASE row = [old EXCEPT !.verification = Token] /\ n = 1
      BY Zenon, <2>2, <2>3, <2>4, <2>6, <2>7, <3>3 DEF Edits
    <3>4. CASE row = [old EXCEPT !.email = old.pending, !.pending = None, !.change = None]
      BY Zenon, <2>2, <2>3, <2>4, <2>6, <2>7, <3>4 DEF Edits
    <3>5. CASE row = [old EXCEPT !.named = TRUE]
      BY Zenon, <2>2, <2>3, <2>4, <2>6, <2>7, <3>5 DEF Edits
    <3>6. CASE row = [old EXCEPT !.reset = Token] /\ n = 1
      BY Zenon, <2>2, <2>3, <2>4, <2>6, <2>7, <3>6 DEF Edits
    <3>7. CASE row = old
      BY Zenon, <2>2, <2>3, <2>4, <2>6, <2>7, <3>7 DEF Edits
    <3>8. CASE row = [old EXCEPT !.failed = 0, !.lock = None]
      BY Zenon, <2>2, <2>3, <2>4, <2>6, <2>7, <3>8 DEF Edits
    <3> QED BY <2>5, <3>1, <3>2, <3>3, <3>4, <3>5, <3>6, <3>7, <3>8
  <2> QED BY <1>2, <2>8, OneSave
<1>3. CASE RequestEmailChange(w, u, email) BY <1>2, <1>3 DEF RequestEmailChange, SignedIn
<1>4. CASE VerifyEmail(w, u) BY <1>2, <1>4 DEF VerifyEmail
<1>5. CASE ResendVerificationEmail(w, u) BY <1>2, <1>5 DEF ResendVerificationEmail
<1>6. CASE VerifyEmailChange(w, u) BY <1>2, <1>6 DEF VerifyEmailChange
<1>7. CASE UpdateProfile(w, u) BY <1>2, <1>7 DEF UpdateProfile, SignedIn
<1>8. CASE ForgotPassword(w, u) BY <1>2, <1>8 DEF ForgotPassword
<1>9. CASE ChangePassword(w, u) BY <1>2, <1>9 DEF ChangePassword, SignedIn
<1>10. CASE UnlockUser(w, u) BY <1>2, <1>10 DEF UnlockUser
<1> QED BY <1>1, <1>3, <1>4, <1>5, <1>6, <1>7, <1>8, <1>9, <1>10

\* Plans of one, two and three statements.
LEMMA FewStatements ==
  ASSUME NEW S, NEW a \in S, NEW b \in S, NEW c \in S
  PROVE  <<>> \in Seq(S) /\ <<a>> \in Seq(S) /\ <<a, b>> \in Seq(S) /\ <<a, b, c>> \in Seq(S)
OBVIOUS

\* Signing in and out.
LEMMA SignInRequests ==
  ASSUME DeskInv, NEW w \in Workers, NEW u \in Users,
         \/ Login(w, u) \/ HandleFailedLogin(w, u) \/ LogoutAll(w, u) \/ ResetPassword(w, u)
         \/ \E email \in Emails, confirmed \in BOOLEAN : LoginWithSsoProfile(w, u, email, confirmed)
         \/ \E s \in DOMAIN sessions : Logout(w, u, s) \/ RevokeAllOtherSessions(w, u, s)
  PROVE  \E n \in 0 .. 2 : \E todo : AccountPlan(w, n, todo)
<1> DEFINE S == AccountSteps(Later(0))
<1>0. /\ DOMAIN sessions \subseteq Ids(Later(0)) /\ 0 \in 0 .. 2 /\ 0 \in 0 .. Later(0).requests
      /\ None \in Opt(Ids(Later(0)))
  BY LaterFacts DEF DeskInv, AccountTables, Table, Opt
<1>1. /\ \A row \in AccountRows(Later(0)) : SaveUser(u, row) \in S
      /\ NewSession(u) \in S /\ RevokeAll(u) \in S
  BY AccountStatements
<1>2. ASSUME u \in DOMAIN users
      PROVE  Edits(Later(0), users[u])
  BY <1>2, AccountRow, RowEdits
<1>3. \A s \in DOMAIN sessions :
        [do |-> "revoke", session |-> s] \in S /\ [do |-> "revokeOthers", user |-> u, but |-> s] \in S
  BY <1>0 DEF AccountSteps
<1> HIDE DEF S
<1>4. CASE Login(w, u)
  <2> DEFINE row == [users[u] EXCEPT !.failed = 0, !.lock = IF users[u].failed > 0 THEN None ELSE @]
             todo == (IF users[u].failed > 0 THEN <<SaveUser(u, row)>> ELSE <<>>)
                       \o <<SaveUser(u, row), NewSession(u)>>
  <2>1. u \in DOMAIN users BY <1>4 DEF Login, SignedIn
  <2>2. row = [users[u] EXCEPT !.failed = 0, !.lock = IF users[u].failed > 0 THEN None ELSE users[u].lock]
    OBVIOUS
  <2>3. users[u].lock \in Opt(Ids(Later(0))) BY <2>1, <1>0, AccountRow DEF UserRows
  <2>4. row \in AccountRows(Later(0)) BY Zenon, <2>1, <2>2, <2>3, <1>0, <1>2 DEF Edits
  <2>5. Draw(0) /\ Reply(w, todo) BY <1>4 DEF Login
  <2> HIDE DEF row
  <2>6. SaveUser(u, row) \in S BY <2>4, <1>1
  <2>7. <<SaveUser(u, row)>> \in Seq(S) /\ <<>> \in Seq(S) /\ <<SaveUser(u, row), NewSession(u)>> \in Seq(S)
    BY <2>6, <1>1, FewStatements
  <2>8. todo \in Seq(S) BY <2>7, ConcatProperties
  <2> QED BY <2>5, <2>8, <1>0 DEF AccountPlan, S
<1>5. CASE HandleFailedLogin(w, u)
  <2> DEFINE failed == users[u].failed + 1
             locks == failed >= MaxLoginAttempts
             n == IF locks THEN 1 ELSE 0
             row == [users[u] EXCEPT !.failed = failed, !.lock = IF locks THEN Token ELSE @]
  <2>1. u \in DOMAIN users /\ Draw(n) /\ Reply(w, <<SaveUser(u, row)>>)
    BY <1>5 DEF HandleFailedLogin, SignedIn
  <2>2. row = [users[u] EXCEPT !.failed = failed, !.lock = IF locks THEN Token ELSE users[u].lock]
    OBVIOUS
  <2>3. users[u] \in UserRows(Later(n)) /\ Factor(users[u]) /\ n \in 0 .. 2 BY <2>1, AccountRow
  <2>4. failed \in 0 .. Later(n).requests BY <2>1, <2>3, AccountRow, LaterFacts
  <2>5. locks => Token \in Opt(Ids(Later(n))) BY LaterFacts DEF Opt
  <2>6. users[u].lock \in Opt(Ids(Later(n))) BY <2>3 DEF UserRows
  <2>7. Edits(Later(n), users[u]) BY <2>3, RowEdits
  <2> HIDE DEF failed, locks, n
  <2>8. row \in AccountRows(Later(n)) BY Zenon, <2>2, <2>4, <2>5, <2>6, <2>7 DEF Edits
  <2> HIDE DEF row
  <2> QED BY <2>1, <2>3, <2>8, OneSave
<1>6. CASE LogoutAll(w, u)
  <2>1. <<RevokeAll(u)>> \in Seq(S) BY <1>1, FewStatements
  <2> QED BY <1>6, <1>0, <2>1 DEF LogoutAll, AccountPlan, S
<1>7. CASE ResetPassword(w, u)
  <2> DEFINE row == [users[u] EXCEPT !.password = TRUE, !.reset = None, !.failed = 0, !.lock = None]
  <2>1. u \in DOMAIN users /\ Draw(0) /\ Reply(w, <<SaveUser(u, row), RevokeAll(u)>>)
    BY <1>7 DEF ResetPassword
  <2>2. row \in AccountRows(Later(0)) BY Zenon, <2>1, <1>0, <1>2 DEF Edits
  <2> HIDE DEF row
  <2>3. <<SaveUser(u, row), RevokeAll(u)>> \in Seq(S) BY <2>2, <1>1, FewStatements
  <2> QED BY <2>1, <2>3, <1>0 DEF AccountPlan, S
<1>8. ASSUME NEW email \in Emails, NEW confirmed \in BOOLEAN, LoginWithSsoProfile(w, u, email, confirmed)
      PROVE  \E n \in 0 .. 2 : \E todo : AccountPlan(w, n, todo)
  <2> DEFINE linked == u \in DOMAIN users /\ users[u].sso
             known == u \in DOMAIN users /\ users[u].email = email
             row == IF linked THEN users[u]
                    ELSE IF known THEN [users[u] EXCEPT !.sso = TRUE, !.verified = @ \/ confirmed]
                    ELSE [NewUser(email) EXCEPT !.password = FALSE, !.sso = TRUE, !.verified = confirmed]
             signIn == IF row.active /\ Unlocked(row) THEN <<SaveUser(u, row), NewSession(u)>> ELSE <<>>
             todo == (IF linked THEN <<>> ELSE <<SaveUser(u, row)>>) \o signIn
  <2>1. Draw(0) /\ Reply(w, todo) BY <1>8 DEF LoginWithSsoProfile
  <2>2. row \in AccountRows(Later(0))
    <3>1. CASE linked BY <3>1, AccountRow
    <3>2. CASE ~ linked /\ known
      <4>1. (users[u].verified \/ confirmed) \in BOOLEAN OBVIOUS
      <4>2. row = [users[u] EXCEPT !.sso = TRUE, !.verified = users[u].verified \/ confirmed] BY <3>2
      <4> HIDE DEF row
      <4> QED BY Zenon, <3>2, <4>1, <4>2, <1>2 DEF Edits
    <3>3. CASE ~ linked /\ ~ known
      <4> DEFINE fresh == NewUser(email)
      <4>1. fresh \in UserRows(Later(0)) /\ Factor(fresh) BY NewRow DEF Opt
      <4>2. row = [fresh EXCEPT !.password = FALSE, !.sso = TRUE, !.verified = confirmed] BY <3>3
      <4> HIDE DEF fresh, row
      <4>3. row \in UserRows(Later(0)) /\ Factor(row) BY <4>1, <4>2 DEF UserRows, Factor
      <4> QED BY <4>3 DEF AccountRows
    <3> QED BY <3>1, <3>2, <3>3
  <2> HIDE DEF row
  <2>3. SaveUser(u, row) \in S BY <2>2, <1>1
  <2>4. <<SaveUser(u, row)>> \in Seq(S) /\ <<>> \in Seq(S) /\ <<SaveUser(u, row), NewSession(u)>> \in Seq(S)
    BY <2>3, <1>1, FewStatements
  <2>5. todo \in Seq(S) BY <2>4, ConcatProperties
  <2> QED BY <2>1, <2>5, <1>0 DEF AccountPlan, S
<1>9. ASSUME NEW s \in DOMAIN sessions, Logout(w, u, s) \/ RevokeAllOtherSessions(w, u, s)
      PROVE  \E n \in 0 .. 2 : \E todo : AccountPlan(w, n, todo)
  <2>1. /\ <<[do |-> "revoke", session |-> s]>> \in Seq(S)
        /\ <<[do |-> "revokeOthers", user |-> u, but |-> s]>> \in Seq(S)
    BY <1>3, FewStatements
  <2> QED BY <1>0, <1>9, <2>1 DEF Logout, RevokeAllOtherSessions, AccountPlan, S
<1> QED BY <1>4, <1>5, <1>6, <1>7, <1>8, <1>9

\* Refresh tokens.
LEMMA RefreshRequests ==
  ASSUME DeskInv, NEW w \in Workers, NEW s \in DOMAIN sessions, RefreshTokens(w, s) \/ RefreshExpired(w, s)
  PROVE  \E n \in 0 .. 2 : \E todo : AccountPlan(w, n, todo)
<1> DEFINE S == AccountSteps(Later(0))
<1>1. /\ s \in Ids(Later(0)) /\ sessions[s].user \in Users /\ 0 \in 0 .. 2
  BY LaterFacts DEF DeskInv, AccountTables, Table, SessionRows
<1>2. [do |-> "revoke", session |-> s] \in S /\ [do |-> "forget", session |-> s] \in S
  BY <1>1 DEF AccountSteps
<1>3. NewSession(sessions[s].user) \in S BY <1>1, AccountStatements
<1> HIDE DEF S
<1>4. /\ <<[do |-> "revoke", session |-> s], NewSession(sessions[s].user)>> \in Seq(S)
      /\ <<[do |-> "forget", session |-> s]>> \in Seq(S)
  BY <1>2, <1>3, FewStatements
<1> QED BY <1>1, <1>4 DEF RefreshTokens, RefreshExpired, AccountPlan, S

\* Codes that may be used, and what a try writes.
LEMMA OtpStatements ==
  ASSUME DeskInv, NEW u, NEW purpose, NEW c \in Usable(u, purpose)
  PROVE  UseOtp(c) \in AccountSteps(Later(0)) /\ MissOtp(c) \in AccountSteps(Later(0))
<1>1. c \in DOMAIN otps /\ otps[c].attempts < MaxOtpAttempts BY DEF Usable, Pending
<1>2. c \in Ids(Known) /\ otps[c] \in OtpRows BY <1>1 DEF DeskInv, AccountTables, Table
<1>3. c \in Ids(Later(0)) BY <1>2, LaterFacts, RowsGrow
<1>4. otps[c].attempts + 1 \in 0 .. MaxOtpAttempts BY <1>1, <1>2, AccountsAssumption DEF OtpRows
<1>5. [otps[c] EXCEPT !.used = TRUE] \in OtpRows BY <1>2 DEF OtpRows
<1>6. [otps[c] EXCEPT !.attempts = @ + 1] \in OtpRows BY <1>2, <1>4 DEF OtpRows
<1> QED BY <1>3, <1>5, <1>6 DEF UseOtp, MissOtp, AccountSteps

\* The second factor.
LEMMA FactorRequests ==
  ASSUME DeskInv, NEW w \in Workers, NEW u \in Users, FactorRequest(w, u)
  PROVE  \E n \in 0 .. 2 : \E todo : AccountPlan(w, n, todo)
<1> DEFINE S == AccountSteps(Later(0))
<1>0. 0 \in 0 .. 2 OBVIOUS
<1>1. /\ \A row \in AccountRows(Later(0)) : SaveUser(u, row) \in S
      /\ [do |-> "untrust", user |-> u] \in S /\ [do |-> "trust", user |-> u] \in S
  BY AccountStatements
<1>2. ASSUME u \in DOMAIN users
      PROVE  Edits(Later(0), users[u]) /\ users[u].codes \in 0 .. RecoveryCodes
  BY <1>2, AccountRow, RowEdits
<1>3. \A purpose \in Purposes :
        /\ [do |-> "useOtps", user |-> u, purpose |-> purpose] \in S
        /\ [do |-> "otp", user |-> u, purpose |-> purpose] \in S
  BY DEF AccountSteps
<1>4. \A purpose : \A c \in Usable(u, purpose) : UseOtp(c) \in S /\ MissOtp(c) \in S
  BY OtpStatements
<1>5. "setup" \in Purposes /\ "login" \in Purposes BY DEF Purposes
<1>6. SignedIn(u) => u \in DOMAIN users BY DEF SignedIn
<1> HIDE DEF S
<1>7. CASE SetupTotp(w, u)
  <2>1. [users[u] EXCEPT !.secret = TRUE, !.method = "totp"] \in AccountRows(Later(0))
    BY Zenon, <1>2, <1>6, <1>7 DEF SetupTotp, Edits
  <2> QED BY <1>0, <1>7, <2>1, OneSave DEF SetupTotp
<1>8. CASE VerifyTotpSetup(w, u)
  <2>1. Enabled(users[u], "totp") \in AccountRows(Later(0))
    BY Zenon, <1>2, <1>6, <1>8 DEF VerifyTotpSetup, Edits
  <2> QED BY <1>0, <1>8, <2>1, OneSave DEF VerifyTotpSetup
<1>9. CASE SetupEmailOtp(w, u)
  <2> DEFINE row == [users[u] EXCEPT !.method = "email"]
  <2>1. row \in AccountRows(Later(0)) BY Zenon, <1>2, <1>6, <1>9 DEF SetupEmailOtp, Edits
  <2> HIDE DEF row
  <2>2. SendOtp(u, "setup") \in Seq(S) /\ <<SaveUser(u, row)>> \in Seq(S)
    BY <2>1, <1>1, <1>3, <1>5, FewStatements DEF SendOtp
  <2>3. SendOtp(u, "setup") \o <<SaveUser(u, row)>> \in Seq(S) BY <2>2, ConcatProperties
  <2> QED BY <1>0, <1>9, <2>3 DEF SetupEmailOtp, AccountPlan, S, row
<1>10. CASE SendLoginOtp(w, u)
  <2>1. SendOtp(u, "login") \in Seq(S) BY <1>3, <1>5, FewStatements DEF SendOtp
  <2> QED BY <1>0, <1>10, <2>1 DEF SendLoginOtp, AccountPlan, S
<1>11. ASSUME NEW right \in BOOLEAN, VerifyEmailOtpSetup(w, u, right)
       PROVE  \E n \in 0 .. 2 : \E todo : AccountPlan(w, n, todo)
  <2>1. PICK c \in Usable(u, "setup") :
          Draw(0) /\ Reply(w, IF right THEN <<UseOtp(c), SaveUser(u, Enabled(users[u], "email"))>> ELSE <<MissOtp(c)>>)
    BY <1>11 DEF VerifyEmailOtpSetup
  <2>2. Enabled(users[u], "email") \in AccountRows(Later(0))
    BY Zenon, <1>2, <1>6, <1>11 DEF VerifyEmailOtpSetup, Edits
  <2>3. <<UseOtp(c), SaveUser(u, Enabled(users[u], "email"))>> \in Seq(S) /\ <<MissOtp(c)>> \in Seq(S)
    BY <2>2, <1>1, <1>4, FewStatements
  <2> QED BY <1>0, <2>1, <2>3 DEF AccountPlan, S
<1>12. ASSUME NEW right \in BOOLEAN, NEW recovery \in BOOLEAN, NEW trust \in BOOLEAN,
              Verify2FA(w, u, right, recovery, trust)
       PROVE  \E n \in 0 .. 2 : \E todo : AccountPlan(w, n, todo)
  <2> DEFINE mailed == IF users[u].method = "email" THEN Usable(u, "login") ELSE {}
             tried == {IF right THEN UseOtp(c) ELSE MissOtp(c) : c \in mailed}
             byCode == right /\ (users[u].method = "totp" \/ mailed # {})
             byRecovery == ~byCode /\ recovery /\ users[u].codes > 0
             row == [users[u] EXCEPT !.codes = @ - 1]
             second == IF byRecovery THEN <<SaveUser(u, row)>> ELSE <<>>
             third == IF byCode \/ byRecovery THEN Trust(u, trust) ELSE <<>>
  <2>1. PICK first \in {<<>>} \cup {<<t>> : t \in tried} : Draw(0) /\ Reply(w, first \o second \o third)
    BY <1>12 DEF Verify2FA
  <2>2. u \in DOMAIN users BY <1>12, <1>6 DEF Verify2FA
  <2>3. byRecovery => SaveUser(u, row) \in S
    <3>1. SUFFICES ASSUME byRecovery PROVE SaveUser(u, row) \in S OBVIOUS
    <3>2. users[u].codes > 0 /\ users[u].codes \in 0 .. RecoveryCodes BY <2>2, <1>2, <3>1
    <3> DEFINE left == users[u].codes
    <3> HIDE DEF byRecovery, left
    <3>5. left - 1 \in 0 .. RecoveryCodes BY <3>2, AccountsAssumption DEF left
    <3> USE DEF left
    <3>3. row = [users[u] EXCEPT !.codes = users[u].codes - 1] OBVIOUS
    <3>4. row \in AccountRows(Later(0)) BY Zenon, <2>2, <1>2, <3>5, <3>3 DEF Edits
    <3> HIDE DEF row
    <3> QED BY <1>1, <3>4
  <2>4. tried \subseteq S BY <1>4
  <2> HIDE DEF mailed, tried, byCode, byRecovery, row
  <2>5. first \in Seq(S)
    <3>1. CASE first = <<>> BY <3>1
    <3>2. ASSUME NEW t \in tried, first = <<t>> PROVE first \in Seq(S)
      <4>1. t \in S BY <2>4
      <4> QED BY <3>2, <4>1
    <3> QED BY <3>1, <3>2
  <2>6. second \in Seq(S) BY <2>3, FewStatements
  <2>7. third \in Seq(S) BY <1>1, FewStatements DEF Trust
  <2> HIDE DEF second, third
  <2>8. first \o second \o third \in Seq(S) BY <2>5, <2>6, <2>7, ConcatProperties
  <2> QED BY <1>0, <2>1, <2>8 DEF AccountPlan, S
<1>13. CASE Disable2FA(w, u)
  <2> DEFINE row == [users[u] EXCEPT !.enabled = FALSE, !.method = None, !.secret = FALSE, !.codes = 0]
  <2>1. row \in AccountRows(Later(0)) BY Zenon, <1>2, <1>6, <1>13 DEF Disable2FA, Edits
  <2> HIDE DEF row
  <2>2. <<SaveUser(u, row), [do |-> "untrust", user |-> u]>> \in Seq(S) BY <2>1, <1>1, FewStatements
  <2> QED BY <1>0, <1>13, <2>2 DEF Disable2FA, AccountPlan, S, row
<1>14. CASE RegenerateRecoveryCodes(w, u)
  <2>1. RecoveryCodes \in 0 .. RecoveryCodes BY AccountsAssumption
  <2>2. [users[u] EXCEPT !.codes = RecoveryCodes] \in AccountRows(Later(0))
    BY Zenon, <1>2, <1>6, <1>14, <2>1 DEF RegenerateRecoveryCodes, Edits
  <2> QED BY <1>0, <1>14, <2>2, OneSave DEF RegenerateRecoveryCodes
<1>15. CASE RemoveTrustedDevice(w, u)
  <2>1. <<[do |-> "untrust", user |-> u]>> \in Seq(S) BY <1>1, FewStatements
  <2> QED BY <1>0, <1>15, <2>1 DEF RemoveTrustedDevice, AccountPlan, S
<1> QED BY <1>7, <1>8, <1>9, <1>10, <1>11, <1>12, <1>13, <1>14, <1>15 DEF FactorRequest

\* Rows of organizations, members and invitations as a request reads them.
LEMMA CompanyRow ==
  ASSUME DeskInv, NEW n \in 0 .. 2
  PROVE  /\ \A o \in DOMAIN organizations : organizations[o] \in OrgRows /\ o \in Orgs
         /\ \A m \in DOMAIN members : members[m] \in MemberRows(Later(n)) /\ m \in Ids(Later(n))
         /\ \A i \in DOMAIN invitations : invitations[i] \in InvitationRows(Later(n)) /\ i \in Ids(Later(n))
         /\ DOMAIN members \subseteq Id
<1>1. Ids(Known) \subseteq Id
  <2>1. Token \in 1 .. (MaxTokens + 1) BY DEF DeskInv, AccountTables, Token
  <2>2. Ids(Known) = 1 .. (Token - 1) BY LaterFacts
  <2> QED BY <2>1, <2>2, AccountsAssumption DEF Id
<1> QED BY <1>1, LaterFacts, RowsGrow DEF DeskInv, CompanyTables, Table

\* The numbers that were drawn.
LEMMA DrawnIds ==
  ASSUME DeskInv
  PROVE  /\ Token \in Ids(Later(1)) /\ Token \in Ids(Later(2)) /\ Token + 1 \in Ids(Later(2))
         /\ 0 \in 0 .. 2 /\ 1 \in 0 .. 2 /\ 2 \in 0 .. 2
<1>1. Token \in Nat \ {0} BY LaterFacts
<1>2. Ids(Later(1)) = 1 .. (Token + 1 - 1) BY LaterFacts
<1>3. Ids(Later(2)) = 1 .. (Token + 2 - 1) BY LaterFacts
<1> QED BY <1>1, <1>2, <1>3

CompanyPlan(w, n, s) == s \in CompanySteps(Later(n)) /\ Draw(n) /\ Ask(w, <<s>>)

\* Requests about organizations.
LEMMA OrganizationRequests ==
  ASSUME DeskInv, NEW w \in Workers, NEW a \in Users, NEW o \in Orgs,
         \/ CreateOrganization(w, a, o)
         \/ \E email \in Emails : RegisterWithOrganization(w, a, email, o)
         \/ o \in DOMAIN organizations /\ (RemoveOrganization(w, a, o) \/ EditTerms(w, o))
         \/ \E sent \in {"none", "mask", "new"} :
              o \in DOMAIN organizations /\ UpdateOrganization(w, a, o, sent)
  PROVE  \E n \in 0 .. 2 : \E s : CompanyPlan(w, n, s)
<1>1. CASE CreateOrganization(w, a, o)
  <2> DEFINE s == [do |-> "found", org |-> o, id |-> Token, user |-> a, row |-> users[a]]
  <2>1. a \in DOMAIN users /\ Draw(1) /\ Ask(w, <<s>>) BY <1>1 DEF CreateOrganization, SignedIn
  <2>2. users[a] \in AccountRows(Later(1)) BY <2>1, DrawnIds, AccountRow
  <2>3. s \in Founds(Later(1)) BY <2>2, DrawnIds DEF Founds
  <2> HIDE DEF s
  <2> QED BY <2>1, <2>3, DrawnIds DEF CompanyPlan, CompanySteps
<1>2. ASSUME NEW email \in Emails, RegisterWithOrganization(w, a, email, o)
      PROVE  \E n \in 0 .. 2 : \E s : CompanyPlan(w, n, s)
  <2> DEFINE row == [NewUser(email) EXCEPT !.verification = Token + 1]
             s == [do |-> "found", org |-> o, id |-> Token, user |-> a, row |-> row]
  <2>1. Draw(2) /\ Ask(w, <<s>>) BY <1>2 DEF RegisterWithOrganization
  <2>2. Edits(Later(2), NewUser(email)) BY DrawnIds, NewRow, RowEdits DEF Opt
  <2>3. row \in AccountRows(Later(2)) BY Zenon, <2>2, DrawnIds DEF Edits, Opt
  <2> HIDE DEF row
  <2>4. s \in Founds(Later(2)) BY <2>3, DrawnIds DEF Founds
  <2> HIDE DEF s
  <2> QED BY <2>1, <2>4, DrawnIds DEF CompanyPlan, CompanySteps
<1>3. CASE o \in DOMAIN organizations /\ RemoveOrganization(w, a, o)
  <2>1. o \in Later(0).orgs BY <1>3, DrawnIds, LaterFacts
  <2>2. [do |-> "close", org |-> o] \in CompanySteps(Later(0)) BY <2>1 DEF CompanySteps
  <2> QED BY <1>3, <2>2, DrawnIds DEF RemoveOrganization, CompanyPlan
<1>4. CASE o \in DOMAIN organizations /\ EditTerms(w, o)
  <2> DEFINE s == [do |-> "organization", org |-> o, row |-> organizations[o], members |-> 1..MaxTokens]
  <2>1. o \in Later(0).orgs BY <1>4, DrawnIds, LaterFacts
  <2>2. organizations[o] \in OrgRows BY <1>4, DrawnIds, CompanyRow
  <2>3. s \in OrgSaves(Later(0)) BY <2>1, <2>2 DEF OrgSaves, Id
  <2>4. Draw(0) /\ Ask(w, <<s>>) BY <1>4 DEF EditTerms
  <2> HIDE DEF s
  <2> QED BY <2>3, <2>4, DrawnIds DEF CompanyPlan, CompanySteps
<1>5. ASSUME NEW sent \in {"none", "mask", "new"}, o \in DOMAIN organizations, UpdateOrganization(w, a, o, sent)
      PROVE  \E n \in 0 .. 2 : \E s : CompanyPlan(w, n, s)
  <2> DEFINE n == IF sent = "new" THEN 1 ELSE 0
             stored == organizations[o].credential
             shown == IF stored = None THEN None ELSE Masked
             credential == CASE sent = "none" -> shown
                             [] sent = "mask" -> IF stored # None THEN stored ELSE Masked
                             [] OTHER -> Token
             row == [organizations[o] EXCEPT !.credential = credential]
             s == [do |-> "organization", org |-> o, row |-> row, members |-> Of(o)]
  <2>1. n \in 0 .. 2 /\ Draw(n) /\ Ask(w, <<s>>) BY <1>5 DEF UpdateOrganization
  <2>2. organizations[o] \in OrgRows /\ Of(o) \subseteq Id BY <1>5, DrawnIds, CompanyRow DEF Of
  <2>3. credential \in Nat \cup {None, Masked} BY <2>2, LaterFacts, DrawnIds DEF OrgRows
  <2> HIDE DEF credential, n
  <2>4. row \in OrgRows BY <2>2, <2>3 DEF OrgRows
  <2>5. o \in Later(n).orgs BY <1>5, <2>1, LaterFacts
  <2> HIDE DEF row
  <2>6. s \in OrgSaves(Later(n)) BY <2>2, <2>4, <2>5 DEF OrgSaves
  <2> HIDE DEF s
  <2> QED BY <2>1, <2>6 DEF CompanyPlan, CompanySteps
<1> QED BY <1>1, <1>2, <1>3, <1>4, <1>5

\* Requests about members.
LEMMA MemberRequests ==
  ASSUME DeskInv, NEW w \in Workers, NEW a \in Users,
         \/ \E o \in DOMAIN organizations, u \in DOMAIN users, admin, permitted \in BOOLEAN :
              AddMember(w, a, o, u, admin, permitted)
         \/ \E m \in DOMAIN members :
              \/ \E admin, permitted \in BOOLEAN : UpdateMember(w, a, m, admin, permitted)
              \/ RemoveMember(w, a, m)
              \/ \E pin \in Pins : SetMemberPin(w, a, m, pin)
              \/ RemoveMemberPin(w, a, m)
  PROVE  \E n \in 0 .. 2 : \E s : CompanyPlan(w, n, s)
<1>1. ASSUME NEW o \in DOMAIN organizations, NEW u \in DOMAIN users, NEW admin \in BOOLEAN,
             NEW permitted \in BOOLEAN, AddMember(w, a, o, u, admin, permitted)
      PROVE  \E n \in 0 .. 2 : \E s : CompanyPlan(w, n, s)
  <2> DEFINE s == SaveMember(Token, Member(u, o, admin, permitted), "add")
  <2>1. o \in Later(1).orgs /\ u \in Later(1).users BY DrawnIds, LaterFacts
  <2>2. Member(u, o, admin, permitted) \in MemberRows(Later(1)) BY <2>1 DEF Member, MemberRows, Opt
  <2>3. Member(u, o, admin, permitted).org = o BY DEF Member
  <2>4. s \in MemberSaves(Later(1)) BY <2>1, <2>2, <2>3, DrawnIds DEF MemberSaves, SaveMember
  <2>5. Draw(1) /\ Ask(w, <<s>>) BY <1>1 DEF AddMember
  <2> HIDE DEF s
  <2> QED BY <2>4, <2>5, DrawnIds DEF CompanyPlan, CompanySteps
<1>2. ASSUME NEW m \in DOMAIN members, NEW row, NEW change \in {"update", "demote"},
             \/ row = [members[m] EXCEPT !.pin = None]
             \/ \E pin \in Pins : row = [members[m] EXCEPT !.pin = pin]
             \/ \E admin, permitted \in BOOLEAN :
                  row = [members[m] EXCEPT !.admin = admin, !.permitted = permitted],
             Draw(0), Ask(w, <<SaveMember(m, row, change)>>)
      PROVE  \E n \in 0 .. 2 : \E s : CompanyPlan(w, n, s)
  <2>1. members[m] \in MemberRows(Later(0)) /\ m \in Ids(Later(0)) BY DrawnIds, CompanyRow
  <2>2. row \in MemberRows(Later(0)) BY <1>2, <2>1 DEF MemberRows, Opt
  <2>3. row.org \in Later(0).orgs BY <2>2 DEF MemberRows
  <2>4. SaveMember(m, row, change) \in MemberSaves(Later(0))
    BY <2>1, <2>2, <2>3 DEF MemberSaves, SaveMember
  <2> QED BY <1>2, <2>4, DrawnIds DEF CompanyPlan, CompanySteps
<1>3. ASSUME NEW m \in DOMAIN members, NEW admin \in BOOLEAN, NEW permitted \in BOOLEAN,
             UpdateMember(w, a, m, admin, permitted)
      PROVE  \E n \in 0 .. 2 : \E s : CompanyPlan(w, n, s)
  <2> DEFINE row == [members[m] EXCEPT !.admin = admin, !.permitted = permitted /\ ~admin]
             change == IF members[m].admin /\ ~ admin /\ members[m].user # a THEN "demote" ELSE "update"
  <2>1. Draw(0) /\ Ask(w, <<SaveMember(m, row, change)>>) BY <1>3 DEF UpdateMember
  <2>2. (permitted /\ ~admin) \in BOOLEAN OBVIOUS
  <2>3. change \in {"update", "demote"} OBVIOUS
  <2> HIDE DEF change
  <2> QED BY <1>2, <2>1, <2>2, <2>3
<1>4. ASSUME NEW m \in DOMAIN members, RemoveMember(w, a, m)
      PROVE  \E n \in 0 .. 2 : \E s : CompanyPlan(w, n, s)
  <2> DEFINE s == [do |-> "dropMember", id |-> m, org |-> members[m].org]
  <2>1. members[m] \in MemberRows(Later(0)) /\ m \in Ids(Later(0)) BY DrawnIds, CompanyRow
  <2>2. s \in MemberDrops(Later(0)) BY <2>1 DEF MemberDrops, MemberRows
  <2>3. Draw(0) /\ Ask(w, <<s>>) BY <1>4 DEF RemoveMember
  <2> HIDE DEF s
  <2> QED BY <2>2, <2>3, DrawnIds DEF CompanyPlan, CompanySteps
<1>5. ASSUME NEW m \in DOMAIN members, RemoveMemberPin(w, a, m) \/ \E pin \in Pins : SetMemberPin(w, a, m, pin)
      PROVE  \E n \in 0 .. 2 : \E s : CompanyPlan(w, n, s)
  <2>1. CASE RemoveMemberPin(w, a, m) BY <1>2, <2>1 DEF RemoveMemberPin, Call
  <2>2. ASSUME NEW pin \in Pins, SetMemberPin(w, a, m, pin)
        PROVE  \E n \in 0 .. 2 : \E s : CompanyPlan(w, n, s)
    BY <1>2, <2>2 DEF SetMemberPin, Call
  <2> QED BY <1>5, <2>1, <2>2
<1> QED BY <1>1, <1>3, <1>4, <1>5

\* Requests about invitations.
LEMMA InvitationRequests ==
  ASSUME DeskInv, NEW w \in Workers, NEW a \in Users,
         \/ \E o \in DOMAIN organizations, email \in Emails, admin \in BOOLEAN :
              CreateInvitation(w, a, o, email, admin)
         \/ \E i \in DOMAIN invitations :
              CancelInvitation(w, a, i) \/ AcceptInvitation(w, a, i) \/ DeclineInvitation(w, a, i)
  PROVE  \E n \in 0 .. 2 : \E s : CompanyPlan(w, n, s)
<1>1. ASSUME NEW o \in DOMAIN organizations, NEW email \in Emails, NEW admin \in BOOLEAN,
             CreateInvitation(w, a, o, email, admin)
      PROVE  \E n \in 0 .. 2 : \E s : CompanyPlan(w, n, s)
  <2> DEFINE row == [org |-> o, email |-> email, admin |-> admin, accepted |-> FALSE]
             s == [do |-> "invite", id |-> Token, row |-> row]
  <2>1. o \in Later(1).orgs BY DrawnIds, LaterFacts
  <2>2. row \in InvitationRows(Later(1)) BY <2>1 DEF InvitationRows
  <2>3. s \in [do : {"invite"}, id : Ids(Later(1)), row : InvitationRows(Later(1))] BY <2>2, DrawnIds
  <2>4. Draw(1) /\ Ask(w, <<s>>) BY <1>1 DEF CreateInvitation
  <2> HIDE DEF s
  <2> QED BY <2>3, <2>4, DrawnIds DEF CompanyPlan, CompanySteps
<1>2. ASSUME NEW i \in DOMAIN invitations, CancelInvitation(w, a, i) \/ DeclineInvitation(w, a, i)
      PROVE  \E n \in 0 .. 2 : \E s : CompanyPlan(w, n, s)
  <2>1. i \in Ids(Later(0)) BY DrawnIds, CompanyRow
  <2>2. [do |-> "uninvite", id |-> i] \in CompanySteps(Later(0)) BY <2>1 DEF CompanySteps
  <2>3. Draw(0) /\ Ask(w, <<[do |-> "uninvite", id |-> i]>>)
    BY <1>2 DEF CancelInvitation, DeclineInvitation
  <2> QED BY <2>2, <2>3, DrawnIds DEF CompanyPlan
<1>3. ASSUME NEW i \in DOMAIN invitations, AcceptInvitation(w, a, i)
      PROVE  \E n \in 0 .. 2 : \E s : CompanyPlan(w, n, s)
  <2> DEFINE row == invitations[i]
             member == Member(a, row.org, row.admin, TRUE)
             as == [row EXCEPT !.accepted = TRUE]
             s == [do |-> "accept", id |-> Token, row |-> member, org |-> row.org, invitation |-> i, as |-> as]
  <2>1. row \in InvitationRows(Later(1)) /\ i \in Ids(Later(1)) BY DrawnIds, CompanyRow
  <2>2. a \in Later(1).users BY <1>3, DrawnIds, LaterFacts DEF AcceptInvitation, Open, SignedIn
  <2>3. row.org \in Later(1).orgs /\ row.admin \in BOOLEAN BY <2>1 DEF InvitationRows
  <2>4. member \in MemberRows(Later(1)) /\ member.org = row.org
    BY <2>2, <2>3 DEF Member, MemberRows, Opt
  <2>5. as \in InvitationRows(Later(1)) /\ as.accepted BY <2>1 DEF InvitationRows
  <2>6. Draw(1) /\ Ask(w, <<s>>) BY <1>3 DEF AcceptInvitation
  <2> HIDE DEF member, as
  <2>7. s \in Accepts(Later(1)) BY <2>1, <2>3, <2>4, <2>5, DrawnIds DEF Accepts
  <2> HIDE DEF s
  <2> QED BY <2>6, <2>7, DrawnIds DEF CompanyPlan, CompanySteps
<1> QED BY <1>1, <1>2, <1>3

\* The erasure of an account.
LEMMA ErasureRequests ==
  ASSUME DeskInv, NEW w \in Workers, NEW a \in Users,
         \/ DeleteAccount(w, a)
         \/ \E o \in DOMAIN organizations, u \in DOMAIN users : AnonymizeMember(w, a, o, u)
  PROVE  \E u \in DOMAIN users :
           /\ AnonymizeUser(u) \in Seq(AccountSteps(Later(0))) /\ Draw(0) /\ Ask(w, AnonymizeUser(u))
<1>1. PICK u \in DOMAIN users : Draw(0) /\ Ask(w, AnonymizeUser(u))
  BY DEF DeleteAccount, AnonymizeMember, SignedIn
<1> DEFINE s == [SaveUser(u, Anonymized) EXCEPT !.erase = TRUE]
<1>2. Anonymized \in AccountRows(Later(0))
  <2> DEFINE row == NewUser(None)
  <2>1. row \in UserRows(Later(0)) /\ Factor(row) BY DrawnIds, NewRow DEF Opt
  <2>2. Anonymized = [row EXCEPT !.named = FALSE, !.active = FALSE, !.password = FALSE]
    BY DEF Anonymized
  <2> HIDE DEF row
  <2>3. Anonymized \in UserRows(Later(0)) /\ Factor(Anonymized) BY <2>1, <2>2 DEF UserRows, Factor
  <2> QED BY <2>3 DEF AccountRows
<1>3. u \in Users BY DrawnIds, AccountRow
<1>4. s \in UserSaves(Later(0)) BY <1>2, <1>3 DEF UserSaves, SaveUser
<1>5. s \in AccountSteps(Later(0)) BY <1>4 DEF AccountSteps
<1>6. RevokeAll(u) \in AccountSteps(Later(0)) BY <1>3, AccountStatements
<1>7. AnonymizeUser(u) = <<s, RevokeAll(u)>> BY DEF AnonymizeUser
<1> HIDE DEF s
<1>8. AnonymizeUser(u) \in Seq(AccountSteps(Later(0))) BY <1>5, <1>6, <1>7, FewStatements
<1> QED BY <1>1, <1>8

\* Devices as a request reads them.
LEMMA DeviceRow ==
  ASSUME DeskInv, NEW n \in 0 .. 2, NEW d \in DOMAIN devices
  PROVE  devices[d] \in DeviceRows(Later(n)) /\ d \in Ids(Later(n)) /\ Belongs(d, devices[d], Later(n))
<1>1. devices[d] \in DeviceRows(Known) /\ d \in Ids(Known) /\ Belongs(d, devices[d], Known)
  BY DEF DeskInv, FleetTables, Table
<1>2. devices[d] \in DeviceRows(Later(n)) /\ d \in Ids(Later(n)) BY <1>1, LaterFacts, RowsGrow
<1>3. Belongs(d, devices[d], Later(n)) BY <1>1, LaterFacts DEF Belongs
<1> QED BY <1>2, <1>3

FleetPlan(w, n, s) == s \in FleetSteps(Later(n)) /\ Draw(n) /\ Call(w, <<s>>)

\* A request that saves a device.
LEMMA OneDevice ==
  ASSUME NEW w, NEW n \in 0 .. 2, NEW d \in Ids(Later(n)), NEW row \in DeviceRows(Later(n)),
         NEW as \in {"save", "admit", "block"}, Belongs(d, row, Later(n)),
         Draw(n), Call(w, <<SaveDevice(d, row, as)>>)
  PROVE  \E m \in 0 .. 2 : \E s : FleetPlan(w, m, s)
<1>1. SaveDevice(d, row, as) \in DeviceSaves(Later(n)) BY DEF SaveDevice, DeviceSaves
<1>2. SaveDevice(d, row, as) \in FleetSteps(Later(n)) BY <1>1 DEF FleetSteps
<1> QED BY <1>2 DEF FleetPlan

\* Devices that make themselves known, or are made known.
LEMMA NewDeviceRequests ==
  ASSUME DeskInv, NEW w \in Workers, NEW name \in Names,
         \/ InitDevice(w, name)
         \/ \E o \in DOMAIN organizations : RegisterDevice(w, o, name)
         \/ \E a \in Users, o \in DOMAIN organizations : CreateDevice(w, a, o, name)
  PROVE  \E n \in 0 .. 2 : \E s : FleetPlan(w, n, s)
<1>1. \A o \in DOMAIN organizations : o \in Orgs BY DrawnIds, CompanyRow
<1>2. \A o \in Opt(Orgs) : \A n \in 0 .. 2 : \A code \in Opt(Ids(Later(n))) :
        /\ Device(o, name, code) \in DeviceRows(Later(n))
        /\ \A d : Belongs(d, Device(o, name, code), Later(n))
  BY DEF Device, DeviceRows, Belongs, Status, Opt
<1>3. CASE InitDevice(w, name)
  <2>1. None \in Opt(Orgs) /\ Token + 1 \in Opt(Ids(Later(2))) BY DrawnIds DEF Opt
  <2> QED BY <1>2, <1>3, <2>1, DrawnIds, OneDevice DEF InitDevice
<1>4. ASSUME NEW o \in DOMAIN organizations, RegisterDevice(w, o, name)
      PROVE  \E n \in 0 .. 2 : \E s : FleetPlan(w, n, s)
  <2>1. o \in Opt(Orgs) /\ Token + 1 \in Opt(Ids(Later(2))) BY <1>1, DrawnIds DEF Opt
  <2> QED BY <1>2, <1>4, <2>1, DrawnIds, OneDevice DEF RegisterDevice
<1>5. ASSUME NEW a \in Users, NEW o \in DOMAIN organizations, CreateDevice(w, a, o, name)
      PROVE  \E n \in 0 .. 2 : \E s : FleetPlan(w, n, s)
  <2>1. o \in Opt(Orgs) /\ None \in Opt(Ids(Later(1))) BY <1>1, DrawnIds DEF Opt
  <2> QED BY <1>2, <1>5, <2>1, DrawnIds, OneDevice DEF CreateDevice
<1> QED BY <1>3, <1>4, <1>5

\* What is done with a device.
LEMMA DeviceRequests ==
  ASSUME DeskInv, NEW w \in Workers, NEW d \in DOMAIN devices, DeviceRequest(w, d)
  PROVE  \E n \in 0 .. 2 : \E s : FleetPlan(w, n, s)
<1> DEFINE dev == devices[d]
           k == Later(0)
<1>1. /\ dev \in DeviceRows(k) /\ d \in Ids(k) /\ Belongs(d, dev, k) /\ 0 \in 0 .. 2
      /\ k.orgs = DOMAIN organizations
  BY DrawnIds, DeviceRow, LaterFacts
<1>3. \A a : Manages(a, d) => dev.org \in k.orgs BY <1>1 DEF Manages, DeviceOf
<1>4. ASSUME NEW row, NEW as \in {"save", "admit", "block"}, row \in DeviceRows(k), Belongs(d, row, k),
             Draw(0), Call(w, <<SaveDevice(d, row, as)>>)
      PROVE  \E n \in 0 .. 2 : \E s : FleetPlan(w, n, s)
  BY <1>1, <1>4, OneDevice
<1>5. ASSUME NEW s, Draw(0), Call(w, <<s>>),
             \/ \E u \in Opt(Users) : s = [do |-> "couple", id |-> d, server |-> u]
             \/ \E do \in {"client", "dropDevice"} : s = [do |-> do, id |-> d]
      PROVE  \E n \in 0 .. 2 : \E t : FleetPlan(w, n, t)
  <2>1. s \in FleetSteps(k) BY <1>1, <1>5 DEF FleetSteps
  <2> QED BY <1>1, <1>5, <2>1 DEF FleetPlan
<1> HIDE DEF k
<1>6. CASE LogoutDevice(w, d)
  <2> DEFINE row == [devices[d] EXCEPT !.active = FALSE]
  <2>1. row \in DeviceRows(k) /\ Belongs(d, row, k) BY <1>1 DEF DeviceRows, Belongs
  <2>2. Draw(0) /\ Call(w, <<SaveDevice(d, row, "save")>>) BY <1>6 DEF LogoutDevice
  <2> HIDE DEF row
  <2> QED BY <1>4, <2>1, <2>2
<1>7. CASE ClearActiveUser(w, d)
  <2>1. None \in Opt(Users) BY DEF Opt
  <2> QED BY <1>5, <1>7, <2>1 DEF ClearActiveUser
<1>8. CASE ResolveClient(w, d) BY <1>5, <1>8 DEF ResolveClient
<1>9. ASSUME NEW pin \in Pins, VerifyPin(w, d, pin) PROVE \E n \in 0 .. 2 : \E s : FleetPlan(w, n, s)
  <2>1. PICK m \in Of(devices[d].org) :
          Draw(0) /\ Call(w, <<[do |-> "couple", id |-> d, server |-> members[m].user]>>)
    BY <1>9 DEF VerifyPin
  <2>2. members[m] \in MemberRows(Known) /\ Known.users \subseteq Users
    BY LaterFacts, DrawnIds DEF Of, DeskInv, CompanyTables, AccountTables, Table
  <2>3. members[m].user \in Opt(Users) BY <2>2 DEF MemberRows, Opt
  <2> QED BY <1>5, <2>1, <2>3
<1>10. ASSUME NEW a \in Users, NEW o \in DOMAIN organizations, NEW name \in Names, LinkDevice(w, a, o, d, name)
       PROVE  \E n \in 0 .. 2 : \E s : FleetPlan(w, n, s)
  <2> DEFINE sameName == {e \in DOMAIN devices : DeviceOf(e, o) /\ devices[e].name = name /\ e # d /\ devices[e].client # None}
             clients == IF sameName = {} THEN {devices[d].client}
                        ELSE {devices[e].client : e \in {f \in sameName : \A g \in sameName : g <= f}}
  <2>1. PICK client \in clients :
          Draw(0) /\ Call(w, <<SaveDevice(d, [devices[d] EXCEPT !.org = o, !.name = name, !.status = "verified",
                                                              !.code = None, !.client = client], "save")>>)
    BY <1>10 DEF LinkDevice
  <2>2. \A e \in DOMAIN devices : devices[e].client \in Opt(Ids(k))
    BY DrawnIds, DeviceRow DEF DeviceRows, k
  <2>3. client \in Opt(Ids(k)) BY <2>1, <2>2
  <2>4. o \in Opt(Orgs) /\ o \in k.orgs BY <1>1, CompanyRow, DrawnIds DEF Opt
  <2> DEFINE row == [devices[d] EXCEPT !.org = o, !.name = name, !.status = "verified", !.code = None, !.client = client]
  <2>5. row \in DeviceRows(k) /\ Belongs(d, row, k)
    BY <1>1, <2>3, <2>4 DEF DeviceRows, Belongs, Opt, Status
  <2>6. Draw(0) /\ Call(w, <<SaveDevice(d, row, "save")>>) BY <2>1
  <2> HIDE DEF row
  <2> QED BY <1>4, <2>5, <2>6
<1>11. ASSUME NEW a \in Users, NEW name \in Names, NEW settings \in BOOLEAN,
              NEW active \in {devices[d].active, TRUE, FALSE}, UpdateDevice(w, a, d, name, settings, active)
       PROVE  \E n \in 0 .. 2 : \E s : FleetPlan(w, n, s)
  <2> DEFINE row == [devices[d] EXCEPT !.name = name, !.client = IF settings THEN None ELSE @, !.active = active]
             as == IF active THEN "admit" ELSE "save"
  <2>1. Draw(0) /\ Call(w, <<SaveDevice(d, row, as)>>) BY <1>11 DEF UpdateDevice
  <2>2. active \in BOOLEAN /\ devices[d].client \in Opt(Ids(k)) BY <1>1 DEF DeviceRows
  <2>3. row = [devices[d] EXCEPT !.name = name, !.client = IF settings THEN None ELSE devices[d].client, !.active = active]
    OBVIOUS
  <2> DEFINE client == IF settings THEN None ELSE devices[d].client
  <2>4. client \in Opt(Ids(k)) BY <2>2 DEF Opt
  <2>5. row = [devices[d] EXCEPT !.name = name, !.client = client, !.active = active] BY <2>3
  <2> HIDE DEF row, client
  <2>6. row \in DeviceRows(k) /\ Belongs(d, row, k) BY <1>1, <2>2, <2>4, <2>5 DEF DeviceRows, Belongs
  <2> QED BY <1>4, <2>1, <2>6
<1>12. ASSUME NEW a \in Users, VerifyDevice(w, a, d) PROVE \E n \in 0 .. 2 : \E s : FleetPlan(w, n, s)
  <2> DEFINE row == [devices[d] EXCEPT !.status = "verified", !.code = None]
  <2>1. row \in DeviceRows(k) /\ Belongs(d, row, k)
    BY <1>1, <1>3, <1>12 DEF VerifyDevice, DeviceRows, Belongs, Opt, Status
  <2>2. Draw(0) /\ Call(w, <<SaveDevice(d, row, "save")>>) BY <1>12 DEF VerifyDevice
  <2> HIDE DEF row
  <2> QED BY <1>4, <2>1, <2>2
<1>13. ASSUME NEW a \in Users, RemoveDevice(w, a, d) PROVE \E n \in 0 .. 2 : \E s : FleetPlan(w, n, s)
  BY <1>5, <1>13 DEF RemoveDevice
<1>14. ASSUME NEW a \in Users, RegenerateToken(w, a, d) PROVE \E n \in 0 .. 2 : \E s : FleetPlan(w, n, s)
  BY <1>1, <1>4, <1>14 DEF RegenerateToken
<1>15. ASSUME NEW a \in Users, BlockDevice(w, a, d) PROVE \E n \in 0 .. 2 : \E s : FleetPlan(w, n, s)
  <2> DEFINE row == [devices[d] EXCEPT !.status = "blocked", !.active = FALSE]
  <2>1. row \in DeviceRows(k) /\ Belongs(d, row, k) BY <1>1 DEF DeviceRows, Belongs, Status
  <2>2. Draw(0) /\ Call(w, <<SaveDevice(d, row, "block")>>) BY <1>15 DEF BlockDevice
  <2> HIDE DEF row
  <2> QED BY <1>4, <2>1, <2>2
<1>16. ASSUME NEW a \in Users, UnblockDevice(w, a, d) PROVE \E n \in 0 .. 2 : \E s : FleetPlan(w, n, s)
  <2> DEFINE row == [devices[d] EXCEPT !.status = "verified", !.active = TRUE]
  <2>1. row \in DeviceRows(k) /\ Belongs(d, row, k)
    BY <1>1, <1>3, <1>16 DEF UnblockDevice, DeviceRows, Belongs, Status
  <2>2. Draw(0) /\ Call(w, <<SaveDevice(d, row, "admit")>>) BY <1>16 DEF UnblockDevice
  <2> HIDE DEF row
  <2> QED BY <1>4, <2>1, <2>2
<1>17. ASSUME NEW a \in Users, ClearActiveUserAsAdmin(w, a, d) PROVE \E n \in 0 .. 2 : \E s : FleetPlan(w, n, s)
  <2>1. None \in Opt(Users) BY DEF Opt
  <2> QED BY <1>5, <1>17, <2>1 DEF ClearActiveUserAsAdmin
<1> QED BY <1>6, <1>7, <1>8, <1>9, <1>10, <1>11, <1>12, <1>13, <1>14, <1>15, <1>16, <1>17
        DEF DeviceRequest

\* Hardware, rentals and printers as a request reads them.
LEMMA DeskRow ==
  ASSUME DeskInv, NEW n \in 0 .. 2
  PROVE  /\ \A h \in DOMAIN hardware : hardware[h] \in HardwareRows(Later(n)) /\ h \in Ids(Later(n))
         /\ \A r \in DOMAIN rentals :
              /\ rentals[r] \in RentalRows(Later(n)) /\ r \in Ids(Later(n))
              /\ rentals[r].hardware \in DOMAIN hardware
         /\ \A p \in DOMAIN printers : printers[p] \in PrinterRows(Later(n)) /\ p \in Ids(Later(n))
         /\ \A d \in DOMAIN devices : d \in Ids(Later(n))
         /\ \A o \in DOMAIN organizations : o \in Later(n).orgs
         /\ None \notin Ids(Later(n))
<1>1. \A h \in DOMAIN hardware : hardware[h] \in HardwareRows(Later(n)) /\ h \in Ids(Later(n))
  BY LaterFacts, RowsGrow DEF DeskInv, DeskTables, Table
<1>2. \A r \in DOMAIN rentals : /\ rentals[r] \in RentalRows(Later(n)) /\ r \in Ids(Later(n))
                                /\ rentals[r].hardware \in DOMAIN hardware
  BY LaterFacts, RowsGrow DEF DeskInv, DeskTables, Table
<1>3. \A p \in DOMAIN printers : printers[p] \in PrinterRows(Later(n)) /\ p \in Ids(Later(n))
  BY LaterFacts, RowsGrow DEF DeskInv, DeskTables, Table
<1>4. None \notin Ids(Later(n)) BY LaterFacts, AccountsAssumption DEF Ids
<1> QED BY <1>1, <1>2, <1>3, <1>4, DeviceRow, LaterFacts

DeskPlan(w, n, todo) == todo \in Seq(DeskSteps(Later(n))) /\ Draw(n) /\ Serve(w, todo)

BenchPlan(w, n, todo) == todo \in Seq(BenchSteps(Later(n))) /\ Draw(n) /\ Serve(w, todo)

\* Statements of the desk.
LEMMA DeskStatements ==
  ASSUME NEW k, None \notin Ids(k)
  PROVE  /\ \A i \in Ids(k), row \in HardwareRows(k), b \in BOOLEAN :
              [SaveHardware(i, row) EXCEPT !.byHand = b] \in BenchSteps(k) /\ SaveHardware(i, row) \in BenchSteps(k)
         /\ \A i \in Ids(k), row \in RentalRows(k) : SaveRental(i, row) \in BenchSteps(k)
         /\ \A i \in Ids(k), row \in PrinterRows(k) :
              SavePrinter(i, row) \in BenchSteps(k) /\ SavePrinter(i, row) \in PrinterSaves(k)
         /\ \A gone \in SUBSET Ids(k), about \in SUBSET Ids(k) : DropPrinters(gone, about) \in BenchSteps(k)
         /\ \A i \in Ids(k), b \in BOOLEAN : Free(i, b) \in BenchSteps(k)
         /\ \A i \in Ids(k) : [do |-> "dropHardware", id |-> i, about |-> {i}] \in BenchSteps(k)
         /\ \A i \in Ids(k), o \in Opt(k.orgs), rest \in Seq(PrinterSaves(k)), about \in SUBSET Ids(k) :
              Move(i, o, rest, about) \in BenchSteps(k)
<1>1. \A i \in Ids(k), row \in HardwareRows(k), b \in BOOLEAN :
        [SaveHardware(i, row) EXCEPT !.byHand = b] \in HardwareSaves(k) /\ SaveHardware(i, row) \in HardwareSaves(k)
  BY DEF SaveHardware, HardwareSaves
<1>2. \A i \in Ids(k), row \in RentalRows(k) : SaveRental(i, row) \in RentalSaves(k)
  <2> SUFFICES ASSUME NEW i \in Ids(k), NEW row \in RentalRows(k) PROVE SaveRental(i, row) \in RentalSaves(k)
    OBVIOUS
  <2>1. {i, row.hardware} \subseteq Ids(k) BY DEF RentalRows
  <2> QED BY <2>1 DEF SaveRental, RentalSaves
<1>3. \A i \in Ids(k), row \in PrinterRows(k) : SavePrinter(i, row) \in PrinterSaves(k)
  <2> SUFFICES ASSUME NEW i \in Ids(k), NEW row \in PrinterRows(k) PROVE SavePrinter(i, row) \in PrinterSaves(k)
    OBVIOUS
  <2>1. {row.rental} \ {None} \subseteq Ids(k) BY DEF PrinterRows, Opt
  <2> QED BY <2>1 DEF SavePrinter, PrinterSaves
<1>4. \A gone \in SUBSET Ids(k), about \in SUBSET Ids(k) : DropPrinters(gone, about) \in PrinterDrops(k)
  BY DEF DropPrinters, PrinterDrops
<1>5. \A i \in Ids(k), b \in BOOLEAN : Free(i, b) \in Frees(k) BY DEF Free, Frees
<1>6. \A i \in Ids(k) : [do |-> "dropHardware", id |-> i, about |-> {i}] \in HardwareDrops(k)
  BY DEF HardwareDrops
<1>7. \A i \in Ids(k), o \in Opt(k.orgs), rest \in Seq(PrinterSaves(k)), about \in SUBSET Ids(k) :
        Move(i, o, rest, about) \in Moves(k)
  BY DEF Move, Moves
<1> QED BY <1>1, <1>2, <1>3, <1>4, <1>5, <1>6, <1>7 DEF BenchSteps

\* Requests about hardware.
LEMMA HardwareRequests ==
  ASSUME DeskInv, NEW w \in Workers,
         \/ CreateRentalHardware(w)
         \/ \E h \in DOMAIN hardware :
              \/ \E status \in {hardware[h].status, "available", "maintenance"}, d \in {hardware[h].device} \cup DOMAIN devices :
                   UpdateRentalHardware(w, h, status, d)
              \/ DeleteRentalHardware(w, h)
              \/ \E o \in DOMAIN organizations : CreateRentalAssignment(w, h, o)
  PROVE  \E n \in 0 .. 2 : \E todo : BenchPlan(w, n, todo)
<1>1. CASE CreateRentalHardware(w)
  <2> DEFINE row == [status |-> "available", device |-> None]
  <2>1. row \in HardwareRows(Later(1)) BY DEF HardwareRows, Opt
  <2>2. Draw(1) /\ Serve(w, <<SaveHardware(Token, row)>>) BY <1>1 DEF CreateRentalHardware
  <2> HIDE DEF row
  <2>3. SaveHardware(Token, row) \in BenchSteps(Later(1)) BY <2>1, DrawnIds, DeskRow, DeskStatements
  <2> QED BY <2>2, <2>3, DrawnIds, FewStatements DEF BenchPlan
<1>2. ASSUME NEW h \in DOMAIN hardware, NEW status \in {hardware[h].status, "available", "maintenance"},
             NEW d \in {hardware[h].device} \cup DOMAIN devices, UpdateRentalHardware(w, h, status, d)
      PROVE  \E n \in 0 .. 2 : \E todo : BenchPlan(w, n, todo)
  <2> DEFINE row == [hardware[h] EXCEPT !.status = status, !.device = d]
             byHand == status = "available" /\ hardware[h].status # "available"
             s == [SaveHardware(h, row) EXCEPT !.byHand = byHand]
  <2>1. Draw(0) /\ Serve(w, <<s>>) BY <1>2 DEF UpdateRentalHardware
  <2>2. hardware[h] \in HardwareRows(Later(0)) /\ h \in Ids(Later(0)) BY DeskRow, DrawnIds
  <2>3. d \in Opt(Ids(Later(0))) BY <2>2, DeskRow, DrawnIds DEF HardwareRows, Opt
  <2>4. row \in HardwareRows(Later(0)) BY <2>2, <2>3 DEF HardwareRows
  <2>5. byHand \in BOOLEAN OBVIOUS
  <2> HIDE DEF row, byHand
  <2>6. s \in BenchSteps(Later(0)) BY <2>2, <2>4, <2>5, DrawnIds, DeskRow, DeskStatements
  <2> HIDE DEF s
  <2> QED BY <2>1, <2>6, DrawnIds, FewStatements DEF BenchPlan
<1>3. ASSUME NEW h \in DOMAIN hardware, DeleteRentalHardware(w, h)
      PROVE  \E n \in 0 .. 2 : \E todo : BenchPlan(w, n, todo)
  <2> DEFINE s == [do |-> "dropHardware", id |-> h, about |-> {h}]
  <2>1. Draw(0) /\ Serve(w, <<s>>) BY <1>3 DEF DeleteRentalHardware
  <2>2. s \in BenchSteps(Later(0)) BY DrawnIds, DeskRow, DeskStatements
  <2> HIDE DEF s
  <2> QED BY <2>1, <2>2, DrawnIds, FewStatements DEF BenchPlan
<1>4. ASSUME NEW h \in DOMAIN hardware, NEW o \in DOMAIN organizations, CreateRentalAssignment(w, h, o)
      PROVE  \E n \in 0 .. 2 : \E todo : BenchPlan(w, n, todo)
  <2> DEFINE row == [hardware[h] EXCEPT !.status = "rented"]
  <2>1. Draw(1) /\ Serve(w, <<SaveRental(Token, Rental(h, o)), SaveHardware(h, row)>>)
    BY <1>4 DEF CreateRentalAssignment, Offer
  <2>2. hardware[h] \in HardwareRows(Later(1)) /\ h \in Ids(Later(1)) /\ o \in Later(1).orgs
    BY DeskRow, DrawnIds
  <2>3. row \in HardwareRows(Later(1)) BY <2>2 DEF HardwareRows
  <2>4. Rental(h, o) \in RentalRows(Later(1)) BY <2>2 DEF RentalRows, Rental, Live
  <2> HIDE DEF row
  <2>5. SaveRental(Token, Rental(h, o)) \in BenchSteps(Later(1)) BY <2>4, DrawnIds, DeskRow, DeskStatements
  <2>6. SaveHardware(h, row) \in BenchSteps(Later(1)) BY <2>2, <2>3, DrawnIds, DeskRow, DeskStatements
  <2> QED BY <2>1, <2>5, <2>6, DrawnIds, FewStatements DEF BenchPlan
<1> QED BY <1>1, <1>2, <1>3, <1>4

\* Requests about rentals.
LEMMA RentalRequests ==
  ASSUME DeskInv, NEW w \in Workers, NEW r \in DOMAIN rentals,
         \/ ActivateRental(w, r) \/ ReturnRental(w, r)
         \/ \E a \in Users : ConfirmAssignment(w, a, r) \/ DeclineAssignment(w, a, r)
  PROVE  \E n \in 0 .. 2 : \E todo : BenchPlan(w, n, todo)
<1> DEFINE h == rentals[r].hardware
           o == rentals[r].org
           d == hardware[h].device
           S(n) == BenchSteps(Later(n))
<1>1. ASSUME NEW n \in 0 .. 2
      PROVE  /\ rentals[r] \in RentalRows(Later(n)) /\ r \in Ids(Later(n)) /\ h \in DOMAIN hardware
             /\ h \in Ids(Later(n)) /\ o \in Later(n).orgs /\ d \in Opt(Ids(Later(n)))
             /\ o \in Orgs
  <2>1. /\ rentals[r] \in RentalRows(Later(n)) /\ r \in Ids(Later(n)) /\ h \in DOMAIN hardware BY DeskRow
  <2>2. h \in Ids(Later(n)) /\ o \in Later(n).orgs BY <2>1 DEF RentalRows
  <2>3. hardware[h] \in HardwareRows(Later(n)) BY <2>1, DeskRow
  <2>4. d \in Opt(Ids(Later(n))) BY <2>3 DEF HardwareRows
  <2>5. o \in Orgs BY <2>2, LaterFacts, CompanyRow
  <2> QED BY <2>1, <2>2, <2>4, <2>5
<1> HIDE DEF h, o, d
<1>2. ASSUME NEW n \in 0 .. 2, NEW status \in Live \cup {"returned", "cancelled"}
      PROVE  Become(r, status) \in S(n)
  <2>1. [rentals[r] EXCEPT !.status = status] \in RentalRows(Later(n)) BY <1>1 DEF RentalRows
  <2> QED BY <1>1, <2>1, DeskRow, DeskStatements DEF Become
<1>3. \A n \in 0 .. 2, b \in BOOLEAN : Free(h, b) \in S(n) BY <1>1, DeskRow, DeskStatements
<1>4. CASE \E a \in Users : ConfirmAssignment(w, a, r)
  <2>1. Become(r, "confirmed") \in S(0) BY <1>2, DrawnIds DEF Live
  <2> QED BY <1>4, <2>1, DrawnIds, FewStatements DEF ConfirmAssignment, BenchPlan
<1>5. CASE \E a \in Users : DeclineAssignment(w, a, r)
  <2>1. Become(r, "cancelled") \in S(0) BY <1>2, DrawnIds
  <2>2. Free(h, FALSE) \in S(0) BY <1>3, DrawnIds
  <2>3. <<Become(r, "cancelled"), Free(h, FALSE)>> \in Seq(S(0)) BY <2>1, <2>2, FewStatements
  <2> QED BY <1>5, <2>3, DrawnIds DEF DeclineAssignment, BenchPlan, h
<1>6. CASE ActivateRental(w, r)
  <2> DEFINE printer == SavePrinter(Token, Printer(o, d, r, None))
             first == IF d = None THEN <<>> ELSE <<Move(d, o, <<printer>>, {r, h})>>
  <2>1. Draw(1) /\ Serve(w, first \o <<Become(r, "active")>>) BY <1>6 DEF ActivateRental, o, d, h
  <2>2. Printer(o, d, r, None) \in PrinterRows(Later(1)) BY <1>1, DrawnIds DEF Printer, PrinterRows, Opt
  <2>3. printer \in PrinterSaves(Later(1)) BY <2>2, DrawnIds, DeskRow, DeskStatements
  <2> HIDE DEF printer
  <2>4. <<printer>> \in Seq(PrinterSaves(Later(1))) BY <2>3
  <2>5. d # None => Move(d, o, <<printer>>, {r, h}) \in S(1)
    <3>1. d # None => d \in Ids(Later(1)) BY <1>1, DrawnIds DEF Opt
    <3>2. {r, h} \in SUBSET Ids(Later(1)) /\ o \in Opt(Later(1).orgs) BY <1>1, DrawnIds DEF Opt
    <3> QED BY <2>4, <3>1, <3>2, DrawnIds, DeskRow, DeskStatements
  <2>6. Become(r, "active") \in S(1) BY <1>2, DrawnIds DEF Live
  <2>7. first \in Seq(S(1)) /\ <<Become(r, "active")>> \in Seq(S(1)) BY <2>5, <2>6, FewStatements
  <2> HIDE DEF first
  <2>8. first \o <<Become(r, "active")>> \in Seq(S(1)) BY <2>7, ConcatProperties
  <2> QED BY <2>1, <2>8, DrawnIds DEF BenchPlan
<1>7. CASE ReturnRental(w, r)
  <2> DEFINE release == [do |-> "release", id |-> d, about |-> {r, h}]
             first == IF MadeFor(r) = {} THEN <<>> ELSE <<DropPrinters(MadeFor(r), {r, h})>>
             second == IF d = None THEN <<>> ELSE <<release>>
             byHand == rentals[r].status \notin Live
             third == <<Become(r, "returned"), Free(h, byHand)>>
  <2>1. Draw(0) /\ Serve(w, first \o (second \o third)) BY <1>7 DEF ReturnRental, GiveBack, d, h
  <2>2. {r, h} \in SUBSET Ids(Later(0)) BY <1>1, DrawnIds
  <2>3. MadeFor(r) \in SUBSET Ids(Later(0)) BY DeskRow, DrawnIds DEF MadeFor
  <2>4. DropPrinters(MadeFor(r), {r, h}) \in S(0) BY <2>2, <2>3, DrawnIds, DeskRow, DeskStatements
  <2>5. d # None => release \in S(0)
    <3>1. d # None => d \in Ids(Later(0)) BY <1>1, DrawnIds DEF Opt
    <3> QED BY <2>2, <3>1 DEF BenchSteps
  <2>6. third \in Seq(S(0))
    <3>1. Become(r, "returned") \in S(0) BY <1>2, DrawnIds
    <3>2. byHand \in BOOLEAN OBVIOUS
    <3> HIDE DEF byHand
    <3>3. Free(h, byHand) \in S(0) BY <1>3, <3>2, DrawnIds
    <3> QED BY <3>1, <3>3, FewStatements
  <2> HIDE DEF release, third
  <2>7. first \in Seq(S(0)) /\ second \in Seq(S(0)) BY <2>4, <2>5, FewStatements
  <2> HIDE DEF first, second
  <2>8. first \o (second \o third) \in Seq(S(0)) BY <2>6, <2>7, ConcatProperties
  <2> QED BY <2>1, <2>8, DrawnIds DEF BenchPlan
<1> QED BY <1>4, <1>5, <1>6, <1>7

\* A plan without devices is a plan of the desk.
LEMMA BenchIsDesk ==
  ASSUME NEW k PROVE BenchSteps(k) \subseteq DeskSteps(k) /\ Seq(BenchSteps(k)) \subseteq Seq(DeskSteps(k))
<1>1. BenchSteps(k) \subseteq DeskSteps(k) BY DEF DeskSteps
<1> QED BY <1>1, SeqGrows

\* Requests about the devices of printers.
LEMMA PrinterDeviceRequests ==
  ASSUME DeskInv, NEW w \in Workers, NEW d \in DOMAIN devices,
         \/ \E o \in DOMAIN organizations : AssignPrinterDevice(w, d, o)
         \/ DeleteDevice(w, d) \/ \E list \in Lists : SyncFromAgent(w, d, list)
  PROVE  \E n \in 0 .. 2 : \E todo : DeskPlan(w, n, todo)
<1>1. ASSUME NEW n \in 0 .. 2
      PROVE  devices[d] \in DeviceRows(Later(n)) /\ d \in Ids(Later(n)) /\ Belongs(d, devices[d], Later(n))
  BY DeviceRow
<1>2. ASSUME NEW o \in DOMAIN organizations, AssignPrinterDevice(w, d, o)
      PROVE  \E n \in 0 .. 2 : \E todo : DeskPlan(w, n, todo)
  <2> DEFINE known == {p \in DOMAIN printers : printers[p].device = d}
             row == [devices[d] EXCEPT !.org = o, !.status = "verified"]
             taken == SaveDevice(d, row, "save")
             new == Printer(o, d, None, None)
  <2>1. \/ Draw(1) /\ Serve(w, <<SavePrinter(Token, new), taken>>)
        \/ Draw(0) /\ \E p \in known : Serve(w, <<SavePrinter(p, [printers[p] EXCEPT !.org = o]), taken>>)
    BY <1>2 DEF AssignPrinterDevice
  <2>2. o \in Opt(Orgs) /\ \A n \in 0 .. 2 : o \in Later(n).orgs BY DeskRow, DrawnIds, CompanyRow DEF Opt
  <2>3. ASSUME NEW n \in 0 .. 2 PROVE taken \in DeskSteps(Later(n))
    <3>1. row \in DeviceRows(Later(n)) /\ Belongs(d, row, Later(n)) /\ d \in Ids(Later(n))
      BY <1>1, <2>2 DEF DeviceRows, Belongs, Status
    <3> HIDE DEF row
    <3>2. taken \in DeviceSaves(Later(n)) BY <3>1 DEF SaveDevice, DeviceSaves
    <3> QED BY <3>2 DEF DeskSteps, BenchSteps
  <2> HIDE DEF taken
  <2>4. CASE Draw(1) /\ Serve(w, <<SavePrinter(Token, new), taken>>)
    <3>1. new \in PrinterRows(Later(1)) BY <1>1, <2>2, DrawnIds DEF Printer, PrinterRows, Opt
    <3> HIDE DEF new
    <3>2. SavePrinter(Token, new) \in DeskSteps(Later(1)) BY <3>1, DrawnIds, DeskRow, DeskStatements, BenchIsDesk
    <3> QED BY <2>3, <2>4, <3>2, DrawnIds, FewStatements DEF DeskPlan
  <2>5. ASSUME Draw(0), NEW p \in known, Serve(w, <<SavePrinter(p, [printers[p] EXCEPT !.org = o]), taken>>)
        PROVE  \E n \in 0 .. 2 : \E todo : DeskPlan(w, n, todo)
    <3> DEFINE kept == [printers[p] EXCEPT !.org = o]
    <3>1. printers[p] \in PrinterRows(Later(0)) /\ p \in Ids(Later(0)) BY DeskRow, DrawnIds
    <3>2. kept \in PrinterRows(Later(0)) BY <2>2, <3>1 DEF PrinterRows
    <3>3. Serve(w, <<SavePrinter(p, kept), taken>>) BY <2>5
    <3> HIDE DEF kept
    <3>4. SavePrinter(p, kept) \in DeskSteps(Later(0)) BY <3>1, <3>2, DrawnIds, DeskRow, DeskStatements, BenchIsDesk
    <3> QED BY <2>3, <2>5, <3>3, <3>4, DrawnIds, FewStatements DEF DeskPlan
  <2> QED BY <2>1, <2>4, <2>5
<1>3. CASE DeleteDevice(w, d)
  <2> DEFINE s == [do |-> "dropPrintersOf", id |-> d, about |-> {}]
             t == [do |-> "dropDevice", id |-> d]
  <2>1. Draw(0) /\ Serve(w, <<s, t>>) BY <1>3 DEF DeleteDevice
  <2>2. s \in DeskSteps(Later(0)) BY <1>1, DrawnIds DEF DeskSteps, BenchSteps
  <2>3. t \in DeskSteps(Later(0)) BY <1>1, DrawnIds DEF DeskSteps, BenchSteps
  <2> HIDE DEF s, t
  <2> QED BY <2>1, <2>2, <2>3, DrawnIds, FewStatements DEF DeskPlan
<1>4. ASSUME NEW list \in Lists, SyncFromAgent(w, d, list) PROVE \E n \in 0 .. 2 : \E todo : DeskPlan(w, n, todo)
  <2> DEFINE s(i) == [do |-> "sync", id |-> d, org |-> devices[d].org, local |-> list[i], about |-> {}]
             todo == [i \in DOMAIN list |-> s(i)]
  <2>1. Draw(0) /\ Serve(w, todo) BY <1>4 DEF SyncFromAgent
  <2>2. \A i \in DOMAIN list : list[i] \in Locals BY DEF Locals
  <2>3. devices[d].org \in Opt(Orgs) /\ d \in Ids(Later(0)) BY <1>1, DrawnIds DEF DeviceRows
  <2>4. \A i \in DOMAIN list : s(i) \in DeskSteps(Later(0)) BY <2>2, <2>3 DEF DeskSteps, BenchSteps
  <2>5. list \in Seq({list[i] : i \in DOMAIN list}) BY ListsAssumption
  <2>6. Len(list) \in Nat /\ DOMAIN list = 1 .. Len(list) BY <2>5
  <2> HIDE DEF s
  <2>7. todo \in Seq(DeskSteps(Later(0))) BY <2>4, <2>6
  <2> QED BY <2>1, <2>7, DrawnIds DEF DeskPlan
<1> QED BY <1>2, <1>3, <1>4

\* Requests about printers.
LEMMA PrinterRequests ==
  ASSUME DeskInv, NEW w \in Workers,
         \/ \E p \in DOMAIN printers :
              \/ UnassignPrinter(w, p) \/ UpdatePrinterAdmin(w, p)
              \/ \E a \in Users : RemovePrinter(w, a, p) \/ \E d \in DOMAIN devices \cup {None} : UpdatePrinter(w, a, p, d)
         \/ \E a \in Users, o \in DOMAIN organizations, d \in DOMAIN devices \cup {None} : CreatePrinter(w, a, o, d)
  PROVE  \E n \in 0 .. 2 : \E todo : BenchPlan(w, n, todo)
<1>1. ASSUME NEW p \in Ids(Later(0)), NEW row \in PrinterRows(Later(0)), Draw(0), Serve(w, <<SavePrinter(p, row)>>)
      PROVE  \E n \in 0 .. 2 : \E todo : BenchPlan(w, n, todo)
  <2>1. SavePrinter(p, row) \in BenchSteps(Later(0)) BY DrawnIds, DeskRow, DeskStatements
  <2> QED BY <1>1, <2>1, DrawnIds, FewStatements DEF BenchPlan
<1>2. ASSUME NEW p \in DOMAIN printers
      PROVE  /\ printers[p] \in PrinterRows(Later(0)) /\ p \in Ids(Later(0))
             /\ printers[p].device \in Opt(Ids(Later(0))) /\ printers[p].rental \in Opt(Ids(Later(0)))
  <2>1. printers[p] \in PrinterRows(Later(0)) /\ p \in Ids(Later(0)) BY DeskRow, DrawnIds
  <2> QED BY <2>1 DEF PrinterRows
<1>3. ASSUME NEW p \in DOMAIN printers, UnassignPrinter(w, p) PROVE \E n \in 0 .. 2 : \E todo : BenchPlan(w, n, todo)
  <2> DEFINE d == printers[p].device
             s == [do |-> "unassign", id |-> p, about |-> {}]
             t == Move(d, None, <<>>, {})
             second == IF d = None THEN <<>> ELSE <<t>>
  <2>1. Draw(0) /\ Serve(w, <<s>> \o second) BY <1>3 DEF UnassignPrinter
  <2>2. s \in BenchSteps(Later(0)) BY <1>2 DEF BenchSteps
  <2>3. d # None => t \in BenchSteps(Later(0))
    <3>1. d # None => d \in Ids(Later(0)) BY <1>2 DEF Opt
    <3>2. <<>> \in Seq(PrinterSaves(Later(0))) /\ None \in Opt(Later(0).orgs) BY DEF Opt
    <3> QED BY <3>1, <3>2, DrawnIds, DeskRow, DeskStatements
  <2> HIDE DEF s, t
  <2>4. <<s>> \in Seq(BenchSteps(Later(0))) /\ second \in Seq(BenchSteps(Later(0))) BY <2>2, <2>3, FewStatements
  <2> HIDE DEF second
  <2>5. <<s>> \o second \in Seq(BenchSteps(Later(0))) BY <2>4, ConcatProperties
  <2> QED BY <2>1, <2>5, DrawnIds DEF BenchPlan
<1>4. ASSUME NEW p \in DOMAIN printers, UpdatePrinterAdmin(w, p) PROVE \E n \in 0 .. 2 : \E todo : BenchPlan(w, n, todo)
  BY <1>1, <1>2, <1>4 DEF UpdatePrinterAdmin
<1>5. ASSUME NEW p \in DOMAIN printers, NEW a \in Users, RemovePrinter(w, a, p)
      PROVE  \E n \in 0 .. 2 : \E todo : BenchPlan(w, n, todo)
  <2> DEFINE s == DropPrinters({p}, {printers[p].rental} \ {None})
  <2>1. Draw(0) /\ Serve(w, <<s>>) BY <1>5 DEF RemovePrinter
  <2>2. {p} \in SUBSET Ids(Later(0)) /\ {printers[p].rental} \ {None} \in SUBSET Ids(Later(0)) BY <1>2 DEF Opt
  <2>3. s \in BenchSteps(Later(0)) BY <2>2, DrawnIds, DeskRow, DeskStatements
  <2> HIDE DEF s
  <2> QED BY <2>1, <2>3, DrawnIds, FewStatements DEF BenchPlan
<1>6. ASSUME NEW p \in DOMAIN printers, NEW a \in Users, NEW d \in DOMAIN devices \cup {None}, UpdatePrinter(w, a, p, d)
      PROVE  \E n \in 0 .. 2 : \E todo : BenchPlan(w, n, todo)
  <2> DEFINE row == [printers[p] EXCEPT !.device = d]
  <2>1. Draw(0) /\ Serve(w, <<SavePrinter(p, row)>>) BY <1>6 DEF UpdatePrinter
  <2>2. d \in Opt(Ids(Later(0))) BY DeskRow, DrawnIds DEF Opt
  <2>3. row \in PrinterRows(Later(0)) BY <1>2, <2>2 DEF PrinterRows
  <2> HIDE DEF row
  <2> QED BY <1>1, <1>2, <2>1, <2>3
<1>7. ASSUME NEW a \in Users, NEW o \in DOMAIN organizations, NEW d \in DOMAIN devices \cup {None}, CreatePrinter(w, a, o, d)
      PROVE  \E n \in 0 .. 2 : \E todo : BenchPlan(w, n, todo)
  <2> DEFINE row == Printer(o, d, None, None)
  <2>1. Draw(1) /\ Serve(w, <<SavePrinter(Token, row)>>) BY <1>7 DEF CreatePrinter
  <2>2. d \in Opt(Ids(Later(1))) /\ o \in Opt(Orgs) BY DeskRow, CompanyRow, DrawnIds DEF Opt
  <2>3. row \in PrinterRows(Later(1)) BY <2>2 DEF PrinterRows, Printer, Opt
  <2> HIDE DEF row
  <2>4. SavePrinter(Token, row) \in BenchSteps(Later(1)) BY <2>3, DrawnIds, DeskRow, DeskStatements
  <2> QED BY <2>1, <2>4, DrawnIds, FewStatements DEF BenchPlan
<1> QED BY <1>3, <1>4, <1>5, <1>6, <1>7

-----------------------------------------------------------------------------
(* What a step leaves alone stays in order, although more is known after it.         *)

Grew == KnownType(Known) /\ KnownType(Known') /\ Grows(Known, Known')

\* The tables a step does not touch.
LEMMA TablesStay ==
  ASSUME DeskInv, Grew
  PROVE  /\ UNCHANGED users => Table(users, Users, AccountRows(Known))'
         /\ UNCHANGED sessions => Table(sessions, Ids(Known), SessionRows)'
         /\ UNCHANGED otps => Table(otps, Ids(Known), OtpRows)'
         /\ UNCHANGED organizations => Table(organizations, Orgs, OrgRows)'
         /\ UNCHANGED members => Table(members, Ids(Known), MemberRows(Known))'
         /\ UNCHANGED invitations => Table(invitations, Ids(Known), InvitationRows(Known))'
         /\ UNCHANGED staffing =>
              (staffing \in [raced : SUBSET Orgs, demoted : SUBSET Orgs, accepted : Seq(Ids(Known))])'
         /\ UNCHANGED fleet => FleetTables(Known)'
<1> DEFINE k == Known
           l == Known'
<1>1. /\ Ids(k) \subseteq Ids(l) /\ AccountRows(k) \subseteq AccountRows(l)
      /\ MemberRows(k) \subseteq MemberRows(l) /\ InvitationRows(k) \subseteq InvitationRows(l)
      /\ DeviceRows(k) \subseteq DeviceRows(l)
  BY RowsGrow DEF Grew
<1>2. k.orgs \subseteq l.orgs /\ k.released \subseteq l.released BY DEF Grew, Grows
<1>3. Seq(Ids(k)) \subseteq Seq(Ids(l)) BY <1>1, SeqGrows
<1>4. AccountTables(k) /\ CompanyTables(k) /\ FleetTables(k) BY DEF DeskInv
<1>5. UNCHANGED users => Table(users, Users, AccountRows(Known))'
  BY <1>1, <1>4 DEF AccountTables, Table
<1>6. UNCHANGED sessions => Table(sessions, Ids(Known), SessionRows)'
  BY <1>1, <1>4 DEF AccountTables, Table, SessionRows
<1>7. UNCHANGED otps => Table(otps, Ids(Known), OtpRows)'
  BY <1>1, <1>4 DEF AccountTables, Table, OtpRows
<1>8. UNCHANGED organizations => Table(organizations, Orgs, OrgRows)'
  BY <1>1, <1>4 DEF CompanyTables, Table, OrgRows
<1>9. UNCHANGED members => Table(members, Ids(Known), MemberRows(Known))'
  BY <1>1, <1>4 DEF CompanyTables, Table
<1>10. UNCHANGED invitations => Table(invitations, Ids(Known), InvitationRows(Known))'
  BY <1>1, <1>4 DEF CompanyTables, Table
<1>11. UNCHANGED staffing => (staffing \in [raced : SUBSET Orgs, demoted : SUBSET Orgs, accepted : Seq(Ids(Known))])'
  BY <1>3, <1>4 DEF CompanyTables
<1>12. UNCHANGED fleet => FleetTables(Known)'
  BY <1>1, <1>2, <1>4 DEF FleetTables, Table, fleet, Belongs
<1> QED BY <1>5, <1>6, <1>7, <1>8, <1>9, <1>10, <1>11, <1>12

\* The rows of the desk, when it is not touched and the devices stay.
LEMMA DeskStays ==
  ASSUME DeskInv, Grew
  PROVE  /\ UNCHANGED hardware => Table(hardware, Ids(Known), HardwareRows(Known))'
         /\ UNCHANGED rentals => Table(rentals, Ids(Known), RentalRows(Known))'
         /\ UNCHANGED printers => Table(printers, Ids(Known), PrinterRows(Known))'
         /\ UNCHANGED desk => (desk \in [loose : SUBSET Ids(Known), released : SUBSET Ids(Known)])'
<1> DEFINE k == Known
           l == Known'
<1>1. /\ Ids(k) \subseteq Ids(l) /\ HardwareRows(k) \subseteq HardwareRows(l)
      /\ RentalRows(k) \subseteq RentalRows(l) /\ PrinterRows(k) \subseteq PrinterRows(l)
  BY RowsGrow DEF Grew
<1>2. DeskTables(k) BY DEF DeskInv
<1>3. UNCHANGED hardware => Table(hardware, Ids(Known), HardwareRows(Known))' BY <1>1, <1>2 DEF DeskTables, Table
<1>4. UNCHANGED rentals => Table(rentals, Ids(Known), RentalRows(Known))' BY <1>1, <1>2 DEF DeskTables, Table
<1>5. UNCHANGED printers => Table(printers, Ids(Known), PrinterRows(Known))' BY <1>1, <1>2 DEF DeskTables, Table
<1>6. UNCHANGED desk => (desk \in [loose : SUBSET Ids(Known), released : SUBSET Ids(Known)])'
  BY <1>1, <1>2 DEF DeskTables
<1> QED BY <1>3, <1>4, <1>5, <1>6

\* Plans stay plans as they get shorter, and as more is known.
LEMMA PlansStay ==
  ASSUME DeskInv, Grew
  PROVE  /\ \A w \in Workers : /\ task[w] \in Plans(Known') /\ task[w] \in Plans(Known)
                               /\ task[w] # Idle => Tail(task[w]) \in Plans(Known')
         /\ Idle \in Plans(Known')
<1>1. Plans(Known) \subseteq Plans(Known') BY PlansGrow DEF Grew
<1>2. \A w \in Workers : task[w] \in Plans(Known) BY DEF DeskInv
<1>3. ASSUME NEW k, NEW t \in Plans(k), t # <<>> PROVE Tail(t) \in Plans(k)
  <2>1. CASE t \in Seq(AccountSteps(k))
    <3>1. Tail(t) \in Seq(AccountSteps(k)) BY <1>3, <2>1
    <3> QED BY <3>1 DEF Plans
  <2>2. CASE t \in {u \in Seq(CompanySteps(k) \cup FleetSteps(k)) : Len(u) <= 1}
    <3> DEFINE S == CompanySteps(k) \cup FleetSteps(k)
    <3> HIDE DEF S
    <3>1. t \in Seq(S) /\ Len(t) <= 1 BY <2>2 DEF S
    <3>2. Tail(t) \in Seq(S) /\ Len(Tail(t)) = Len(t) - 1 /\ Len(t) \in Nat BY <1>3, <3>1, HeadTailProperties
    <3>3. Len(Tail(t)) <= 1 BY <3>1, <3>2
    <3> QED BY <3>2, <3>3 DEF Plans, S
  <2>3. CASE t \in Seq(DeskSteps(k))
    <3>1. Tail(t) \in Seq(DeskSteps(k)) BY <1>3, <2>3
    <3> QED BY <3>1 DEF Plans
  <2> QED BY <1>3, <2>1, <2>2, <2>3 DEF Plans
<1>4. \A k : Idle \in Plans(k)
  <2> SUFFICES ASSUME NEW k PROVE Idle \in Plans(k) OBVIOUS
  <2>1. <<>> \in Seq(AccountSteps(k)) OBVIOUS
  <2> QED BY <2>1 DEF Plans, Idle
<1>5. \A w \in Workers : task[w] # Idle => Tail(task[w]) \in Plans(Known') BY <1>1, <1>2, <1>3 DEF Idle
<1> QED BY <1>1, <1>2, <1>4, <1>5

-----------------------------------------------------------------------------
(* Statements.  What a statement is tells what it carries.                           *)

AccountKinds ==
  {"user", "session", "revoke", "revokeAll", "revokeOthers", "forget", "useOtps", "otp", "saveOtp", "trust", "untrust"}
CompanyKinds == {"found", "organization", "close", "member", "dropMember", "accept", "invite", "uninvite"}
FleetKinds == {"device", "couple", "client", "dropDevice"}

\* A statement about accounts, by its kind.
LEMMA KindsOfAccounts ==
  ASSUME NEW k, NEW s \in AccountSteps(k)
  PROVE  /\ s.do \in AccountKinds
         /\ s.do = "user" => s \in UserSaves(k)
         /\ s.do \in {"session", "revokeAll"} => s \in [do : {"session", "revokeAll"}, user : Users]
         /\ s.do \in {"revoke", "forget"} => s \in [do : {"revoke", "forget"}, session : Ids(k)]
         /\ s.do = "revokeOthers" => s \in [do : {"revokeOthers"}, user : Users, but : Ids(k)]
         /\ s.do \in {"useOtps", "otp"} => s \in [do : {"useOtps", "otp"}, user : Users, purpose : Purposes]
         /\ s.do = "saveOtp" => s \in [do : {"saveOtp"}, code : Ids(k), row : OtpRows]
         /\ s.do \in {"trust", "untrust"} => s \in [do : {"trust", "untrust"}, user : Users]
<1> USE DEF AccountKinds
<1>1. CASE s \in UserSaves(k) BY <1>1 DEF UserSaves
<1>2. CASE s \in [do : {"session", "revokeAll"}, user : Users] BY <1>2
<1>3. CASE s \in [do : {"revoke", "forget"}, session : Ids(k)] BY <1>3
<1>4. CASE s \in [do : {"revokeOthers"}, user : Users, but : Ids(k)] BY <1>4
<1>5. CASE s \in [do : {"useOtps", "otp"}, user : Users, purpose : Purposes] BY <1>5
<1>6. CASE s \in [do : {"saveOtp"}, code : Ids(k), row : OtpRows] BY <1>6
<1>7. CASE s \in [do : {"trust", "untrust"}, user : Users] BY <1>7
<1> QED BY <1>1, <1>2, <1>3, <1>4, <1>5, <1>6, <1>7 DEF AccountSteps

\* A statement about organizations, by its kind.
LEMMA KindsOfCompany ==
  ASSUME NEW k, NEW s \in CompanySteps(k)
  PROVE  /\ s.do \in CompanyKinds
         /\ s.do = "found" => s \in Founds(k)
         /\ s.do = "organization" => s \in OrgSaves(k)
         /\ s.do = "close" => s \in [do : {"close"}, org : k.orgs]
         /\ s.do = "member" => s \in MemberSaves(k)
         /\ s.do = "dropMember" => s \in MemberDrops(k)
         /\ s.do = "accept" => s \in Accepts(k)
         /\ s.do = "invite" => s \in [do : {"invite"}, id : Ids(k), row : InvitationRows(k)]
         /\ s.do = "uninvite" => s \in [do : {"uninvite"}, id : Ids(k)]
<1> USE DEF CompanyKinds
<1>1. CASE s \in Founds(k) BY <1>1 DEF Founds
<1>2. CASE s \in OrgSaves(k) BY <1>2 DEF OrgSaves
<1>3. CASE s \in [do : {"close"}, org : k.orgs] BY <1>3
<1>4. CASE s \in MemberSaves(k) BY <1>4 DEF MemberSaves
<1>5. CASE s \in MemberDrops(k) BY <1>5 DEF MemberDrops
<1>6. CASE s \in Accepts(k) BY <1>6 DEF Accepts
<1>7. CASE s \in [do : {"invite"}, id : Ids(k), row : InvitationRows(k)] BY <1>7
<1>8. CASE s \in [do : {"uninvite"}, id : Ids(k)] BY <1>8
<1> QED BY <1>1, <1>2, <1>3, <1>4, <1>5, <1>6, <1>7, <1>8 DEF CompanySteps

\* A statement about devices, by its kind.
LEMMA KindsOfFleet ==
  ASSUME NEW k, NEW s \in FleetSteps(k)
  PROVE  /\ s.do \in FleetKinds
         /\ s.do = "device" => s \in DeviceSaves(k)
         /\ s.do = "couple" => s \in [do : {"couple"}, id : Ids(k), server : Opt(Users)]
         /\ s.do \in {"client", "dropDevice"} => s \in [do : {"client", "dropDevice"}, id : Ids(k)]
<1> USE DEF FleetKinds
<1>1. CASE s \in DeviceSaves(k) BY <1>1 DEF DeviceSaves
<1>2. CASE s \in [do : {"couple"}, id : Ids(k), server : Opt(Users)] BY <1>2
<1>3. CASE s \in [do : {"client", "dropDevice"}, id : Ids(k)] BY <1>3
<1> QED BY <1>1, <1>2, <1>3 DEF FleetSteps

\* A statement of the desk, by its kind.
LEMMA KindsOfDesk ==
  ASSUME NEW k, NEW s \in DeskSteps(k)
  PROVE  /\ s.do \in DeskKinds \cup {"device", "dropDevice"}
         /\ s.do \in DeskKinds => s.about \subseteq Ids(k)
         /\ s.do = "hardware" => s \in HardwareSaves(k)
         /\ s.do = "free" => s \in Frees(k)
         /\ s.do = "dropHardware" => s \in HardwareDrops(k)
         /\ s.do = "rental" => s \in RentalSaves(k)
         /\ s.do = "printer" => s \in PrinterSaves(k)
         /\ s.do = "dropPrinters" => s \in PrinterDrops(k)
         /\ s.do = "move" => s \in Moves(k)
         /\ s.do \in {"dropPrintersOf", "release", "unassign"} =>
              s \in [do : {"dropPrintersOf", "release", "unassign"}, id : Ids(k), about : SUBSET Ids(k)]
         /\ s.do = "sync" => s \in [do : {"sync"}, id : Ids(k), org : Opt(Orgs), local : Locals, about : SUBSET Ids(k)]
         /\ s.do = "device" => s \in DeviceSaves(k)
         /\ s.do = "dropDevice" => s \in [do : {"dropDevice"}, id : Ids(k)]
<1> USE DEF DeskKinds
<1>1. CASE s \in HardwareSaves(k) BY <1>1 DEF HardwareSaves
<1>2. CASE s \in Frees(k) BY <1>2 DEF Frees
<1>3. CASE s \in HardwareDrops(k) BY <1>3 DEF HardwareDrops
<1>4. CASE s \in RentalSaves(k) BY <1>4 DEF RentalSaves
<1>5. CASE s \in PrinterSaves(k) BY <1>5 DEF PrinterSaves
<1>6. CASE s \in PrinterDrops(k) BY <1>6 DEF PrinterDrops
<1>7. CASE s \in Moves(k) BY <1>7 DEF Moves
<1>8. CASE s \in [do : {"dropPrintersOf", "release", "unassign"}, id : Ids(k), about : SUBSET Ids(k)] BY <1>8
<1>9. CASE s \in [do : {"sync"}, id : Ids(k), org : Opt(Orgs), local : Locals, about : SUBSET Ids(k)] BY <1>9
<1>10. CASE s \in DeviceSaves(k) BY <1>10 DEF DeviceSaves
<1>11. CASE s \in [do : {"dropDevice"}, id : Ids(k)] BY <1>11
<1> QED BY <1>1, <1>2, <1>3, <1>4, <1>5, <1>6, <1>7, <1>8, <1>9, <1>10, <1>11 DEF DeskSteps, BenchSteps

\* The statement a worker is at, by its kind.
LEMMA Statement ==
  ASSUME DeskInv, NEW w \in Workers, task[w] # Idle
  PROVE  /\ Now(w).do \in AccountKinds \cup CompanyKinds \cup FleetKinds \cup DeskKinds
         /\ Now(w).do \in AccountKinds => Now(w) \in AccountSteps(Known)
         /\ Now(w).do \in CompanyKinds => Now(w) \in CompanySteps(Known)
         /\ Now(w).do \in FleetKinds => Now(w) \in FleetSteps(Known)
         /\ Now(w).do \in DeskKinds => Now(w) \in DeskSteps(Known) /\ task[w] \in Seq(DeskSteps(Known))
<1> DEFINE k == Known
           s == Now(w)
<1> USE DEF AccountKinds, CompanyKinds, FleetKinds, DeskKinds
<1>1. task[w] \in Plans(k) /\ task[w] # <<>> BY DEF DeskInv, Idle
<1> HIDE DEF k
<1>2. CASE task[w] \in Seq(AccountSteps(k))
  <2>1. s \in AccountSteps(k) BY <1>1, <1>2 DEF Now
  <2>2. s.do \in AccountKinds BY <2>1, KindsOfAccounts
  <2> QED BY <2>1, <2>2 DEF k
<1>3. CASE task[w] \in {t \in Seq(CompanySteps(k) \cup FleetSteps(k)) : Len(t) <= 1}
  <2>1. s \in CompanySteps(k) \cup FleetSteps(k) BY <1>1, <1>3 DEF Now
  <2>2. CASE s \in CompanySteps(k)
    <3>1. s.do \in CompanyKinds BY <2>2, KindsOfCompany
    <3> QED BY <2>2, <3>1 DEF k
  <2>3. CASE s \in FleetSteps(k)
    <3>1. s.do \in FleetKinds BY <2>3, KindsOfFleet
    <3> QED BY <2>3, <3>1 DEF k
  <2> QED BY <2>1, <2>2, <2>3
<1>4. CASE task[w] \in Seq(DeskSteps(k))
  <2>1. s \in DeskSteps(k) BY <1>1, <1>4 DEF Now
  <2>2. s.do \in DeskKinds \cup {"device", "dropDevice"} BY <2>1, KindsOfDesk
  <2>3. s.do = "device" => s \in FleetSteps(k) BY <2>1, KindsOfDesk DEF FleetSteps
  <2>4. s.do = "dropDevice" => s \in FleetSteps(k)
    <3>1. s.do = "dropDevice" => s \in [do : {"dropDevice"}, id : Ids(k)] BY <2>1, KindsOfDesk
    <3> QED BY <3>1 DEF FleetSteps
  <2> QED BY <1>4, <2>1, <2>2, <2>3, <2>4 DEF k
<1> QED BY <1>1, <1>2, <1>3, <1>4 DEF Plans

\* What a worker is about was drawn.
LEMMA AboutDrawn == ASSUME DeskInv, NEW w \in Workers PROVE AboutOf(w) \subseteq Ids(Known)
<1> DEFINE k == Known
<1>1. task[w] \in Plans(k) BY DEF DeskInv
<1> HIDE DEF k
<1>2. ASSUME NEW i \in DOMAIN task[w], task[w][i].do \in DeskKinds PROVE task[w][i].about \subseteq Ids(k)
  <2>1. CASE task[w] \in Seq(AccountSteps(k))
    <3>1. task[w][i] \in AccountSteps(k) BY <2>1
    <3> QED BY <1>2, <3>1, KindsOfAccounts DEF AccountKinds, DeskKinds
  <2>2. CASE task[w] \in {t \in Seq(CompanySteps(k) \cup FleetSteps(k)) : Len(t) <= 1}
    <3>1. task[w][i] \in CompanySteps(k) \cup FleetSteps(k) BY <2>2
    <3>2. task[w][i].do \in CompanyKinds \cup FleetKinds BY <3>1, KindsOfCompany, KindsOfFleet
    <3> QED BY <1>2, <3>2 DEF CompanyKinds, FleetKinds, DeskKinds
  <2>3. CASE task[w] \in Seq(DeskSteps(k))
    <3>1. task[w][i] \in DeskSteps(k) BY <2>3
    <3> QED BY <1>2, <3>1, KindsOfDesk
  <2> QED BY <1>1, <2>1, <2>2, <2>3 DEF Plans
<1> QED BY <1>2 DEF AboutOf, k

-----------------------------------------------------------------------------
(* Steps.                                                                            *)

Running == RequestsOK /\ task \in [Workers -> Plans(Known)]
TokensOK == tokens \in [next : 1 .. (MaxTokens + 1), expired : SUBSET (1 .. MaxTokens)]

\* Numbers that are drawn, and a step that lets no known thing go.
LEMMA MoreIsKnown ==
  ASSUME DeskInv, load'.requests \in {load.requests, load.requests + 1},
         UNCHANGED tokens \/ \E n \in 0 .. 2 : Draw(n),
         DOMAIN users \subseteq DOMAIN users', DOMAIN organizations \subseteq DOMAIN organizations',
         desk.released \subseteq desk'.released
  PROVE  Grew /\ TokensOK'
<1>1. /\ KnownType(Known) /\ Known.next = Token /\ Token \in Nat \ {0}
      /\ Known.requests = load.requests /\ Known.users = DOMAIN users /\ Known.orgs = DOMAIN organizations
      /\ Known.released = desk.released /\ load.requests \in Nat
  BY LaterFacts, DrawnIds
<1>2. /\ Known'.next = tokens'.next /\ Known'.requests = load'.requests /\ Known'.users = DOMAIN users'
      /\ Known'.orgs = DOMAIN organizations' /\ Known'.released = desk'.released
  BY DEF Known
<1>3. TokensOK BY DEF DeskInv, AccountTables, TokensOK
<1>4. tokens'.next \in Nat /\ tokens.next <= tokens'.next /\ TokensOK'
  <2>1. CASE UNCHANGED tokens BY <2>1, <1>1, <1>3 DEF Token, TokensOK
  <2>2. ASSUME NEW n \in 0 .. 2, Draw(n) PROVE tokens'.next \in Nat /\ tokens.next <= tokens'.next /\ TokensOK'
    BY <2>2, <1>1, <1>3, AccountsAssumption DEF Draw, TokensOK, Token
  <2> QED BY <2>1, <2>2
<1>5. KnownType(Known') BY <1>1, <1>2, <1>4 DEF KnownType
<1>6. Grows(Known, Known') BY <1>1, <1>2, <1>4 DEF Grows, Token
<1> QED BY <1>1, <1>4, <1>5, <1>6 DEF Grew

\* A request that starts.
LEMMA Starts ==
  ASSUME DeskInv, NEW w \in Workers, NEW n \in 0 .. 2, NEW todo \in Plans(Later(n)), Draw(n), Start(w, todo),
         UNCHANGED <<users, organizations>>, desk'.released = desk.released
  PROVE  Grew /\ TokensOK' /\ Running'
<1>1. load.requests < MaxRequests /\ load' = [load EXCEPT !.requests = @ + 1] /\ task' = [task EXCEPT ![w] = todo]
  BY DEF Start, Ready
<1>2. load \in [requests : 0..MaxRequests, crashes : 0..MaxCrashes] /\ DOMAIN task = Workers
  BY DEF DeskInv, RequestsOK
<1>3. RequestsOK' BY <1>1, <1>2, RequestsAssumption DEF RequestsOK
<1>4. load'.requests = load.requests + 1 BY <1>1, <1>2
<1>5. Grew /\ TokensOK' BY <1>4, MoreIsKnown
<1>6. Known' = Later(n)
  <2>1. tokens' = [tokens EXCEPT !.next = tokens.next + n] BY DEF Draw
  <2>2. TokensOK BY DEF DeskInv, AccountTables, TokensOK
  <2>3. tokens'.next = tokens.next + n BY <2>1, <2>2 DEF TokensOK
  <2>5. Known' = [next |-> tokens'.next, requests |-> load'.requests, users |-> DOMAIN users',
                  orgs |-> DOMAIN organizations', released |-> desk'.released]
    BY DEF Known
  <2>6. DOMAIN users' = DOMAIN users /\ DOMAIN organizations' = DOMAIN organizations OBVIOUS
  <2> QED BY <1>4, <2>3, <2>5, <2>6 DEF Later
<1>7. \A v \in Workers : task'[v] \in Plans(Known') BY <1>1, <1>2, <1>5, <1>6, PlansStay
<1>8. task' \in [Workers -> Plans(Known')]
  <2>1. task \in [Workers -> Plans(Known)] BY DEF DeskInv
  <2>2. task' = [v \in Workers |-> task'[v]] BY <1>1, <2>1
  <2> QED BY <1>7, <2>2
<1> QED BY <1>3, <1>5, <1>8 DEF Running

\* A statement that is done, that throws, or that is followed by others.
LEMMA Proceeds ==
  ASSUME DeskInv, NEW w \in Workers, task[w] # Idle, Grew,
         \/ Done(w) \/ Fail(w)
         \/ \E todo : todo \o Tail(task[w]) \in Plans(Known') /\ Then(w, todo)
  PROVE  Running'
<1>1. load' = load /\ \E t \in Plans(Known') : task' = [task EXCEPT ![w] = t]
  BY PlansStay DEF Done, Fail, Then
<1>2. task \in [Workers -> Plans(Known)] /\ RequestsOK BY DEF DeskInv
<1>3. \A v \in Workers : task'[v] \in Plans(Known') BY <1>1, <1>2, PlansStay
<1>4. task' \in [Workers -> Plans(Known')] /\ DOMAIN task' = Workers BY <1>1, <1>2, <1>3
<1>5. RequestsOK' BY <1>1, <1>2, <1>4 DEF RequestsOK
<1> QED BY <1>4, <1>5 DEF Running

Core == Running /\ AccountTables(Known) /\ CompanyTables(Known) /\ FleetTables(Known)

\* Requests only read.
LEMMA RequestKeeps ==
  ASSUME DeskInv, NEW w \in Workers, NEW n \in 0 .. 2, NEW todo \in Plans(Later(n)), Draw(n), Ask(w, todo),
         UNCHANGED fleet, desk'.released = desk.released
  PROVE  Grew /\ Core'
<1>1. /\ Start(w, todo) /\ UNCHANGED <<users, sessions, otps, trusted, erasure>>
      /\ UNCHANGED <<organizations, members, invitations, staffing>>
  BY DEF Ask, Reply, company
<1>2. Grew /\ TokensOK' /\ Running' BY <1>1, Starts
<1>3. AccountTables(Known)'
  <2>1. trusted \subseteq Users /\ erasure \in [done : SUBSET DOMAIN users, raced : SUBSET Users]
    BY DEF DeskInv, AccountTables
  <2> QED BY <1>1, <1>2, <2>1, TablesStay DEF AccountTables, TokensOK
<1>4. CompanyTables(Known)' BY <1>1, <1>2, TablesStay DEF CompanyTables
<1>5. FleetTables(Known)' BY <1>2, TablesStay
<1> QED BY <1>2, <1>3, <1>4, <1>5 DEF Core

\* A row that is stored, taken out, or changed in all rows.
LEMMA TableRows ==
  ASSUME NEW f, NEW D, NEW R, Table(f, D, R)
  PROVE  /\ \A key \in D, row \in R : /\ Table(With(f, key, row), D, R)
                                      /\ DOMAIN With(f, key, row) = DOMAIN f \cup {key}
         /\ \A key : Table(Without(f, key), D, R) /\ DOMAIN Without(f, key) = DOMAIN f \ {key}
BY DEF Table, With, Without

(* The tables of before, as the step may use them.  *)
Earlier ==
  /\ Table(users, Users, AccountRows(Known')) /\ Table(sessions, Ids(Known'), SessionRows)
  /\ Table(otps, Ids(Known'), OtpRows)
  /\ Table(organizations, Orgs, OrgRows) /\ Table(members, Ids(Known'), MemberRows(Known'))
  /\ Table(invitations, Ids(Known'), InvitationRows(Known'))
  /\ Table(devices, Ids(Known'), DeviceRows(Known')) /\ \A d \in DOMAIN devices : Belongs(d, devices[d], Known')
  /\ Table(hardware, Ids(Known'), HardwareRows(Known')) /\ Table(rentals, Ids(Known'), RentalRows(Known'))
  /\ Table(printers, Ids(Known'), PrinterRows(Known'))

\* A step may use the rows of before.
LEMMA EarlierTables == ASSUME DeskInv, Grew PROVE Earlier
<1> DEFINE k == Known
           l == Known'
<1>1. /\ Ids(k) \subseteq Ids(l) /\ AccountRows(k) \subseteq AccountRows(l)
      /\ MemberRows(k) \subseteq MemberRows(l) /\ InvitationRows(k) \subseteq InvitationRows(l)
      /\ DeviceRows(k) \subseteq DeviceRows(l) /\ HardwareRows(k) \subseteq HardwareRows(l)
      /\ RentalRows(k) \subseteq RentalRows(l) /\ PrinterRows(k) \subseteq PrinterRows(l)
  BY RowsGrow DEF Grew
<1>2. k.orgs \subseteq l.orgs /\ k.released \subseteq l.released BY DEF Grew, Grows
<1>3. AccountTables(k) /\ CompanyTables(k) /\ FleetTables(k) /\ DeskTables(k) BY DEF DeskInv
<1>4. ASSUME NEW f, NEW D, NEW R, NEW E, NEW S, Table(f, D, R), D \subseteq E, R \subseteq S PROVE Table(f, E, S)
  BY <1>4 DEF Table
<1>5. /\ Table(users, Users, AccountRows(l)) /\ Table(sessions, Ids(l), SessionRows)
      /\ Table(otps, Ids(l), OtpRows)
  BY <1>1, <1>3, <1>4 DEF AccountTables
<1>6. /\ Table(organizations, Orgs, OrgRows) /\ Table(members, Ids(l), MemberRows(l))
      /\ Table(invitations, Ids(l), InvitationRows(l))
  BY <1>1, <1>3, <1>4 DEF CompanyTables
<1>7. Table(devices, Ids(l), DeviceRows(l)) BY <1>1, <1>3, <1>4 DEF FleetTables
<1>8. \A d \in DOMAIN devices : Belongs(d, devices[d], l) BY <1>2, <1>3 DEF FleetTables, Belongs
<1>9. /\ Table(hardware, Ids(l), HardwareRows(l)) /\ Table(rentals, Ids(l), RentalRows(l))
      /\ Table(printers, Ids(l), PrinterRows(l))
  BY <1>1, <1>3, <1>4 DEF DeskTables
<1> QED BY <1>5, <1>6, <1>7, <1>8, <1>9 DEF Earlier

\* The row of a user.
LEMMA StoreUserKeeps ==
  ASSUME DeskInv, NEW w \in Workers, StoreUser(w), UNCHANGED <<company, fleet>>, desk'.released = desk.released
  PROVE  Grew /\ Core'
<1> DEFINE u == Now(w).user
           row == Now(w).row
<1>1. /\ task[w] # Idle /\ Now(w).do = "user" /\ UNCHANGED <<sessions, otps, trusted, tokens>>
      /\ \/ Fail(w) /\ UNCHANGED <<users, erasure>>
         \/ /\ users' = With(users, u, row) /\ Done(w)
            /\ \/ erasure' = erasure
               \/ \E b \in BOOLEAN : erasure' = [done |-> erasure.done \cup {u}, raced |-> erasure.raced \cup (IF b THEN {u} ELSE {})]
  BY DEF StoreUser, At
<1>2. UNCHANGED <<organizations, members, invitations, staffing>> BY DEF company
<1>3. Now(w) \in UserSaves(Known)
  <2>1. Now(w) \in AccountSteps(Known) BY <1>1, Statement DEF AccountKinds
  <2> QED BY <1>1, <2>1, KindsOfAccounts
<1>4. u \in Users /\ row \in AccountRows(Known) BY <1>3 DEF UserSaves
<1> HIDE DEF u, row
<1>5. DOMAIN users \subseteq DOMAIN users' /\ (~UNCHANGED users => u \in DOMAIN users') BY <1>1 DEF With
<1>6. load' = load BY <1>1 DEF Done, Fail
<1>7. Grew /\ TokensOK' BY <1>1, <1>2, <1>5, <1>6, MoreIsKnown
<1>8. Running' BY <1>1, <1>7, Proceeds
<1>9. Earlier BY <1>7, EarlierTables
<1>10. row \in AccountRows(Known') BY <1>4, <1>7, RowsGrow DEF Grew
<1>11. Table(users', Users, AccountRows(Known'))
  <2>1. Table(users, Users, AccountRows(Known')) BY <1>9 DEF Earlier
  <2>2. Table(With(users, u, row), Users, AccountRows(Known')) BY <2>1, <1>4, <1>10, TableRows
  <2>3. users' = users \/ users' = With(users, u, row) BY <1>1
  <2> QED BY <2>1, <2>2, <2>3
<1>12. trusted \subseteq Users /\ erasure \in [done : SUBSET DOMAIN users, raced : SUBSET Users]
  BY DEF DeskInv, AccountTables
<1>13. erasure' \in [done : SUBSET DOMAIN users', raced : SUBSET Users]
  <2>1. CASE erasure' = erasure BY <1>5, <1>12, <2>1
  <2>2. ASSUME erasure' # erasure PROVE erasure' \in [done : SUBSET DOMAIN users', raced : SUBSET Users]
    <3>1. users' = With(users, u, row) BY <1>1, <2>2
    <3>2. u \in DOMAIN users' BY <3>1 DEF With
    <3>3. PICK b \in BOOLEAN : erasure' = [done |-> erasure.done \cup {u}, raced |-> erasure.raced \cup (IF b THEN {u} ELSE {})]
      BY <1>1, <2>2
    <3> QED BY <1>4, <1>5, <1>12, <3>2, <3>3
  <2> QED BY <2>1, <2>2
<1>14. AccountTables(Known)'
  BY <1>1, <1>7, <1>11, <1>12, <1>13, TablesStay DEF AccountTables, TokensOK, Table
<1>15. CompanyTables(Known)' BY <1>2, <1>7, TablesStay DEF CompanyTables
<1>16. FleetTables(Known)' BY <1>7, TablesStay
<1> QED BY <1>7, <1>8, <1>14, <1>15, <1>16 DEF Core

\* Sessions, codes and trusted browsers.
LEMMA StoreSecretKeeps ==
  ASSUME DeskInv, NEW w \in Workers, task[w] # Idle, Done(w), NEW n \in 0 .. 1, Draw(n),
         UNCHANGED <<users, erasure, company, fleet>>, desk'.released = desk.released,
         Grew => /\ Table(sessions', Ids(Known'), SessionRows) /\ Table(otps', Ids(Known'), OtpRows)
                 /\ trusted' \subseteq Users
  PROVE  Grew /\ Core'
<1>1. UNCHANGED <<organizations, members, invitations, staffing>> BY DEF company
<1>2. load' = load /\ n \in 0 .. 2 BY DEF Done
<1>3. Grew /\ TokensOK' BY <1>1, <1>2, MoreIsKnown
<1>4. Running' BY <1>3, Proceeds
<1>5. erasure \in [done : SUBSET DOMAIN users, raced : SUBSET Users] BY DEF DeskInv, AccountTables
<1>6. AccountTables(Known)' BY <1>3, <1>5, TablesStay DEF AccountTables, TokensOK, Table
<1>7. CompanyTables(Known)' BY <1>1, <1>3, TablesStay DEF CompanyTables
<1>8. FleetTables(Known)' BY <1>3, TablesStay
<1> QED BY <1>3, <1>4, <1>6, <1>7, <1>8 DEF Core

\* Nothing is drawn.
LEMMA DrawNone == ASSUME DeskInv, UNCHANGED tokens PROVE Draw(0)
<1>1. tokens \in [next : 1 .. (MaxTokens + 1), expired : SUBSET (1 .. MaxTokens)] BY DEF DeskInv, AccountTables
<1>2. tokens.next + 0 = tokens.next /\ tokens.next + 0 - 1 <= MaxTokens BY <1>1, AccountsAssumption
<1>3. tokens = [tokens EXCEPT !.next = tokens.next] BY <1>1
<1> QED BY <1>2, <1>3 DEF Draw, Token

\* Sessions.
LEMMA SessionsKeep ==
  ASSUME DeskInv, NEW w \in Workers, StoreSession(w) \/ RevokeSessions(w), UNCHANGED <<company, fleet>>,
         desk'.released = desk.released
  PROVE  Grew /\ Core'
<1>1. CASE StoreSession(w)
  <2> DEFINE row == [user |-> Now(w).user, revoked |-> FALSE]
  <2>1. /\ task[w] # Idle /\ Now(w).do = "session" /\ Done(w) /\ Draw(1) /\ sessions' = With(sessions, Token, row)
        /\ UNCHANGED <<users, otps, trusted, erasure>>
    BY <1>1 DEF StoreSession, At
  <2>2. Now(w) \in AccountSteps(Known) BY <2>1, Statement DEF AccountKinds
  <2>3. row \in SessionRows BY <2>1, <2>2, KindsOfAccounts DEF SessionRows
  <2>4. ASSUME Grew
        PROVE  /\ Table(sessions', Ids(Known'), SessionRows) /\ Table(otps', Ids(Known'), OtpRows)
               /\ trusted' \subseteq Users
    <3>1. Earlier BY <2>4, EarlierTables
    <3>2. tokens'.next = tokens.next + 1 /\ tokens.next \in Nat \ {0}
      BY <2>1 DEF Draw, DeskInv, AccountTables
    <3>3. Token \in Ids(Known') BY <3>2 DEF Ids, Known, Token
    <3>4. Table(sessions', Ids(Known'), SessionRows) BY <2>1, <2>3, <3>1, <3>3, TableRows DEF Earlier
    <3> QED BY <2>1, <3>1, <3>4 DEF Earlier, DeskInv, AccountTables
  <2>5. 1 \in 0 .. 1 OBVIOUS
  <2> HIDE DEF row
  <2> QED BY <2>1, <2>4, <2>5, StoreSecretKeeps
<1>2. CASE RevokeSessions(w)
  <2>1. /\ task[w] # Idle /\ Done(w) /\ UNCHANGED <<users, otps, trusted, tokens, erasure>>
        /\ (\E which : sessions' = Revoked(which)) \/ (\E key : sessions' = Without(sessions, key))
    BY <1>2 DEF RevokeSessions, At
  <2>2. Draw(0) BY <2>1, DrawNone
  <2>3. ASSUME Grew
        PROVE  /\ Table(sessions', Ids(Known'), SessionRows) /\ Table(otps', Ids(Known'), OtpRows)
               /\ trusted' \subseteq Users
    <3>1. Earlier BY <2>3, EarlierTables
    <3>2. Table(sessions, Ids(Known'), SessionRows) BY <3>1 DEF Earlier
    <3>3. ASSUME NEW which, sessions' = Revoked(which) PROVE Table(sessions', Ids(Known'), SessionRows)
      BY <3>2, <3>3 DEF Revoked, Table, SessionRows
    <3>4. ASSUME NEW key, sessions' = Without(sessions, key) PROVE Table(sessions', Ids(Known'), SessionRows)
      BY <3>2, <3>4, TableRows
    <3> QED BY <2>1, <3>1, <3>3, <3>4 DEF Earlier, DeskInv, AccountTables
  <2> QED BY <2>1, <2>2, <2>3, StoreSecretKeeps
<1> QED BY <1>1, <1>2

\* Codes and trusted browsers.
LEMMA CodesKeep ==
  ASSUME DeskInv, NEW w \in Workers, StoreOtp(w) \/ StoreTrust(w), UNCHANGED <<company, fleet>>,
         desk'.released = desk.released
  PROVE  Grew /\ Core'
<1>1. CASE StoreOtp(w)
  <2> DEFINE row == [user |-> Now(w).user, purpose |-> Now(w).purpose, used |-> FALSE, attempts |-> 0]
             used == [c \in DOMAIN otps |-> IF c \in Pending(Now(w).user, Now(w).purpose)
                                            THEN [otps[c] EXCEPT !.used = TRUE] ELSE otps[c]]
  <2>1. /\ task[w] # Idle /\ Done(w) /\ UNCHANGED <<users, sessions, trusted, erasure>>
        /\ \/ Draw(0) /\ otps' = used
           \/ Now(w).do = "otp" /\ Draw(1) /\ otps' = With(otps, Token, row)
           \/ Now(w).do = "saveOtp" /\ Draw(0) /\ otps' = With(otps, Now(w).code, Now(w).row)
    BY <1>1 DEF StoreOtp, At
  <2>2. Now(w).do \in {"otp", "saveOtp"} => Now(w) \in AccountSteps(Known) BY <2>1, Statement DEF AccountKinds
  <2>3. Now(w).do = "otp" => row \in OtpRows
    BY <2>1, <2>2, KindsOfAccounts, AccountsAssumption DEF OtpRows
  <2>4. Now(w).do = "saveOtp" => Now(w).code \in Ids(Known) /\ Now(w).row \in OtpRows
    BY <2>1, <2>2, KindsOfAccounts
  <2>5. PICK n \in 0 .. 1 : Draw(n) BY <2>1
  <2>6. ASSUME Grew
        PROVE  /\ Table(sessions', Ids(Known'), SessionRows) /\ Table(otps', Ids(Known'), OtpRows)
               /\ trusted' \subseteq Users
    <3>1. Earlier BY <2>6, EarlierTables
    <3>2. Table(otps, Ids(Known'), OtpRows) BY <3>1 DEF Earlier
    <3>3. ASSUME otps' = used PROVE Table(otps', Ids(Known'), OtpRows) BY <3>2, <3>3 DEF Table, OtpRows
    <3>4. ASSUME Now(w).do = "otp", Draw(1), otps' = With(otps, Token, row)
          PROVE  Table(otps', Ids(Known'), OtpRows)
      <4>1. tokens'.next = tokens.next + 1 /\ tokens.next \in Nat \ {0}
        BY <3>4 DEF Draw, DeskInv, AccountTables
      <4>2. Token \in Ids(Known') BY <4>1 DEF Ids, Known, Token
      <4> QED BY <2>3, <3>2, <3>4, <4>2, TableRows
    <3>5. ASSUME Now(w).do = "saveOtp", otps' = With(otps, Now(w).code, Now(w).row)
          PROVE  Table(otps', Ids(Known'), OtpRows)
      <4>1. Now(w).code \in Ids(Known') BY <2>4, <2>6, <3>5, RowsGrow DEF Grew
      <4> QED BY <2>4, <3>2, <3>5, <4>1, TableRows
    <3> HIDE DEF used, row
    <3> QED BY <2>1, <3>1, <3>3, <3>4, <3>5 DEF Earlier, DeskInv, AccountTables
  <2> QED BY <2>1, <2>5, <2>6, StoreSecretKeeps
<1>2. CASE StoreTrust(w)
  <2>1. /\ task[w] # Idle /\ Done(w) /\ UNCHANGED <<users, sessions, otps, tokens, erasure>>
        /\ \/ Now(w).do = "trust" /\ trusted' = trusted \cup {Now(w).user}
           \/ Now(w).do = "untrust" /\ trusted' = trusted \ {Now(w).user}
    BY <1>2 DEF StoreTrust, At
  <2>2. Now(w).user \in Users BY <2>1, Statement, KindsOfAccounts DEF AccountKinds
  <2>3. trusted' \subseteq Users BY <2>1, <2>2 DEF DeskInv, AccountTables
  <2>4. Draw(0) BY <2>1, DrawNone
  <2>5. ASSUME Grew PROVE Table(sessions', Ids(Known'), SessionRows) /\ Table(otps', Ids(Known'), OtpRows)
    BY <2>1, <2>5, TablesStay DEF Table
  <2> QED BY <2>1, <2>3, <2>4, <2>5, StoreSecretKeeps
<1> QED BY <1>1, <1>2

Staffs == staffing \in [raced : SUBSET Orgs, demoted : SUBSET Orgs, accepted : Seq(Ids(Known))]

\* Organizations, members and invitations.
LEMMA StoreCompanyKeeps ==
  ASSUME DeskInv, NEW w \in Workers, task[w] # Idle, Done(w) \/ Fail(w),
         UNCHANGED <<sessions, otps, trusted, tokens, erasure, fleet>>, desk'.released = desk.released,
         DOMAIN users \subseteq DOMAIN users', DOMAIN organizations \subseteq DOMAIN organizations',
         Grew => /\ Table(users', Users, AccountRows(Known')) /\ Table(organizations', Orgs, OrgRows)
                 /\ Table(members', Ids(Known'), MemberRows(Known'))
                 /\ Table(invitations', Ids(Known'), InvitationRows(Known')) /\ Staffs'
  PROVE  Grew /\ Core'
<1>1. load' = load BY DEF Done, Fail
<1>2. Grew /\ TokensOK' BY <1>1, MoreIsKnown
<1>3. Running' BY <1>2, Proceeds
<1>4. trusted \subseteq Users /\ erasure \in [done : SUBSET DOMAIN users, raced : SUBSET Users]
  BY DEF DeskInv, AccountTables
<1>5. erasure' \in [done : SUBSET DOMAIN users', raced : SUBSET Users] BY <1>4
<1>6. AccountTables(Known)' BY <1>2, <1>4, <1>5, TablesStay DEF AccountTables, TokensOK, Table
<1>7. CompanyTables(Known)' BY <1>2 DEF CompanyTables, Staffs, Table
<1>8. FleetTables(Known)' BY <1>2, TablesStay
<1> QED BY <1>2, <1>3, <1>6, <1>7, <1>8 DEF Core

\* The tables a step of the organizations leaves alone.
LEMMA CompanyStays ==
  ASSUME DeskInv, Grew
  PROVE  /\ UNCHANGED users => Table(users', Users, AccountRows(Known'))
         /\ UNCHANGED organizations => Table(organizations', Orgs, OrgRows)
         /\ UNCHANGED members => Table(members', Ids(Known'), MemberRows(Known'))
         /\ UNCHANGED invitations => Table(invitations', Ids(Known'), InvitationRows(Known'))
         /\ UNCHANGED staffing => Staffs'
BY TablesStay DEF Table, Staffs

\* An organization is founded.
LEMMA FoundKeeps ==
  ASSUME DeskInv, NEW w \in Workers, FoundOrganization(w), UNCHANGED fleet, desk'.released = desk.released
  PROVE  Grew /\ Core'
<1> DEFINE o == Now(w).org
           u == Now(w).user
           id == Now(w).id
           row == Now(w).row
           org == [live |-> TRUE, credential |-> None]
           member == Member(u, o, TRUE, FALSE)
<1>1. /\ task[w] # Idle /\ Now(w).do = "found"
      /\ UNCHANGED <<sessions, otps, trusted, tokens, erasure, invitations, staffing>>
      /\ \/ Fail(w) /\ UNCHANGED <<users, organizations, members>>
         \/ /\ organizations' = With(organizations, o, org) /\ members' = With(members, id, member)
            /\ users' = IF u \notin DOMAIN users THEN With(users, u, row) ELSE users
            /\ Done(w)
  BY DEF FoundOrganization, At
<1>2. Now(w) \in Founds(Known)
  <2>1. Now(w) \in CompanySteps(Known) BY <1>1, Statement DEF CompanyKinds
  <2> QED BY <1>1, <2>1, KindsOfCompany
<1>3. o \in Orgs /\ u \in Users /\ id \in Ids(Known) /\ row \in AccountRows(Known) BY <1>2 DEF Founds
<1>4. org \in OrgRows BY DEF OrgRows
<1>5. member.user = u /\ member.org = o /\ member.admin = TRUE /\ member.permitted = FALSE /\ member.pin = None
      /\ member = [user |-> u, org |-> o, admin |-> TRUE, permitted |-> FALSE, pin |-> None]
  BY DEF Member
<1> HIDE DEF o, u, id, row, org, member
<1>6. CASE Fail(w) /\ UNCHANGED <<users, organizations, members>>
  <2>1. ASSUME Grew
        PROVE  /\ Table(users', Users, AccountRows(Known')) /\ Table(organizations', Orgs, OrgRows)
               /\ Table(members', Ids(Known'), MemberRows(Known'))
               /\ Table(invitations', Ids(Known'), InvitationRows(Known')) /\ Staffs'
    BY <1>1, <1>6, <2>1, CompanyStays
  <2> QED BY <1>1, <1>6, <2>1, StoreCompanyKeeps
<1>7. CASE /\ organizations' = With(organizations, o, org) /\ members' = With(members, id, member)
           /\ users' = IF u \notin DOMAIN users THEN With(users, u, row) ELSE users
           /\ Done(w)
  <2>1. DOMAIN organizations' = DOMAIN organizations \cup {o} /\ DOMAIN users' = DOMAIN users \cup {u}
    BY <1>7 DEF With
  <2>2. ASSUME Grew
        PROVE  /\ Table(users', Users, AccountRows(Known')) /\ Table(organizations', Orgs, OrgRows)
               /\ Table(members', Ids(Known'), MemberRows(Known'))
               /\ Table(invitations', Ids(Known'), InvitationRows(Known')) /\ Staffs'
    <3>1. Earlier BY <2>2, EarlierTables
    <3>2. id \in Ids(Known') /\ row \in AccountRows(Known') BY <1>3, <2>2, RowsGrow DEF Grew
    <3>3. u \in Known'.users /\ o \in Known'.orgs BY <2>1 DEF Known
    <3>4. member \in MemberRows(Known') BY <1>5, <3>3 DEF MemberRows, Opt
    <3>5. Table(organizations', Orgs, OrgRows) BY <1>3, <1>4, <1>7, <3>1, TableRows DEF Earlier
    <3>6. Table(members', Ids(Known'), MemberRows(Known')) BY <1>7, <3>1, <3>2, <3>4, TableRows DEF Earlier
    <3>7. Table(With(users, u, row), Users, AccountRows(Known')) BY <1>3, <3>1, <3>2, TableRows DEF Earlier
    <3>8. Table(users', Users, AccountRows(Known')) BY <1>7, <3>1, <3>7 DEF Earlier
    <3> QED BY <1>1, <2>2, <3>5, <3>6, <3>8, CompanyStays
  <2> QED BY <1>1, <1>7, <2>1, <2>2, StoreCompanyKeeps
<1> QED BY <1>1, <1>6, <1>7

\* An organization is saved or closed.
LEMMA StoreOrganizationKeeps ==
  ASSUME DeskInv, NEW w \in Workers, StoreOrganization(w), UNCHANGED fleet, desk'.released = desk.released
  PROVE  Grew /\ Core'
<1> DEFINE o == Now(w).org
<1>1. /\ task[w] # Idle /\ UNCHANGED <<accounts, members, invitations, staffing>> /\ (Done(w) \/ Fail(w))
      /\ \/ UNCHANGED organizations
         \/ Now(w).do = "organization" /\ organizations' = With(organizations, o, Now(w).row)
         \/ organizations' = [organizations EXCEPT ![o].live = FALSE]
  BY DEF StoreOrganization, At
<1>2. Now(w).do = "organization" => o \in Known.orgs /\ Now(w).row \in OrgRows
  <2>1. Now(w).do = "organization" => Now(w) \in OrgSaves(Known)
    BY <1>1, Statement, KindsOfCompany DEF CompanyKinds
  <2> QED BY <2>1 DEF OrgSaves
<1>3. Table(organizations, Orgs, OrgRows) /\ Known.orgs = DOMAIN organizations
  BY LaterFacts, DrawnIds DEF DeskInv, CompanyTables
<1>4. Table(organizations', Orgs, OrgRows) /\ DOMAIN organizations' = DOMAIN organizations
  <2>1. CASE UNCHANGED organizations BY <1>3, <2>1
  <2>2. CASE Now(w).do = "organization" /\ organizations' = With(organizations, o, Now(w).row)
    BY <1>2, <1>3, <2>2 DEF Table, With
  <2>3. CASE organizations' = [organizations EXCEPT ![o].live = FALSE]
    BY <1>3, <2>3 DEF Table, OrgRows
  <2> QED BY <1>1, <2>1, <2>2, <2>3
<1>5. UNCHANGED <<users, sessions, otps, trusted, tokens, erasure>> BY <1>1 DEF accounts
<1>6. ASSUME Grew
      PROVE  /\ Table(users', Users, AccountRows(Known')) /\ Table(organizations', Orgs, OrgRows)
             /\ Table(members', Ids(Known'), MemberRows(Known'))
             /\ Table(invitations', Ids(Known'), InvitationRows(Known')) /\ Staffs'
  BY <1>1, <1>4, <1>5, <1>6, CompanyStays
<1> QED BY <1>1, <1>4, <1>5, <1>6, StoreCompanyKeeps

\* What a change of the members leaves in the books.
LEMMA StaffedFacts ==
  ASSUME DeskInv, Grew, NEW w, NEW o \in Orgs, NEW demoted
  PROVE  /\ Staffed(w, o, demoted) \in [raced : SUBSET Orgs, demoted : SUBSET Orgs, accepted : Seq(Ids(Known'))]
         /\ \A i \in Ids(Known') :
              [Staffed(w, o, demoted) EXCEPT !.accepted = Append(@, i)]
                \in [raced : SUBSET Orgs, demoted : SUBSET Orgs, accepted : Seq(Ids(Known'))]
<1> DEFINE S == [raced : SUBSET Orgs, demoted : SUBSET Orgs, accepted : Seq(Ids(Known'))]
           one == IF \E v \in Busy \ {w} : Changes(v, o) THEN {o} ELSE {}
           two == IF demoted THEN {o} ELSE {}
<1>1. staffing \in S
  <2>1. Seq(Ids(Known)) \subseteq Seq(Ids(Known')) BY RowsGrow, SeqGrows DEF Grew
  <2> QED BY <2>1 DEF DeskInv, CompanyTables
<1>2. one \subseteq Orgs /\ two \subseteq Orgs OBVIOUS
<1>3. Staffed(w, o, demoted) = [staffing EXCEPT !.raced = @ \cup one, !.demoted = @ \cup two] BY DEF Staffed
<1> HIDE DEF one, two
<1>4. Staffed(w, o, demoted) \in S BY <1>1, <1>2, <1>3
<1>5. ASSUME NEW i \in Ids(Known') PROVE [Staffed(w, o, demoted) EXCEPT !.accepted = Append(@, i)] \in S
  <2> DEFINE s == Staffed(w, o, demoted)
  <2>1. s \in S BY <1>4
  <2> HIDE DEF s
  <2>2. Append(s.accepted, i) \in Seq(Ids(Known')) BY <2>1
  <2>3. [s EXCEPT !.accepted = Append(s.accepted, i)] \in S BY <2>1, <2>2
  <2> QED BY <2>3 DEF s
<1> QED BY <1>4, <1>5

\* A membership is saved or dropped.
LEMMA MembersKeep ==
  ASSUME DeskInv, NEW w \in Workers, StoreMember(w) \/ DropMember(w), UNCHANGED fleet, desk'.released = desk.released
  PROVE  Grew /\ Core'
<1>1. CASE StoreMember(w)
  <2> DEFINE id == Now(w).id
             row == Now(w).row
             i == Now(w).invitation
             as == Now(w).as
  <2>1. /\ task[w] # Idle /\ Now(w).do \in {"member", "accept"} /\ UNCHANGED <<accounts, organizations>>
        /\ \/ Fail(w) /\ UNCHANGED <<members, invitations, staffing>>
           \/ /\ Done(w) /\ members' = With(members, id, row)
              /\ \/ /\ Now(w).do = "accept" /\ invitations' = With(invitations, i, as)
                    /\ staffing' = [Staffed(w, row.org, FALSE) EXCEPT !.accepted = Append(@, i)]
                 \/ /\ UNCHANGED invitations
                    /\ \E b \in BOOLEAN : staffing' = Staffed(w, row.org, b)
    <3>1. (Now(w).change = "demote") \in BOOLEAN OBVIOUS
    <3> QED BY <1>1, <3>1 DEF StoreMember, At
  <2>2. Now(w) \in MemberSaves(Known) \cup Accepts(Known)
    BY <2>1, Statement, KindsOfCompany DEF CompanyKinds
  <2>3. id \in Ids(Known) /\ row \in MemberRows(Known) /\ row.org \in Known.orgs
    BY <2>2 DEF MemberSaves, Accepts, MemberRows
  <2>4. Now(w).do = "accept" => i \in Ids(Known) /\ as \in InvitationRows(Known)
    BY <2>2 DEF MemberSaves, Accepts
  <2> DEFINE o == row.org
  <2>5. o \in Orgs BY <2>3, LaterFacts, DrawnIds, CompanyRow
  <2>6. UNCHANGED <<users, sessions, otps, trusted, tokens, erasure>> BY <2>1 DEF accounts
  <2> HIDE DEF id, row, i, as, o
  <2>7. ASSUME Grew
        PROVE  /\ Table(users', Users, AccountRows(Known')) /\ Table(organizations', Orgs, OrgRows)
               /\ Table(members', Ids(Known'), MemberRows(Known'))
               /\ Table(invitations', Ids(Known'), InvitationRows(Known')) /\ Staffs'
    <3>1. /\ Table(members, Ids(Known'), MemberRows(Known'))
          /\ Table(invitations, Ids(Known'), InvitationRows(Known'))
      BY <2>7, EarlierTables DEF Earlier
    <3>2. id \in Ids(Known') /\ row \in MemberRows(Known') BY <2>3, <2>7, RowsGrow DEF Grew
    <3>3. Now(w).do = "accept" => i \in Ids(Known') /\ as \in InvitationRows(Known')
      BY <2>4, <2>7, RowsGrow DEF Grew
    <3>4. Table(members', Ids(Known'), MemberRows(Known'))
      <4>1. Table(With(members, id, row), Ids(Known'), MemberRows(Known')) BY <3>1, <3>2, TableRows
      <4>2. members' = members \/ members' = With(members, id, row) BY <2>1
      <4> QED BY <3>1, <4>1, <4>2
    <3>5. Table(invitations', Ids(Known'), InvitationRows(Known'))
      <4>1. Now(w).do = "accept" => Table(With(invitations, i, as), Ids(Known'), InvitationRows(Known'))
        BY <3>1, <3>3, TableRows
      <4>2. invitations' = invitations \/ (Now(w).do = "accept" /\ invitations' = With(invitations, i, as)) BY <2>1
      <4> QED BY <3>1, <4>1, <4>2
    <3>6. Staffs'
      <4>1. CASE UNCHANGED staffing BY <2>7, <4>1, CompanyStays
      <4>2. ASSUME NEW b \in BOOLEAN, staffing' = Staffed(w, row.org, b) PROVE Staffs'
        BY <2>5, <2>7, <4>2, StaffedFacts DEF Staffs, o
      <4>3. ASSUME Now(w).do = "accept", staffing' = [Staffed(w, row.org, FALSE) EXCEPT !.accepted = Append(@, i)]
            PROVE  Staffs'
        BY <2>5, <2>7, <3>3, <4>3, StaffedFacts DEF Staffs, o
      <4> QED BY <2>1, <4>1, <4>2, <4>3
    <3> QED BY <2>1, <2>6, <2>7, <3>4, <3>5, <3>6, CompanyStays
  <2> QED BY <2>1, <2>6, <2>7, StoreCompanyKeeps
<1>2. CASE DropMember(w)
  <2> DEFINE id == Now(w).id
             o == Now(w).org
  <2>1. /\ task[w] # Idle /\ Now(w).do = "dropMember" /\ Done(w) /\ UNCHANGED <<accounts, organizations, invitations>>
        /\ members' = Without(members, id) /\ staffing' = Staffed(w, o, FALSE)
    BY <1>2 DEF DropMember, At
  <2>2. Now(w) \in MemberDrops(Known) BY <2>1, Statement, KindsOfCompany DEF CompanyKinds
  <2>3. o \in Orgs BY <2>2, LaterFacts, DrawnIds, CompanyRow DEF MemberDrops
  <2>4. UNCHANGED <<users, sessions, otps, trusted, tokens, erasure>> BY <2>1 DEF accounts
  <2> HIDE DEF id, o
  <2>5. ASSUME Grew
        PROVE  /\ Table(users', Users, AccountRows(Known')) /\ Table(organizations', Orgs, OrgRows)
               /\ Table(members', Ids(Known'), MemberRows(Known'))
               /\ Table(invitations', Ids(Known'), InvitationRows(Known')) /\ Staffs'
    <3>1. Table(members, Ids(Known'), MemberRows(Known')) BY <2>5, EarlierTables DEF Earlier
    <3>2. Table(members', Ids(Known'), MemberRows(Known')) BY <2>1, <3>1, TableRows
    <3>3. Staffs' BY <2>1, <2>3, <2>5, StaffedFacts DEF Staffs
    <3> QED BY <2>1, <2>4, <2>5, <3>2, <3>3, CompanyStays
  <2> QED BY <2>1, <2>4, <2>5, StoreCompanyKeeps
<1> QED BY <1>1, <1>2

\* An invitation is saved or taken back.
LEMMA StoreInvitationKeeps ==
  ASSUME DeskInv, NEW w \in Workers, StoreInvitation(w), UNCHANGED fleet, desk'.released = desk.released
  PROVE  Grew /\ Core'
<1> DEFINE id == Now(w).id
           row == Now(w).row
<1>1. /\ task[w] # Idle /\ Done(w) /\ UNCHANGED <<accounts, organizations, members, staffing>>
      /\ \/ Now(w).do = "invite" /\ invitations' = With(invitations, id, row)
         \/ Now(w).do = "uninvite" /\ invitations' = Without(invitations, id)
  BY DEF StoreInvitation, At
<1>2. Now(w).do = "invite" => id \in Ids(Known) /\ row \in InvitationRows(Known)
  BY <1>1, Statement, KindsOfCompany DEF CompanyKinds
<1>3. UNCHANGED <<users, sessions, otps, trusted, tokens, erasure>> BY <1>1 DEF accounts
<1> HIDE DEF id, row
<1>4. ASSUME Grew
      PROVE  /\ Table(users', Users, AccountRows(Known')) /\ Table(organizations', Orgs, OrgRows)
             /\ Table(members', Ids(Known'), MemberRows(Known'))
             /\ Table(invitations', Ids(Known'), InvitationRows(Known')) /\ Staffs'
  <2>1. Table(invitations, Ids(Known'), InvitationRows(Known')) BY <1>4, EarlierTables DEF Earlier
  <2>2. Now(w).do = "invite" => id \in Ids(Known') /\ row \in InvitationRows(Known')
    BY <1>2, <1>4, RowsGrow DEF Grew
  <2>3. Now(w).do = "invite" => Table(With(invitations, id, row), Ids(Known'), InvitationRows(Known'))
    BY <2>1, <2>2, TableRows
  <2>4. Table(Without(invitations, id), Ids(Known'), InvitationRows(Known')) BY <2>1, TableRows
  <2>5. Table(invitations', Ids(Known'), InvitationRows(Known')) BY <1>1, <2>3, <2>4
  <2> QED BY <1>1, <1>3, <1>4, <2>5, CompanyStays
<1> QED BY <1>1, <1>3, <1>4, StoreCompanyKeeps

\* A step that touches the devices alone, or only what is still to be done.
LEMMA OthersKeep ==
  ASSUME DeskInv, Grew, UNCHANGED <<users, sessions, otps, trusted, erasure, company>>
  PROVE  (TokensOK' => AccountTables(Known)') /\ CompanyTables(Known)'
<1>1. UNCHANGED <<organizations, members, invitations, staffing>> BY DEF company
<1>2. trusted \subseteq Users /\ erasure \in [done : SUBSET DOMAIN users, raced : SUBSET Users]
  BY DEF DeskInv, AccountTables
<1>3. TokensOK' => AccountTables(Known)' BY <1>2, TablesStay DEF AccountTables, TokensOK, Table
<1> QED BY <1>1, <1>3, TablesStay DEF CompanyTables, Table

Devices(k) == Table(devices, Ids(k), DeviceRows(k)) /\ \A d \in DOMAIN devices : Belongs(d, devices[d], k)

\* Devices.
LEMMA StoreFleetKeeps ==
  ASSUME DeskInv, NEW w \in Workers, task[w] # Idle, Done(w), UNCHANGED <<accounts, company>>,
         desk.released \subseteq desk'.released,
         Grew => /\ Devices(Known)' /\ blocked' \in [now : SUBSET Ids(Known'), raced : SUBSET Ids(Known')]
  PROVE  Grew /\ Core'
<1>1. UNCHANGED <<users, sessions, otps, trusted, tokens, erasure, organizations>> BY DEF accounts, company
<1>2. load' = load BY DEF Done
<1>3. Grew /\ TokensOK' BY <1>1, <1>2, MoreIsKnown
<1>4. Running' BY <1>3, Proceeds
<1>5. AccountTables(Known)' /\ CompanyTables(Known)' BY <1>1, <1>3, OthersKeep
<1>6. FleetTables(Known)' BY <1>3 DEF FleetTables, Devices
<1> QED BY <1>3, <1>4, <1>5, <1>6 DEF Core

\* The books of the devices that are blocked.
LEMMA BlockedStays ==
  ASSUME DeskInv, Grew
  PROVE  /\ blocked \in [now : SUBSET Ids(Known'), raced : SUBSET Ids(Known')]
         /\ Ids(Known) \subseteq Ids(Known') /\ DeviceRows(Known) \subseteq DeviceRows(Known')
         /\ \A d, row : Belongs(d, row, Known) => Belongs(d, row, Known')
<1>1. Ids(Known) \subseteq Ids(Known') /\ DeviceRows(Known) \subseteq DeviceRows(Known') BY RowsGrow DEF Grew
<1>2. blocked \in [now : SUBSET Ids(Known), raced : SUBSET Ids(Known)] BY DEF DeskInv, FleetTables
<1>3. Known.orgs \subseteq Known'.orgs /\ Known.released \subseteq Known'.released BY DEF Grew, Grows
<1> QED BY <1>1, <1>2, <1>3 DEF Belongs

\* Devices are saved, changed in a column, or dropped.
LEMMA FleetKeeps ==
  ASSUME DeskInv, NEW w \in Workers, StoreDevice(w) \/ SetColumns(w) \/ DropDevice(w), desk'.released = desk.released
  PROVE  Grew /\ Core'
<1>1. CASE StoreDevice(w)
  <2> DEFINE d == Now(w).id
             row == Now(w).row
             raced == IF \E v \in Busy \ {w} : Saves(v, d) THEN {d} ELSE {}
             now == CASE Now(w).as = "block" -> blocked.now \cup {d}
                      [] Now(w).as = "admit" -> blocked.now \ {d}
                      [] OTHER -> blocked.now
  <2>1. /\ task[w] # Idle /\ Now(w).do = "device" /\ Done(w) /\ UNCHANGED <<accounts, company>>
        /\ devices' = With(devices, d, row) /\ blocked' = [now |-> now, raced |-> blocked.raced \cup raced]
    BY <1>1 DEF StoreDevice, At
  <2>2. Now(w) \in DeviceSaves(Known) BY <2>1, Statement, KindsOfFleet DEF FleetKinds
  <2>3. d \in Ids(Known) /\ row \in DeviceRows(Known) /\ Belongs(d, row, Known) BY <2>2 DEF DeviceSaves
  <2>4. now \subseteq blocked.now \cup {d} /\ raced \subseteq {d} OBVIOUS
  <2> HIDE DEF d, row, raced, now
  <2>5. ASSUME Grew
        PROVE  Devices(Known)' /\ blocked' \in [now : SUBSET Ids(Known'), raced : SUBSET Ids(Known')]
    <3>1. /\ blocked \in [now : SUBSET Ids(Known'), raced : SUBSET Ids(Known')]
          /\ d \in Ids(Known') /\ row \in DeviceRows(Known') /\ Belongs(d, row, Known')
      BY <2>3, <2>5, BlockedStays
    <3>2. /\ Table(devices, Ids(Known'), DeviceRows(Known'))
          /\ \A e \in DOMAIN devices : Belongs(e, devices[e], Known')
      BY <2>5, EarlierTables DEF Earlier
    <3>3. Table(With(devices, d, row), Ids(Known'), DeviceRows(Known')) BY <3>1, <3>2, TableRows
    <3>4. \A e \in DOMAIN devices' : Belongs(e, devices'[e], Known') BY <2>1, <3>1, <3>2 DEF With
    <3>5. blocked' \in [now : SUBSET Ids(Known'), raced : SUBSET Ids(Known')] BY <2>1, <2>4, <3>1
    <3> QED BY <2>1, <3>3, <3>4, <3>5 DEF Devices
  <2> QED BY <2>1, <2>5, StoreFleetKeeps
<1>2. CASE SetColumns(w)
  <2> DEFINE d == Now(w).id
  <2>1. /\ task[w] # Idle /\ Done(w) /\ UNCHANGED <<accounts, company, blocked>>
        /\ \/ devices' = devices
           \/ /\ Now(w).do = "couple" /\ d \in DOMAIN devices
              /\ devices' = With(devices, d, [devices[d] EXCEPT !.server = Now(w).server])
           \/ /\ Now(w).do = "client" /\ d \in DOMAIN devices
              /\ devices' = With(devices, d, [devices[d] EXCEPT !.client = d])
    BY <1>2 DEF SetColumns, At
  <2>2. Now(w).do = "couple" => Now(w).server \in Opt(Users) BY <2>1, Statement, KindsOfFleet DEF FleetKinds
  <2>3. ASSUME Grew
        PROVE  Devices(Known)' /\ blocked' \in [now : SUBSET Ids(Known'), raced : SUBSET Ids(Known')]
    <3>1. blocked \in [now : SUBSET Ids(Known'), raced : SUBSET Ids(Known')] BY <2>3, BlockedStays
    <3>2. /\ Table(devices, Ids(Known'), DeviceRows(Known'))
          /\ \A e \in DOMAIN devices : Belongs(e, devices[e], Known')
      BY <2>3, EarlierTables DEF Earlier
    <3>3. ASSUME NEW e \in DOMAIN devices, NEW row \in DeviceRows(Known'), Belongs(e, row, Known'),
                 devices' = With(devices, e, row)
          PROVE  Devices(Known)'
      <4>1. e \in Ids(Known') BY <3>2 DEF Table
      <4>2. Table(With(devices, e, row), Ids(Known'), DeviceRows(Known')) BY <3>2, <4>1, TableRows
      <4>3. \A f \in DOMAIN devices' : Belongs(f, devices'[f], Known') BY <3>2, <3>3 DEF With
      <4> QED BY <3>3, <4>2, <4>3 DEF Devices
    <3>4. CASE devices' = devices BY <2>1, <3>1, <3>2, <3>4 DEF Devices
    <3>5. CASE /\ Now(w).do = "couple" /\ d \in DOMAIN devices
               /\ devices' = With(devices, d, [devices[d] EXCEPT !.server = Now(w).server])
      <4> DEFINE row == [devices[d] EXCEPT !.server = Now(w).server]
      <4>1. devices[d] \in DeviceRows(Known') /\ Belongs(d, devices[d], Known') BY <3>2, <3>5 DEF Table
      <4>2. row \in DeviceRows(Known') /\ Belongs(d, row, Known') BY <2>2, <3>5, <4>1 DEF DeviceRows, Belongs
      <4>3. devices' = With(devices, d, row) BY <3>5
      <4> HIDE DEF row, d
      <4> QED BY <2>1, <3>1, <3>3, <3>5, <4>2, <4>3
    <3>6. CASE Now(w).do = "client" /\ d \in DOMAIN devices /\ devices' = With(devices, d, [devices[d] EXCEPT !.client = d])
      <4> DEFINE row == [devices[d] EXCEPT !.client = d]
      <4>1. devices[d] \in DeviceRows(Known') /\ Belongs(d, devices[d], Known') /\ d \in Ids(Known')
        BY <3>2, <3>6 DEF Table
      <4>2. row \in DeviceRows(Known') /\ Belongs(d, row, Known') BY <4>1 DEF DeviceRows, Belongs, Opt
      <4>3. devices' = With(devices, d, row) BY <3>6
      <4> HIDE DEF row, d
      <4> QED BY <2>1, <3>1, <3>3, <3>6, <4>2, <4>3
    <3> QED BY <2>1, <3>4, <3>5, <3>6
  <2> QED BY <2>1, <2>3, StoreFleetKeeps
<1>3. CASE DropDevice(w)
  <2> DEFINE d == Now(w).id
  <2>1. /\ task[w] # Idle /\ Done(w) /\ UNCHANGED <<accounts, company>>
        /\ devices' = Without(devices, d) /\ blocked' = [blocked EXCEPT !.now = @ \ {d}]
    BY <1>3 DEF DropDevice, At
  <2> HIDE DEF d
  <2>2. ASSUME Grew
        PROVE  Devices(Known)' /\ blocked' \in [now : SUBSET Ids(Known'), raced : SUBSET Ids(Known')]
    <3>1. blocked \in [now : SUBSET Ids(Known'), raced : SUBSET Ids(Known')] BY <2>2, BlockedStays
    <3>2. /\ Table(devices, Ids(Known'), DeviceRows(Known'))
          /\ \A e \in DOMAIN devices : Belongs(e, devices[e], Known')
      BY <2>2, EarlierTables DEF Earlier
    <3>3. Table(devices', Ids(Known'), DeviceRows(Known')) BY <2>1, <3>2, TableRows
    <3>4. \A e \in DOMAIN devices' : Belongs(e, devices'[e], Known') BY <2>1, <3>2 DEF Without
    <3>5. blocked' \in [now : SUBSET Ids(Known'), raced : SUBSET Ids(Known')] BY <2>1, <3>1
    <3> QED BY <3>3, <3>4, <3>5 DEF Devices
  <2> QED BY <2>1, <2>2, StoreFleetKeeps
<1> QED BY <1>1, <1>2, <1>3

\* The time of a token is over; the process stops.
LEMMA ExpireAndStopKeep ==
  ASSUME DeskInv, (\E t \in 1 .. MaxTokens : Expire(t)) \/ Stop, UNCHANGED <<company, fleet>>,
         desk'.released = desk.released
  PROVE  Grew /\ Core'
<1>0. /\ KnownType(Known) /\ Known.next = tokens.next /\ Known.requests = load.requests
      /\ Known.users = DOMAIN users /\ Known.orgs = DOMAIN organizations /\ Known.released = desk.released
  BY LaterFacts, DrawnIds DEF Token
<1>1. /\ Known'.next = tokens'.next /\ Known'.requests = load'.requests /\ Known'.users = DOMAIN users'
      /\ Known'.orgs = DOMAIN organizations' /\ Known'.released = desk'.released
  BY DEF Known
<1>2. UNCHANGED <<organizations, members, invitations, staffing>> BY DEF company
<1>3. UNCHANGED <<users, sessions, otps, trusted>> /\ load'.requests = load.requests
  <2>1. load \in [requests : 0..MaxRequests, crashes : 0..MaxCrashes] BY DEF DeskInv, RequestsOK
  <2> QED BY <2>1 DEF Expire, Stop, Crash, requests
<1>4. TokensOK BY DEF DeskInv, AccountTables, TokensOK
<1>5. tokens'.next = tokens.next /\ TokensOK'
  <2>1. CASE Stop BY <2>1, <1>4 DEF Stop, TokensOK
  <2>2. ASSUME NEW t \in 1 .. MaxTokens, Expire(t) PROVE tokens'.next = tokens.next /\ TokensOK'
    BY <2>2, <1>4 DEF Expire, TokensOK
  <2> QED BY <2>1, <2>2
<1>6. Grew BY <1>0, <1>1, <1>2, <1>3, <1>5 DEF Grew, KnownType, Grows
<1>7. Running'
  <2>1. CASE Stop
    <3>1. /\ load' = [load EXCEPT !.crashes = @ + 1] /\ task' = [w \in Workers |-> Idle] /\ load.crashes < MaxCrashes
      BY <2>1 DEF Stop, Crash
    <3>2. load \in [requests : 0..MaxRequests, crashes : 0..MaxCrashes] BY DEF DeskInv, RequestsOK
    <3>3. RequestsOK' BY <3>1, <3>2, RequestsAssumption DEF RequestsOK
    <3>4. task' \in [Workers -> Plans(Known')] BY <1>6, <3>1, PlansStay
    <3> QED BY <3>3, <3>4 DEF Running
  <2>2. CASE UNCHANGED requests
    <3>1. load' = load /\ task' = task BY <2>2 DEF requests
    <3>2. RequestsOK /\ task \in [Workers -> Plans(Known)] BY DEF DeskInv
    <3>3. task' \in [Workers -> Plans(Known')] BY <1>6, <3>1, <3>2, PlansStay
    <3> QED BY <3>1, <3>2, <3>3 DEF Running, RequestsOK
  <2> QED BY <2>1, <2>2 DEF Expire
<1>8. erasure \in [done : SUBSET DOMAIN users, raced : SUBSET Users] BY DEF DeskInv, AccountTables
<1>9. erasure' \in [done : SUBSET DOMAIN users', raced : SUBSET Users]
  <2>1. CASE Stop
    <3> DEFINE S == {u \in erasure.done : \E w \in Busy : Holds(w, u, {"revokeAll"})}
    <3>1. erasure' = [erasure EXCEPT !.raced = @ \cup S] BY <2>1 DEF Stop
    <3>2. DOMAIN users \subseteq Users BY DEF DeskInv, AccountTables, Table
    <3>3. S \subseteq Users BY <1>8, <3>2
    <3> HIDE DEF S
    <3> QED BY <1>3, <1>8, <3>1, <3>3
  <2>2. CASE UNCHANGED erasure BY <1>3, <1>8, <2>2
  <2> QED BY <2>1, <2>2 DEF Expire
<1>10. AccountTables(Known)'
  <2>1. trusted \subseteq Users BY DEF DeskInv, AccountTables
  <2> QED BY <1>3, <1>5, <1>6, <1>9, <2>1, TablesStay DEF AccountTables, TokensOK, Table
<1>11. CompanyTables(Known)' BY <1>2, <1>6, TablesStay DEF CompanyTables, Table
<1>12. FleetTables(Known)' BY <1>6, TablesStay
<1> QED BY <1>6, <1>7, <1>10, <1>11, <1>12 DEF Core

\* Every request leaves a plan: those of the accounts,
LEMMA AccountRequests ==
  ASSUME DeskInv, NEW w \in Workers,
         \/ \E u \in Users : AccountRequest(w, u) \/ FactorRequest(w, u)
         \/ \E s \in DOMAIN sessions : RefreshTokens(w, s) \/ RefreshExpired(w, s)
  PROVE  \E n \in 0 .. 2 : \E todo : AccountPlan(w, n, todo)
<1>1. ASSUME NEW u \in Users, AccountRequest(w, u) PROVE \E n \in 0 .. 2 : \E todo : AccountPlan(w, n, todo)
  <2>1. CASE \E email \in Emails : Register(w, u, email) \/ RequestEmailChange(w, u, email)
    <3>1. PICK email \in Emails : Register(w, u, email) \/ RequestEmailChange(w, u, email) BY <2>1
    <3>2. email \in Opt(Emails) BY DEF Opt
    <3> QED BY <3>1, <3>2, AddressRequests
  <2>2. CASE \/ VerifyEmail(w, u) \/ ResendVerificationEmail(w, u) \/ VerifyEmailChange(w, u)
             \/ UpdateProfile(w, u) \/ UnlockUser(w, u) \/ ForgotPassword(w, u) \/ ChangePassword(w, u)
    <3>1. None \in Opt(Emails) BY DEF Opt
    <3> QED BY <2>2, <3>1, AddressRequests
  <2>3. CASE \/ Login(w, u) \/ HandleFailedLogin(w, u) \/ LogoutAll(w, u) \/ ResetPassword(w, u)
             \/ \E email \in Emails, confirmed \in BOOLEAN : LoginWithSsoProfile(w, u, email, confirmed)
             \/ \E s \in DOMAIN sessions : Logout(w, u, s) \/ RevokeAllOtherSessions(w, u, s)
    BY <2>3, SignInRequests
  <2> QED BY <1>1, <2>1, <2>2, <2>3 DEF AccountRequest
<1> QED BY <1>1, FactorRequests, RefreshRequests

\* of the organizations,
LEMMA CompanyRequests ==
  ASSUME DeskInv, NEW w \in Workers, NEW a \in Users, CompanyRequest(w, a)
  PROVE  \/ \E n \in 0 .. 2 : \E s : CompanyPlan(w, n, s)
         \/ \E u \in DOMAIN users : /\ AnonymizeUser(u) \in Seq(AccountSteps(Later(0))) /\ Draw(0)
                                    /\ Ask(w, AnonymizeUser(u))
<1>1. CASE \E o \in Orgs : CreateOrganization(w, a, o) BY <1>1, OrganizationRequests
<1>2. CASE \E o \in Orgs, email \in Emails : RegisterWithOrganization(w, a, email, o)
  BY <1>2, OrganizationRequests
<1>3. CASE \E o \in DOMAIN organizations :
             \/ \E sent \in {"none", "mask", "new"} : UpdateOrganization(w, a, o, sent)
             \/ RemoveOrganization(w, a, o) \/ EditTerms(w, o)
  <2>1. DOMAIN organizations \subseteq Orgs BY DrawnIds, CompanyRow
  <2> QED BY <1>3, <2>1, OrganizationRequests
<1>4. CASE DeleteAccount(w, a) \/ \E o \in DOMAIN organizations, u \in DOMAIN users : AnonymizeMember(w, a, o, u)
  BY <1>4, ErasureRequests
<1>5. CASE \/ \E o \in DOMAIN organizations, u \in DOMAIN users, admin, permitted \in BOOLEAN :
                AddMember(w, a, o, u, admin, permitted)
           \/ \E m \in DOMAIN members :
                \/ \E admin, permitted \in BOOLEAN : UpdateMember(w, a, m, admin, permitted)
                \/ RemoveMember(w, a, m)
  BY <1>5, MemberRequests
<1>6. CASE \/ \E o \in DOMAIN organizations, email \in Emails, admin \in BOOLEAN :
                CreateInvitation(w, a, o, email, admin)
           \/ \E i \in DOMAIN invitations :
                CancelInvitation(w, a, i) \/ AcceptInvitation(w, a, i) \/ DeclineInvitation(w, a, i)
  BY <1>6, InvitationRequests
<1> QED BY <1>1, <1>2, <1>3, <1>4, <1>5, <1>6 DEF CompanyRequest

\* and of the devices.
LEMMA FleetRequests ==
  ASSUME DeskInv, NEW w \in Workers, FleetRequest(w)
  PROVE  \/ \E n \in 0 .. 2 : \E s : FleetPlan(w, n, s)
         \/ (\E n \in 0 .. 2 : \E s : CompanyPlan(w, n, s) /\ s.do = "member") /\ UNCHANGED fleet
<1>1. ASSUME NEW name \in Names,
             \/ InitDevice(w, name)
             \/ \E o \in DOMAIN organizations : RegisterDevice(w, o, name)
             \/ \E a \in Users, o \in DOMAIN organizations : CreateDevice(w, a, o, name)
      PROVE  \E n \in 0 .. 2 : \E s : FleetPlan(w, n, s)
  BY <1>1, NewDeviceRequests
<1>2. ASSUME NEW a \in Users, NEW m \in DOMAIN members,
             RemoveMemberPin(w, a, m) \/ \E pin \in Pins : SetMemberPin(w, a, m, pin)
      PROVE  (\E n \in 0 .. 2 : \E s : CompanyPlan(w, n, s) /\ s.do = "member") /\ UNCHANGED fleet
  <2>1. PICK n \in 0 .. 2 : \E s : CompanyPlan(w, n, s) BY <1>2, MemberRequests
  <2>2. PICK s : CompanyPlan(w, n, s) BY <2>1
  <2>3. UNCHANGED fleet BY <1>2 DEF RemoveMemberPin, SetMemberPin, Call
  <2>4. \E pin : Ask(w, <<SaveMember(m, [members[m] EXCEPT !.pin = pin], "update")>>)
    BY <1>2 DEF RemoveMemberPin, SetMemberPin, Call
  <2>5. PICK pin : Ask(w, <<SaveMember(m, [members[m] EXCEPT !.pin = pin], "update")>>) BY <2>4
  <2>6. w \in DOMAIN task BY DEF DeskInv, RequestsOK
  <2>7. <<s>> = <<SaveMember(m, [members[m] EXCEPT !.pin = pin], "update")>>
    BY <2>2, <2>5, <2>6 DEF CompanyPlan, Ask, Reply, Start
  <2>8. s.do = "member" BY <2>7 DEF SaveMember
  <2> QED BY <2>2, <2>3, <2>8
<1> QED BY <1>1, <1>2, DeviceRequests DEF FleetRequest

\* Requests of the accounts, organizations and devices.
LEMMA RequestsKeep ==
  ASSUME DeskInv, NEW w \in Workers, desk'.released = desk.released,
         \/ (\E n \in 0 .. 2 : \E todo : AccountPlan(w, n, todo)) /\ UNCHANGED <<company, fleet>>
         \/ (\E n \in 0 .. 2 : \E s : CompanyPlan(w, n, s)) /\ UNCHANGED fleet
         \/ \E u \in DOMAIN users : /\ AnonymizeUser(u) \in Seq(AccountSteps(Later(0))) /\ Draw(0)
                                    /\ Ask(w, AnonymizeUser(u)) /\ UNCHANGED fleet
         \/ \E n \in 0 .. 2 : \E s : FleetPlan(w, n, s)
  PROVE  Grew /\ Core'
<1>1. ASSUME NEW n \in 0 .. 2, NEW todo, AccountPlan(w, n, todo), UNCHANGED <<company, fleet>> PROVE Grew /\ Core'
  <2>1. todo \in Plans(Later(n)) BY <1>1 DEF AccountPlan, Plans
  <2> QED BY <1>1, <2>1, RequestKeeps DEF AccountPlan, Ask
<1>2. ASSUME NEW n \in 0 .. 2, NEW s \in CompanySteps(Later(n)) \cup FleetSteps(Later(n)) PROVE <<s>> \in Plans(Later(n))
  <2> DEFINE S == CompanySteps(Later(n)) \cup FleetSteps(Later(n))
  <2>1. s \in S OBVIOUS
  <2> HIDE DEF S
  <2>2. <<s>> \in Seq(S) /\ Len(<<s>>) <= 1 BY <2>1
  <2> QED BY <2>2 DEF Plans, S
<1>3. ASSUME NEW n \in 0 .. 2, NEW s, CompanyPlan(w, n, s), UNCHANGED fleet PROVE Grew /\ Core'
  BY <1>2, <1>3, RequestKeeps DEF CompanyPlan
<1>4. ASSUME NEW u \in DOMAIN users, AnonymizeUser(u) \in Seq(AccountSteps(Later(0))), Draw(0),
             Ask(w, AnonymizeUser(u)), UNCHANGED fleet
      PROVE  Grew /\ Core'
  <2>1. AnonymizeUser(u) \in Plans(Later(0)) BY <1>4 DEF Plans
  <2> QED BY <1>4, <2>1, DrawnIds, RequestKeeps
<1>5. ASSUME NEW n \in 0 .. 2, NEW s, FleetPlan(w, n, s) PROVE Grew /\ Core'
  BY <1>2, <1>5, RequestKeeps DEF FleetPlan, Call
<1> QED BY <1>1, <1>3, <1>4, <1>5

\* Everything but the desk, one step.
LEMMA FleetNextKeeps ==
  ASSUME DeskInv, FleetNext, desk'.released = desk.released
  PROVE  Grew /\ Core'
<1>1. CASE AccountsNext /\ UNCHANGED company /\ UNCHANGED fleet
  <2>1. UNCHANGED <<company, fleet>> BY <1>1
  <2>2. ASSUME NEW w \in Workers,
               \/ \E u \in Users : AccountRequest(w, u) \/ FactorRequest(w, u)
               \/ \E s \in DOMAIN sessions : RefreshTokens(w, s) \/ RefreshExpired(w, s)
        PROVE  Grew /\ Core'
    BY <2>1, <2>2, AccountRequests, RequestsKeep
  <2>3. ASSUME NEW w \in Workers, AccountStep(w) PROVE Grew /\ Core'
    BY <2>1, <2>3, StoreUserKeeps, SessionsKeep, CodesKeep DEF AccountStep
  <2>4. (\E t \in 1 .. MaxTokens : Expire(t)) \/ Stop => Grew /\ Core' BY <2>1, ExpireAndStopKeep
  <2> QED BY <1>1, <2>2, <2>3, <2>4 DEF AccountsNext
<1>2. ASSUME NEW w \in Workers, NEW a \in Users, CompanyRequest(w, a), UNCHANGED fleet PROVE Grew /\ Core'
  BY <1>2, CompanyRequests, RequestsKeep
<1>3. ASSUME NEW w \in Workers, CompanyStep(w), UNCHANGED fleet PROVE Grew /\ Core'
  BY <1>3, FoundKeeps, StoreOrganizationKeeps, MembersKeep, StoreInvitationKeeps DEF CompanyStep
<1>4. ASSUME NEW w \in Workers, FleetRequest(w) PROVE Grew /\ Core'
  BY <1>4, FleetRequests, RequestsKeep
<1>5. ASSUME NEW w \in Workers, StoreDevice(w) \/ SetColumns(w) \/ DropDevice(w) PROVE Grew /\ Core'
  BY <1>5, FleetKeeps
<1> QED BY <1>1, <1>2, <1>3, <1>4, <1>5 DEF FleetNext, MembershipsNext

\* A step outside the desk: a device that is gone is no longer named.
LEMMA ElsewhereKeeps == ASSUME DeskInv, Elsewhere PROVE DeskInv'
<1> DEFINE S == UNION {AboutOf(v) : v \in Busy}
           DeskRec(k) == [loose : SUBSET Ids(k), released : SUBSET Ids(k)]
<1>1. /\ FleetNext /\ hardware' = Unlink(hardware) /\ printers' = Unlink(printers) /\ UNCHANGED rentals
      /\ desk' = desk \/ desk' = [desk EXCEPT !.loose = @ \cup S]
  BY DEF Elsewhere
<1>2. DeskTables(Known) BY DEF DeskInv
<1>3. S \subseteq Ids(Known) BY AboutDrawn DEF Busy
<1>4. desk \in DeskRec(Known) BY <1>2 DEF DeskTables
<1> HIDE DEF S
<1>5. desk' \in DeskRec(Known) /\ desk'.released = desk.released BY <1>1, <1>3, <1>4
<1>6. Grew /\ Core' BY <1>1, <1>5, FleetNextKeeps
<1>7. Earlier BY <1>6, EarlierTables
<1>8. desk' \in DeskRec(Known')
  <2>1. Ids(Known) \subseteq Ids(Known') BY <1>6, RowsGrow DEF Grew
  <2> QED BY <1>5, <2>1
<1>9. /\ Table(hardware', Ids(Known'), HardwareRows(Known')) /\ DOMAIN hardware' = DOMAIN hardware
      /\ \A h \in DOMAIN hardware' : hardware'[h].device \in DOMAIN devices' \cup {None}
  <2>1. Table(hardware, Ids(Known'), HardwareRows(Known')) BY <1>7 DEF Earlier
  <2>2. DOMAIN hardware' = DOMAIN hardware BY <1>1 DEF Unlink
  <2>3. ASSUME NEW h \in DOMAIN hardware
        PROVE  hardware'[h] \in HardwareRows(Known') /\ hardware'[h].device \in DOMAIN devices' \cup {None}
    <3>1. hardware[h] \in HardwareRows(Known') BY <2>1 DEF Table
    <3>2. hardware'[h] = IF hardware[h].device \in DOMAIN devices' THEN hardware[h]
                         ELSE [hardware[h] EXCEPT !.device = None]
      BY <1>1 DEF Unlink
    <3>3. CASE hardware[h].device \in DOMAIN devices' BY <3>1, <3>2, <3>3
    <3>4. CASE hardware[h].device \notin DOMAIN devices' BY <3>1, <3>2, <3>4 DEF HardwareRows, Opt
    <3> QED BY <3>3, <3>4
  <2>4. hardware' = [h \in DOMAIN hardware |-> hardware'[h]] BY <1>1 DEF Unlink
  <2> QED BY <2>1, <2>2, <2>3, <2>4 DEF Table
<1>10. /\ Table(printers', Ids(Known'), PrinterRows(Known'))
       /\ \A p \in DOMAIN printers' : printers'[p].device \in DOMAIN devices' \cup {None}
  <2>1. Table(printers, Ids(Known'), PrinterRows(Known')) BY <1>7 DEF Earlier
  <2>2. DOMAIN printers' = DOMAIN printers BY <1>1 DEF Unlink
  <2>3. ASSUME NEW p \in DOMAIN printers
        PROVE  printers'[p] \in PrinterRows(Known') /\ printers'[p].device \in DOMAIN devices' \cup {None}
    <3>1. printers[p] \in PrinterRows(Known') BY <2>1 DEF Table
    <3>2. printers'[p] = IF printers[p].device \in DOMAIN devices' THEN printers[p]
                         ELSE [printers[p] EXCEPT !.device = None]
      BY <1>1 DEF Unlink
    <3>3. CASE printers[p].device \in DOMAIN devices' BY <3>1, <3>2, <3>3
    <3>4. CASE printers[p].device \notin DOMAIN devices' BY <3>1, <3>2, <3>4 DEF PrinterRows, Opt
    <3> QED BY <3>3, <3>4
  <2>4. printers' = [p \in DOMAIN printers |-> printers'[p]] BY <1>1 DEF Unlink
  <2> QED BY <2>1, <2>2, <2>3, <2>4 DEF Table
<1>11. /\ Table(rentals', Ids(Known'), RentalRows(Known'))
       /\ \A r \in DOMAIN rentals' : rentals'[r].hardware \in DOMAIN hardware'
  BY <1>1, <1>2, <1>7, <1>9 DEF Earlier, DeskTables
<1>12. DeskTables(Known)' BY <1>8, <1>9, <1>10, <1>11 DEF DeskTables, Table
<1> QED BY <1>6, <1>12 DEF DeskInv, Core, Running

\* What a step of the desk notes.
LEMMA NotedFacts ==
  ASSUME DeskInv, NEW w \in Workers, task[w] # Idle, Now(w).do \in DeskKinds,
         NEW byHand \in SUBSET Ids(Known), NEW released \in SUBSET Ids(Known)
  PROVE  /\ Noted(w, byHand, released) \in [loose : SUBSET Ids(Known), released : SUBSET Ids(Known)]
         /\ desk.released \subseteq Noted(w, byHand, released).released
         /\ [desk EXCEPT !.loose = @ \cup AboutOf(w)] \in [loose : SUBSET Ids(Known), released : SUBSET Ids(Known)]
         /\ [desk EXCEPT !.loose = @ \cup AboutOf(w)].released = desk.released
<1>1. Now(w).about \subseteq Ids(Known) BY Statement, KindsOfDesk
<1>2. desk \in [loose : SUBSET Ids(Known), released : SUBSET Ids(Known)] BY DEF DeskInv, DeskTables
<1>3. AboutOf(w) \subseteq Ids(Known) BY AboutDrawn
<1> QED BY <1>1, <1>2, <1>3 DEF Noted

\* A step of the desk that leaves everything else alone.
LEMMA DeskStepKeeps ==
  ASSUME DeskInv, NEW w \in Workers, task[w] # Idle, Done(w) \/ Fail(w), UNCHANGED <<accounts, company, fleet>>,
         desk' \in [loose : SUBSET Ids(Known), released : SUBSET Ids(Known)], desk.released \subseteq desk'.released,
         Grew => /\ Table(hardware', Ids(Known'), HardwareRows(Known')) /\ Table(rentals', Ids(Known'), RentalRows(Known'))
                 /\ Table(printers', Ids(Known'), PrinterRows(Known')),
         \A h \in DOMAIN hardware' : hardware'[h].device \in DOMAIN devices \cup {None},
         \A r \in DOMAIN rentals' : rentals'[r].hardware \in DOMAIN hardware',
         \A p \in DOMAIN printers' : printers'[p].device \in DOMAIN devices \cup {None}
  PROVE  DeskInv'
<1>1. UNCHANGED <<users, sessions, otps, trusted, tokens, erasure, organizations, devices>>
  BY DEF accounts, company, fleet
<1>2. load' = load BY DEF Done, Fail
<1>3. Grew /\ TokensOK' BY <1>1, <1>2, MoreIsKnown
<1>4. Running' BY <1>3, Proceeds
<1>5. AccountTables(Known)' /\ CompanyTables(Known)' BY <1>1, <1>3, OthersKeep
<1>6. FleetTables(Known)' BY <1>3, TablesStay
<1>7. Ids(Known) \subseteq Ids(Known') BY <1>3, RowsGrow DEF Grew
<1>8. desk' \in [loose : SUBSET Ids(Known'), released : SUBSET Ids(Known')] BY <1>7
<1>9. DeskTables(Known)' BY <1>1, <1>3, <1>8 DEF DeskTables, Table
<1> QED BY <1>4, <1>5, <1>6, <1>9 DEF DeskInv, Running

\* Every row of the desk names what there is.
LEMMA DeskLinks ==
  ASSUME DeskInv
  PROVE  /\ \A h \in DOMAIN hardware : hardware[h].device \in DOMAIN devices \cup {None}
         /\ \A r \in DOMAIN rentals : rentals[r].hardware \in DOMAIN hardware
         /\ \A p \in DOMAIN printers : printers[p].device \in DOMAIN devices \cup {None}
         /\ desk \in [loose : SUBSET Ids(Known), released : SUBSET Ids(Known)]
BY DEF DeskInv, DeskTables

\* Hardware is saved, set free or dropped.
LEMMA HardwareKeeps == ASSUME DeskInv, NEW w \in Workers, StoreHardware(w) PROVE DeskInv'
<1> DEFINE h == Now(w).id
           byHand == IF At(w, "dropHardware") \/ ~Now(w).byHand THEN {} ELSE {h}
           lost == {r \in DOMAIN rentals : rentals[r].hardware = h}
           noted == Noted(w, {}, {})
           DeskRec == [loose : SUBSET Ids(Known), released : SUBSET Ids(Known)]
<1>1. task[w] # Idle /\ Now(w).do \in {"hardware", "free", "dropHardware"} BY DEF StoreHardware, At
<1>2. Now(w) \in HardwareSaves(Known) \cup Frees(Known) \cup HardwareDrops(Known)
  BY <1>1, Statement, KindsOfDesk DEF DeskKinds
<1>3. h \in Ids(Known) BY <1>2 DEF HardwareSaves, Frees, HardwareDrops
<1>4. Now(w).do = "hardware" => Now(w).row \in HardwareRows(Known)
  BY <1>1, Statement, KindsOfDesk DEF DeskKinds, HardwareSaves
<1>5. UNCHANGED <<accounts, company, fleet, printers>> BY DEF StoreHardware
<1>6. byHand \in SUBSET Ids(Known) /\ {} \in SUBSET Ids(Known) BY <1>3
<1>7. Now(w).do \in DeskKinds BY <1>1 DEF DeskKinds
<1>8. /\ Noted(w, byHand, {}) \in DeskRec /\ desk.released \subseteq Noted(w, byHand, {}).released
      /\ noted \in DeskRec /\ desk.released \subseteq noted.released
      /\ [desk EXCEPT !.loose = @ \cup AboutOf(w)] \in DeskRec
      /\ [desk EXCEPT !.loose = @ \cup AboutOf(w)].released = desk.released
  BY <1>1, <1>6, <1>7, NotedFacts
<1>9. ASSUME Grew
      PROVE  /\ Table(hardware, Ids(Known'), HardwareRows(Known')) /\ Table(rentals, Ids(Known'), RentalRows(Known'))
             /\ Table(printers', Ids(Known'), PrinterRows(Known')) /\ Ids(Known) \subseteq Ids(Known')
             /\ HardwareRows(Known) \subseteq HardwareRows(Known')
  BY <1>5, <1>9, EarlierTables, RowsGrow DEF Earlier, Grew
<1> HIDE DEF h, byHand, noted
<1>10. CASE /\ Now(w).do = "hardware" /\ UNCHANGED rentals /\ Now(w).row.device \in DOMAIN devices \cup {None}
            /\ hardware' = With(hardware, h, Now(w).row) /\ Done(w) /\ desk' = Noted(w, byHand, {})
  <2>1. \A g \in DOMAIN hardware' : hardware'[g].device \in DOMAIN devices \cup {None}
    BY <1>10, DeskLinks DEF With
  <2>2. \A r \in DOMAIN rentals' : rentals'[r].hardware \in DOMAIN hardware' BY <1>10, DeskLinks DEF With
  <2>3. ASSUME Grew PROVE Table(hardware', Ids(Known'), HardwareRows(Known'))
    <3>1. h \in Ids(Known') /\ Now(w).row \in HardwareRows(Known') BY <1>3, <1>4, <1>9, <1>10, <2>3
    <3>2. Table(hardware, Ids(Known'), HardwareRows(Known')) BY <1>9, <2>3
    <3> QED BY <1>10, <3>1, <3>2, TableRows
  <2> QED BY <1>1, <1>5, <1>8, <1>9, <1>10, <2>1, <2>2, <2>3, DeskLinks, DeskStepKeeps
<1>11. CASE UNCHANGED <<rentals, hardware>> /\ Fail(w) /\ desk' = [desk EXCEPT !.loose = @ \cup AboutOf(w)]
  BY <1>1, <1>5, <1>8, <1>9, <1>11, DeskLinks, DeskStepKeeps
<1>12. CASE /\ Now(w).do = "free" /\ UNCHANGED rentals /\ Done(w) /\ desk' = Noted(w, byHand, {})
            /\ hardware' = IF h \in DOMAIN hardware THEN With(hardware, h, [hardware[h] EXCEPT !.status = "available"])
                           ELSE hardware
  <2> DEFINE row == [hardware[h] EXCEPT !.status = "available"]
  <2>1. h \in DOMAIN hardware => hardware[h] \in HardwareRows(Known) BY DEF DeskInv, DeskTables, Table
  <2>2. h \in DOMAIN hardware => row \in HardwareRows(Known) /\ row.device = hardware[h].device
    BY <2>1 DEF HardwareRows
  <2>3. hardware' = hardware \/ (h \in DOMAIN hardware /\ hardware' = With(hardware, h, row)) BY <1>12
  <2> HIDE DEF row
  <2>4. \A g \in DOMAIN hardware' : hardware'[g].device \in DOMAIN devices \cup {None}
    BY <2>2, <2>3, DeskLinks DEF With
  <2>5. \A r \in DOMAIN rentals' : rentals'[r].hardware \in DOMAIN hardware' BY <1>12, <2>3, DeskLinks DEF With
  <2>6. ASSUME Grew PROVE Table(hardware', Ids(Known'), HardwareRows(Known'))
    <3>1. Table(hardware, Ids(Known'), HardwareRows(Known')) BY <1>9, <2>6
    <3>2. CASE hardware' = hardware BY <3>1, <3>2
    <3>3. CASE h \in DOMAIN hardware /\ hardware' = With(hardware, h, row)
      <4>1. h \in Ids(Known') /\ row \in HardwareRows(Known') BY <1>3, <1>9, <2>2, <2>6, <3>3
      <4> QED BY <3>1, <3>3, <4>1, TableRows
    <3> QED BY <2>3, <3>2, <3>3
  <2> QED BY <1>1, <1>5, <1>8, <1>9, <1>12, <2>4, <2>5, <2>6, DeskLinks, DeskStepKeeps
<1>13. CASE /\ Now(w).do = "dropHardware" /\ Done(w) /\ hardware' = Without(hardware, h)
            /\ rentals' = [r \in DOMAIN rentals \ lost |-> rentals[r]]
            /\ desk' = IF h \in noted.loose THEN [noted EXCEPT !.loose = @ \cup lost] ELSE noted
  <2>1. lost \subseteq Ids(Known) BY DEF DeskInv, DeskTables, Table
  <2>2. \A r \in DOMAIN rentals' : rentals'[r].hardware \in DOMAIN hardware'
    BY <1>13, DeskLinks DEF Without
  <2>3. \A g \in DOMAIN hardware' : hardware'[g].device \in DOMAIN devices \cup {None}
    BY <1>13, DeskLinks DEF Without
  <2>4. Grew => Table(rentals', Ids(Known'), RentalRows(Known')) BY <1>9, <1>13 DEF Table
  <2> HIDE DEF lost
  <2>5. desk' \in DeskRec /\ desk.released \subseteq desk'.released BY <1>8, <1>13, <2>1
  <2>6. Grew => Table(hardware', Ids(Known'), HardwareRows(Known')) BY <1>9, <1>13, TableRows
  <2> QED BY <1>1, <1>5, <1>9, <1>13, <2>2, <2>3, <2>4, <2>5, <2>6, DeskLinks, DeskStepKeeps
<1> QED BY <1>1, <1>10, <1>11, <1>12, <1>13
        DEF StoreHardware, At, Notes, CutShort, h, byHand, noted

\* A rental is saved.
LEMMA RentalKeeps == ASSUME DeskInv, NEW w \in Workers, StoreRental(w) PROVE DeskInv'
<1> DEFINE r == Now(w).id
           row == Now(w).row
           DeskRec == [loose : SUBSET Ids(Known), released : SUBSET Ids(Known)]
<1>1. /\ task[w] # Idle /\ Now(w).do = "rental" /\ UNCHANGED <<accounts, company, fleet, hardware, printers>>
      /\ \/ /\ row.hardware \in DOMAIN hardware /\ rentals' = With(rentals, r, row) /\ Done(w)
            /\ desk' = Noted(w, {}, {})
         \/ UNCHANGED rentals /\ Fail(w) /\ desk' = [desk EXCEPT !.loose = @ \cup AboutOf(w)]
  BY DEF StoreRental, At, Notes, CutShort
<1>2. Now(w).do \in DeskKinds BY <1>1 DEF DeskKinds
<1>3. r \in Ids(Known) /\ row \in RentalRows(Known)
  BY <1>1, <1>2, Statement, KindsOfDesk DEF RentalSaves
<1>4. {} \in SUBSET Ids(Known) OBVIOUS
<1>5. desk' \in DeskRec /\ desk.released \subseteq desk'.released
  <2>1. /\ Noted(w, {}, {}) \in DeskRec /\ desk.released \subseteq Noted(w, {}, {}).released
        /\ [desk EXCEPT !.loose = @ \cup AboutOf(w)] \in DeskRec
        /\ [desk EXCEPT !.loose = @ \cup AboutOf(w)].released = desk.released
    BY <1>1, <1>2, <1>4, NotedFacts
  <2>2. desk' = Noted(w, {}, {}) \/ desk' = [desk EXCEPT !.loose = @ \cup AboutOf(w)] BY <1>1
  <2> QED BY <2>1, <2>2
<1> HIDE DEF r, row
<1>6. \A q \in DOMAIN rentals' : rentals'[q].hardware \in DOMAIN hardware' BY <1>1, DeskLinks DEF With
<1>7. ASSUME Grew
      PROVE  /\ Table(hardware', Ids(Known'), HardwareRows(Known')) /\ Table(rentals', Ids(Known'), RentalRows(Known'))
             /\ Table(printers', Ids(Known'), PrinterRows(Known'))
  <2>1. Earlier BY <1>7, EarlierTables
  <2>2. r \in Ids(Known') /\ row \in RentalRows(Known') BY <1>3, <1>7, RowsGrow DEF Grew
  <2>3. Table(With(rentals, r, row), Ids(Known'), RentalRows(Known')) BY <2>1, <2>2, TableRows DEF Earlier
  <2> QED BY <1>1, <2>1, <2>3 DEF Earlier
<1>8. \A h \in DOMAIN hardware' : hardware'[h].device \in DOMAIN devices \cup {None} BY <1>1, DeskLinks
<1>9. \A p \in DOMAIN printers' : printers'[p].device \in DOMAIN devices \cup {None} BY <1>1, DeskLinks
<1> QED BY <1>1, <1>5, <1>6, <1>7, <1>8, <1>9, DeskStepKeeps

\* A printer is saved, loses its organization, or is removed.
LEMMA PrinterKeeps ==
  ASSUME DeskInv, NEW w \in Workers, StorePrinter(w) \/ RemovePrinters(w) PROVE DeskInv'
<1> DEFINE p == Now(w).id
           row == Now(w).row
           DeskRec == [loose : SUBSET Ids(Known), released : SUBSET Ids(Known)]
           freed == [printers[p] EXCEPT !.org = None]
<1>1. /\ task[w] # Idle /\ UNCHANGED <<accounts, company, fleet, hardware, rentals>>
      /\ Now(w).do \in {"printer", "unassign", "dropPrinters", "dropPrintersOf"}
      /\ \/ /\ Now(w).do = "printer" /\ row.device \in DOMAIN devices \cup {None}
            /\ printers' = With(printers, p, row) /\ Done(w) /\ desk' = Noted(w, {}, {})
         \/ UNCHANGED printers /\ Fail(w) /\ desk' = [desk EXCEPT !.loose = @ \cup AboutOf(w)]
         \/ /\ Done(w) /\ desk' = Noted(w, {}, {})
            /\ \/ printers' = printers
               \/ Now(w).do = "unassign" /\ p \in DOMAIN printers /\ printers' = With(printers, p, freed)
               \/ \E gone : printers' = [q \in DOMAIN printers \ gone |-> printers[q]]
  <2>1. CASE StorePrinter(w) BY <2>1 DEF StorePrinter, At, Notes, CutShort
  <2>2. CASE RemovePrinters(w)
    <3> DEFINE of == {q \in DOMAIN printers : printers[q].device = Now(w).id}
    <3>1. {q \in DOMAIN printers : printers[q].device # Now(w).id} = DOMAIN printers \ of OBVIOUS
    <3> QED BY <2>2, <3>1 DEF RemovePrinters, At, Notes
  <2> QED BY <2>1, <2>2
<1>2. Now(w).do \in DeskKinds BY <1>1 DEF DeskKinds
<1>3. Now(w) \in DeskSteps(Known) BY <1>1, <1>2, Statement
<1>4. Now(w).do = "printer" => p \in Ids(Known) /\ row \in PrinterRows(Known)
  BY <1>3, KindsOfDesk DEF PrinterSaves
<1>5. {} \in SUBSET Ids(Known) OBVIOUS
<1>6. desk' \in DeskRec /\ desk.released \subseteq desk'.released
  <2>1. /\ Noted(w, {}, {}) \in DeskRec /\ desk.released \subseteq Noted(w, {}, {}).released
        /\ [desk EXCEPT !.loose = @ \cup AboutOf(w)] \in DeskRec
        /\ [desk EXCEPT !.loose = @ \cup AboutOf(w)].released = desk.released
    BY <1>1, <1>2, <1>5, NotedFacts
  <2>2. desk' = Noted(w, {}, {}) \/ desk' = [desk EXCEPT !.loose = @ \cup AboutOf(w)] BY <1>1
  <2> QED BY <2>1, <2>2
<1>7. p \in DOMAIN printers => /\ freed \in PrinterRows(Known) /\ p \in Ids(Known)
                               /\ freed.device = printers[p].device
  <2>1. p \in DOMAIN printers => printers[p] \in PrinterRows(Known) /\ p \in Ids(Known)
    BY DEF DeskInv, DeskTables, Table
  <2> QED BY <2>1 DEF PrinterRows, Opt
<1> HIDE DEF p, row, freed
<1>8. \A q \in DOMAIN printers' : printers'[q].device \in DOMAIN devices \cup {None}
  <2>1. \A q \in DOMAIN printers : printers[q].device \in DOMAIN devices \cup {None} BY DeskLinks
  <2>2. CASE row.device \in DOMAIN devices \cup {None} /\ printers' = With(printers, p, row)
    BY <2>1, <2>2 DEF With
  <2>3. CASE p \in DOMAIN printers /\ printers' = With(printers, p, freed) BY <1>7, <2>1, <2>3 DEF With
  <2>4. CASE printers' = printers BY <2>1, <2>4
  <2>5. ASSUME NEW gone, printers' = [q \in DOMAIN printers \ gone |-> printers[q]]
        PROVE  \A q \in DOMAIN printers' : printers'[q].device \in DOMAIN devices \cup {None}
    BY <2>1, <2>5
  <2> QED BY <1>1, <2>2, <2>3, <2>4, <2>5
<1>9. ASSUME Grew
      PROVE  /\ Table(hardware', Ids(Known'), HardwareRows(Known')) /\ Table(rentals', Ids(Known'), RentalRows(Known'))
             /\ Table(printers', Ids(Known'), PrinterRows(Known'))
  <2>1. Earlier BY <1>9, EarlierTables
  <2>2. Table(printers, Ids(Known'), PrinterRows(Known')) BY <2>1 DEF Earlier
  <2>3. Ids(Known) \subseteq Ids(Known') /\ PrinterRows(Known) \subseteq PrinterRows(Known') BY <1>9, RowsGrow DEF Grew
  <2>4. CASE Now(w).do = "printer" /\ printers' = With(printers, p, row)
    <3>1. p \in Ids(Known') /\ row \in PrinterRows(Known') BY <1>4, <2>3, <2>4
    <3>2. Table(printers', Ids(Known'), PrinterRows(Known')) BY <2>2, <2>4, <3>1, TableRows
    <3> QED BY <1>1, <2>1, <3>2 DEF Earlier
  <2>5. CASE p \in DOMAIN printers /\ printers' = With(printers, p, freed)
    <3>1. p \in Ids(Known') /\ freed \in PrinterRows(Known') BY <1>7, <2>3, <2>5
    <3>2. Table(printers', Ids(Known'), PrinterRows(Known')) BY <2>2, <2>5, <3>1, TableRows
    <3> QED BY <1>1, <2>1, <3>2 DEF Earlier
  <2>6. CASE printers' = printers BY <1>1, <2>1, <2>6 DEF Earlier
  <2>7. CASE \E gone : printers' = [q \in DOMAIN printers \ gone |-> printers[q]]
    <3>1. Table(printers', Ids(Known'), PrinterRows(Known')) BY <2>2, <2>7 DEF Table
    <3> QED BY <1>1, <2>1, <3>1 DEF Earlier
  <2> QED BY <1>1, <2>4, <2>5, <2>6, <2>7
<1>10. \A h \in DOMAIN hardware' : hardware'[h].device \in DOMAIN devices \cup {None} BY <1>1, DeskLinks
<1>11. \A r \in DOMAIN rentals' : rentals'[r].hardware \in DOMAIN hardware' BY <1>1, DeskLinks
<1> QED BY <1>1, <1>6, <1>8, <1>9, <1>10, <1>11, DeskStepKeeps

\* A statement of the desk that is followed by others.
LEMMA FollowedBy ==
  ASSUME DeskInv, Grew, NEW w \in Workers, task[w] # Idle, Now(w).do \in DeskKinds,
         NEW todo \in Seq(DeskSteps(Known')), Then(w, todo)
  PROVE  Running'
<1>1. task[w] \in Seq(DeskSteps(Known)) /\ task[w] # <<>> BY Statement DEF Idle
<1>2. Tail(task[w]) \in Seq(DeskSteps(Known)) BY <1>1
<1>3. DeskSteps(Known) \subseteq DeskSteps(Known') BY PlansGrow DEF Grew
<1>4. Tail(task[w]) \in Seq(DeskSteps(Known')) BY <1>2, <1>3, SeqGrows
<1>5. todo \o Tail(task[w]) \in Seq(DeskSteps(Known')) BY <1>4, ConcatProperties
<1>6. todo \o Tail(task[w]) \in Plans(Known') BY <1>5 DEF Plans
<1> QED BY <1>6, Proceeds

\* What an agent reports is looked for.
LEMMA SyncKeeps == ASSUME DeskInv, NEW w \in Workers, SyncPrinter(w) PROVE DeskInv'
<1> DEFINE d == Now(w).id
           new == Printer(Now(w).org, d, None, Now(w).local)
           old(p) == [printers[p] EXCEPT !.local = Now(w).local]
<1>1. /\ task[w] # Idle /\ Now(w).do = "sync"
      /\ UNCHANGED <<users, sessions, otps, trusted, erasure, company, fleet, rental>>
      /\ \/ Draw(1) /\ Then(w, <<SavePrinter(Token, new)>>)
         \/ Draw(0) /\ \E p \in DOMAIN printers : Then(w, <<SavePrinter(p, old(p))>>)
  BY DEF SyncPrinter, At
<1>2. Now(w).do \in DeskKinds BY <1>1 DEF DeskKinds
<1>3. d \in Ids(Known) /\ Now(w).org \in Opt(Orgs) /\ Now(w).local \in Locals
  BY <1>1, <1>2, Statement, KindsOfDesk
<1>4. UNCHANGED <<organizations, hardware, rentals, printers, desk, devices>> BY <1>1 DEF company, fleet, rental
<1>5. load' = load BY <1>1 DEF Then
<1>6. Grew /\ TokensOK'
  <2>1. \E n \in 0 .. 2 : Draw(n) BY <1>1
  <2>2. desk.released \subseteq desk'.released BY <1>4
  <2> QED BY <1>1, <1>4, <1>5, <2>1, <2>2, MoreIsKnown
<1>7. \E todo \in Seq(DeskSteps(Known')) : Then(w, todo)
  <2>1. None \notin Ids(Known')
    <3>1. None \notin Nat BY AccountsAssumption
    <3> QED BY <3>1, <1>6 DEF Ids, Grew, KnownType
  <2>2. Ids(Known) \subseteq Ids(Known') /\ PrinterRows(Known) \subseteq PrinterRows(Known') BY <1>6, RowsGrow DEF Grew
  <2>3. CASE Draw(1) /\ Then(w, <<SavePrinter(Token, new)>>)
    <3>1. tokens'.next = tokens.next + 1 /\ tokens.next \in Nat \ {0} BY <2>3 DEF Draw, DeskInv, AccountTables
    <3>2. Token \in Ids(Known') BY <3>1 DEF Ids, Known, Token
    <3>3. new \in PrinterRows(Known') BY <1>3, <2>2 DEF Printer, PrinterRows, Opt
    <3>4. SavePrinter(Token, new) \in DeskSteps(Known') BY <2>1, <3>2, <3>3, DeskStatements, BenchIsDesk
    <3>5. <<SavePrinter(Token, new)>> \in Seq(DeskSteps(Known')) BY <3>4
    <3> QED BY <2>3, <3>5
  <2>4. ASSUME NEW p \in DOMAIN printers, Then(w, <<SavePrinter(p, old(p))>>)
        PROVE  \E todo \in Seq(DeskSteps(Known')) : Then(w, todo)
    <3>1. printers[p] \in PrinterRows(Known) /\ p \in Ids(Known) BY DEF DeskInv, DeskTables, Table
    <3>2. printers[p] \in PrinterRows(Known') /\ p \in Ids(Known') BY <2>2, <3>1
    <3>3. old(p) \in PrinterRows(Known') BY <1>3, <3>2 DEF PrinterRows, Opt
    <3>4. SavePrinter(p, old(p)) \in DeskSteps(Known') BY <2>1, <3>2, <3>3, DeskStatements, BenchIsDesk
    <3>5. <<SavePrinter(p, old(p))>> \in Seq(DeskSteps(Known')) BY <3>4
    <3> QED BY <2>4, <3>5
  <2> QED BY <1>1, <2>3, <2>4
<1>8. Running' BY <1>1, <1>2, <1>6, <1>7, FollowedBy
<1>9. AccountTables(Known)' /\ CompanyTables(Known)' BY <1>1, <1>6, OthersKeep
<1>10. FleetTables(Known)' BY <1>1, <1>6, TablesStay
<1>11. DeskTables(Known)' BY <1>4, <1>6, DeskStays, DeskLinks DEF DeskTables, Table
<1> QED BY <1>8, <1>9, <1>10, <1>11 DEF DeskInv, Running

\* A device is lent, taken back, or loses its organization.
LEMMA MoveKeeps == ASSUME DeskInv, NEW w \in Workers, MoveDevice(w) PROVE DeskInv'
<1> DEFINE d == Now(w).id
           row(o) == [devices[d] EXCEPT !.org = o]
           o == Now(w).org
           released == IF Now(w).do = "release" \/ Now(w).org = None THEN {d} ELSE {}
           save == SaveDevice(d, row(o), "save")
           todo == IF d \in DOMAIN devices THEN <<save>> \o Now(w).rest ELSE <<>>
           DeskRec(k) == [loose : SUBSET Ids(k), released : SUBSET Ids(k)]
<1>1. /\ task[w] # Idle /\ desk' = Noted(w, {}, released) /\ UNCHANGED <<accounts, company, hardware, rentals, printers>>
      /\ \/ Now(w).do = "move" /\ UNCHANGED fleet /\ Then(w, todo)
         \/ /\ Now(w).do = "release" /\ Done(w) /\ UNCHANGED blocked
            /\ devices' = IF d \in DOMAIN devices THEN With(devices, d, row(None)) ELSE devices
  BY DEF MoveDevice, At, Notes
<1>2. Now(w).do \in DeskKinds BY <1>1 DEF DeskKinds
<1>3. Now(w) \in DeskSteps(Known) BY <1>1, <1>2, Statement
<1>4. d \in Ids(Known) BY <1>1, <1>3, KindsOfDesk DEF Moves
<1>5. Now(w).do = "move" => o \in Opt(Known.orgs) /\ Now(w).rest \in Seq(PrinterSaves(Known))
  BY <1>3, KindsOfDesk DEF Moves
<1>6. released \in SUBSET Ids(Known) /\ {} \in SUBSET Ids(Known) BY <1>4
<1>7. desk' \in DeskRec(Known) /\ desk.released \subseteq desk'.released BY <1>1, <1>2, <1>6, NotedFacts
<1>8. Now(w).do = "release" \/ o = None => d \in desk'.released BY <1>1 DEF Noted
<1>9. UNCHANGED <<users, sessions, otps, trusted, tokens, erasure, organizations>> BY <1>1 DEF accounts, company
<1>10. load' = load BY <1>1 DEF Done, Then
<1>11. Grew /\ TokensOK' BY <1>7, <1>9, <1>10, MoreIsKnown
<1>12. /\ Ids(Known) \subseteq Ids(Known') /\ Known.orgs \subseteq Known'.orgs /\ Known'.released = desk'.released
       /\ PrinterSaves(Known) \subseteq PrinterSaves(Known')
  <2>1. Known'.released = desk'.released BY DEF Known
  <2> QED BY <1>11, <2>1, RowsGrow DEF Grew, Grows, PrinterSaves
<1>13. /\ Table(devices, Ids(Known'), DeviceRows(Known')) /\ \A e \in DOMAIN devices : Belongs(e, devices[e], Known')
  BY <1>11, EarlierTables DEF Earlier
<1>14. Known.orgs \subseteq Orgs BY LaterFacts, DrawnIds, CompanyRow
<1>15. ASSUME NEW p \in Opt(Known.orgs), d \in DOMAIN devices, p = None => d \in desk'.released
       PROVE  row(p) \in DeviceRows(Known') /\ Belongs(d, row(p), Known')
  <2>1. devices[d] \in DeviceRows(Known') BY <1>13, <1>15 DEF Table
  <2>2. p \in Opt(Orgs) /\ (p \in Known'.orgs \/ p = None) BY <1>12, <1>14 DEF Opt
  <2> QED BY <1>12, <1>15, <2>1, <2>2 DEF DeviceRows, Belongs
<1> HIDE DEF released, row
<1>16. DOMAIN devices' = DOMAIN devices BY <1>1 DEF With, fleet
<1>17. AccountTables(Known)' /\ CompanyTables(Known)' BY <1>1, <1>9, <1>11, OthersKeep
<1>18. DeskTables(Known)'
  <2>1. desk' \in DeskRec(Known') BY <1>7, <1>12
  <2> QED BY <1>1, <1>11, <1>16, <2>1, DeskStays, DeskLinks DEF DeskTables, Table
<1>19. CASE Now(w).do = "move" /\ UNCHANGED fleet /\ Then(w, todo)
  <2>1. todo \in Seq(DeskSteps(Known'))
    <3>1. CASE d \notin DOMAIN devices BY <3>1
    <3>2. CASE d \in DOMAIN devices
      <4>1. row(o) \in DeviceRows(Known') /\ Belongs(d, row(o), Known') BY <1>5, <1>8, <1>15, <1>19, <3>2
      <4>2. save \in DeviceSaves(Known') BY <1>4, <1>12, <4>1 DEF SaveDevice, DeviceSaves
      <4>3. save \in DeskSteps(Known') BY <4>2 DEF DeskSteps, BenchSteps
      <4>4. PrinterSaves(Known) \subseteq DeskSteps(Known') BY <1>12 DEF DeskSteps, BenchSteps
      <4>5. Now(w).rest \in Seq(DeskSteps(Known')) BY <1>5, <1>19, <4>4, SeqGrows
      <4> HIDE DEF save
      <4>6. <<save>> \in Seq(DeskSteps(Known')) BY <4>3
      <4>7. <<save>> \o Now(w).rest \in Seq(DeskSteps(Known')) BY <4>5, <4>6, ConcatProperties
      <4> QED BY <3>2, <4>7
    <3> QED BY <3>1, <3>2
  <2>2. Running' BY <1>1, <1>2, <1>11, <1>19, <2>1, FollowedBy
  <2>3. FleetTables(Known)' BY <1>11, <1>19, TablesStay
  <2> QED BY <1>17, <1>18, <2>2, <2>3 DEF DeskInv, Running
<1>20. CASE /\ Now(w).do = "release" /\ Done(w) /\ UNCHANGED blocked
            /\ devices' = IF d \in DOMAIN devices THEN With(devices, d, row(None)) ELSE devices
  <2>1. Running' BY <1>1, <1>11, <1>20, Proceeds
  <2>2. Devices(Known)'
    <3>1. CASE devices' = devices BY <1>13, <3>1 DEF Devices
    <3>2. CASE d \in DOMAIN devices /\ devices' = With(devices, d, row(None))
      <4>1. None \in Opt(Known.orgs) BY DEF Opt
      <4>2. row(None) \in DeviceRows(Known') /\ Belongs(d, row(None), Known') BY <1>8, <1>15, <1>20, <3>2, <4>1
      <4>3. d \in Ids(Known') BY <1>4, <1>12
      <4>4. Table(With(devices, d, row(None)), Ids(Known'), DeviceRows(Known')) BY <1>13, <4>2, <4>3, TableRows
      <4>5. \A e \in DOMAIN devices' : Belongs(e, devices'[e], Known') BY <1>13, <3>2, <4>2 DEF With
      <4> QED BY <3>2, <4>4, <4>5 DEF Devices
    <3> QED BY <1>20, <3>1, <3>2
  <2>3. FleetTables(Known)' BY <1>11, <1>20, <2>2, BlockedStays DEF FleetTables, Devices
  <2> QED BY <1>17, <1>18, <2>1, <2>3 DEF DeskInv, Running
<1> QED BY <1>1, <1>19, <1>20

\* A request at the desk leaves a plan.
LEMMA DeskRequests ==
  ASSUME DeskInv, NEW w \in Workers, DeskRequest(w) \/ PrinterRequest(w)
  PROVE  \E n \in 0 .. 2 : \E todo : DeskPlan(w, n, todo)
<1>1. CASE DeskRequest(w)
  <2>1. CASE \E r \in DOMAIN rentals :
               \/ ActivateRental(w, r) \/ ReturnRental(w, r)
               \/ \E a \in Users : ConfirmAssignment(w, a, r) \/ DeclineAssignment(w, a, r)
    BY <2>1, RentalRequests, BenchIsDesk DEF BenchPlan, DeskPlan
  <2>2. CASE \/ CreateRentalHardware(w)
             \/ \E h \in DOMAIN hardware :
                  \/ \E status \in {hardware[h].status, "available", "maintenance"}, d \in {hardware[h].device} \cup DOMAIN devices :
                       UpdateRentalHardware(w, h, status, d)
                  \/ DeleteRentalHardware(w, h)
                  \/ \E o \in DOMAIN organizations : CreateRentalAssignment(w, h, o)
    BY <2>2, HardwareRequests, BenchIsDesk DEF BenchPlan, DeskPlan
  <2> QED BY <1>1, <2>1, <2>2 DEF DeskRequest
<1>2. CASE PrinterRequest(w)
  <2>1. CASE \E d \in DOMAIN devices :
               \/ \E o \in DOMAIN organizations : AssignPrinterDevice(w, d, o)
               \/ DeleteDevice(w, d) \/ \E list \in Lists : SyncFromAgent(w, d, list)
    BY <2>1, PrinterDeviceRequests
  <2>2. CASE \/ \E p \in DOMAIN printers :
                  \/ UnassignPrinter(w, p) \/ UpdatePrinterAdmin(w, p)
                  \/ \E a \in Users : RemovePrinter(w, a, p) \/ \E d \in DOMAIN devices \cup {None} : UpdatePrinter(w, a, p, d)
             \/ \E a \in Users, o \in DOMAIN organizations, d \in DOMAIN devices \cup {None} : CreatePrinter(w, a, o, d)
    BY <2>2, PrinterRequests, BenchIsDesk DEF BenchPlan, DeskPlan
  <2> QED BY <1>2, <2>1, <2>2 DEF PrinterRequest
<1> QED BY <1>1, <1>2

\* A request at the desk.
LEMMA DeskRequestsKeep ==
  ASSUME DeskInv, NEW w \in Workers, DeskRequest(w) \/ PrinterRequest(w) PROVE DeskInv'
<1>1. \E n \in 0 .. 2 : \E todo : DeskPlan(w, n, todo) BY DeskRequests
<1>2. PICK n \in 0 .. 2 : \E todo : DeskPlan(w, n, todo) BY <1>1
<1>3. PICK todo : DeskPlan(w, n, todo) BY <1>2
<1>4. todo \in Plans(Later(n)) /\ Draw(n) /\ Ask(w, todo) /\ UNCHANGED fleet /\ UNCHANGED rental
  BY <1>3 DEF DeskPlan, Serve, Call, Plans
<1>5. UNCHANGED <<hardware, rentals, printers, desk>> BY <1>4 DEF rental
<1>6. Grew /\ Core' BY <1>4, <1>5, RequestKeeps
<1>7. UNCHANGED devices BY <1>4 DEF fleet
<1>8. DeskTables(Known)' BY <1>5, <1>6, <1>7, DeskStays, DeskLinks DEF DeskTables, Table
<1> QED BY <1>6, <1>8 DEF DeskInv, Core, Running

\* The empty database is in order.
LEMMA InitInOrder == Init => DeskInv
<1> SUFFICES ASSUME Init PROVE DeskInv OBVIOUS
<1> USE DEF Init
<1>1. /\ KnownType(Known) /\ Known.next = 1 /\ Ids(Known) = {}
  <2>1. Known.next = tokens.next /\ Known.requests = load.requests BY DEF Known
  <2>2. tokens.next = 1 /\ load.requests = 0 BY DEF RequestsInit
  <2> QED BY <2>1, <2>2 DEF KnownType, Ids
<1>2. \A D, R : Table(Empty, D, R) BY DEF Table, Empty
<1>3. RequestsOK BY RequestsAssumption DEF RequestsInit, RequestsOK
<1>4. Idle \in Plans(Known)
  <2>1. <<>> \in Seq(AccountSteps(Known)) OBVIOUS
  <2> QED BY <2>1 DEF Plans, Idle
<1>5. task \in [Workers -> Plans(Known)] BY <1>4 DEF RequestsInit
<1>6. tokens \in [next : 1 .. (MaxTokens + 1), expired : SUBSET (1 .. MaxTokens)] BY AccountsAssumption
<1>7. AccountTables(Known) BY <1>2, <1>6 DEF AccountTables
<1>8. staffing \in [raced : SUBSET Orgs, demoted : SUBSET Orgs, accepted : Seq(Ids(Known))] OBVIOUS
<1>9. CompanyTables(Known) BY <1>2, <1>8 DEF CompanyTables
<1>10. DOMAIN Empty = {} BY DEF Empty
<1>11. FleetTables(Known) BY <1>2, <1>10 DEF FleetTables
<1>12. desk \in [loose : SUBSET Ids(Known), released : SUBSET Ids(Known)] OBVIOUS
<1>13. DeskTables(Known) BY <1>2, <1>10, <1>12 DEF DeskTables
<1> QED BY <1>3, <1>5, <1>7, <1>9, <1>11, <1>13 DEF DeskInv

\* No step changes anything.
LEMMA StutterKeeps == ASSUME DeskInv, UNCHANGED vars PROVE DeskInv'
<1>1. /\ UNCHANGED <<users, sessions, otps, trusted, tokens, erasure, task, load>>
      /\ UNCHANGED <<organizations, members, invitations, staffing, devices, blocked>>
      /\ UNCHANGED <<hardware, rentals, printers, desk>>
  BY DEF vars, requests, accounts, company, fleet, rental
<1>2. Known' = Known BY <1>1 DEF Known
<1>3. RequestsOK' /\ (task \in [Workers -> Plans(Known)])' BY <1>1, <1>2 DEF DeskInv, RequestsOK
<1>4. AccountTables(Known)' BY <1>1, <1>2 DEF DeskInv, AccountTables, Table
<1>5. CompanyTables(Known)' BY <1>1, <1>2 DEF DeskInv, CompanyTables, Table
<1>6. FleetTables(Known)' BY <1>1, <1>2 DEF DeskInv, FleetTables, Table
<1>7. DeskTables(Known)' BY <1>1, <1>2 DEF DeskInv, DeskTables, Table
<1> QED BY <1>3, <1>4, <1>5, <1>6, <1>7 DEF DeskInv

\* Every step keeps the tables and the plans in order.
LEMMA StepKeeps == ASSUME DeskInv, [Next]_vars PROVE DeskInv'
<1>1. ASSUME NEW w \in Workers, DeskRequest(w) \/ PrinterRequest(w) PROVE DeskInv' BY <1>1, DeskRequestsKeep
<1>2. ASSUME NEW w \in Workers, DeskStep(w) PROVE DeskInv'
  BY <1>2, HardwareKeeps, RentalKeeps, PrinterKeeps, SyncKeeps, MoveKeeps DEF DeskStep
<1> QED BY <1>1, <1>2, ElsewhereKeeps, StutterKeeps DEF Next

\* In every reachable state the tables are in order, and every plan holds statements that
\* keep them so, however stale what the request had read.
THEOREM DeskInOrder == Spec => []DeskInv
<1>1. DeskInv /\ [Next]_vars => DeskInv' BY StepKeeps
<1> QED BY <1>1, InitInOrder, PTL DEF Spec

\* Rows in order are rows as TypeOK wants them.
LEMMA TypesFollow == DeskInv => TypeOK
<1> SUFFICES ASSUME DeskInv PROVE TypeOK OBVIOUS
<1>1. /\ Known.users = DOMAIN users /\ Known.orgs = DOMAIN organizations /\ load.requests \in Nat
      /\ Known.requests = load.requests /\ Known.next = tokens.next
  BY LaterFacts, DrawnIds DEF Token
<1>2. Ids(Known) \subseteq 1 .. MaxTokens /\ Ids(Known) \subseteq Id
  <2>1. tokens.next \in 1 .. (MaxTokens + 1) BY DEF DeskInv, AccountTables
  <2> QED BY <1>1, <2>1, AccountsAssumption DEF Ids, Id
<1>3. 0 .. load.requests \subseteq 0 .. (MaxLoginAttempts + MaxRequests)
  <2>1. load.requests \in 0 .. MaxRequests BY DEF DeskInv, RequestsOK
  <2> QED BY <2>1, AccountsAssumption, RequestsAssumption
<1>4. AccountsOK
  <2>1. \A u \in DOMAIN users : UserRow(users[u])
    <3>1. ASSUME NEW row \in UserRows(Known) PROVE UserRow(row)
      BY <1>1, <1>2, <1>3, <3>1 DEF UserRows, UserRow, Opt
    <3> QED BY <3>1 DEF DeskInv, AccountTables, Table, AccountRows
  <2>2. /\ DOMAIN users \subseteq Users /\ trusted \subseteq Users
        /\ tokens \in [next : 1..(MaxTokens + 1), expired : SUBSET (1..MaxTokens)]
        /\ erasure \in [done : SUBSET Users, raced : SUBSET Users]
    BY DEF DeskInv, AccountTables, Table
  <2>3. /\ \A s \in DOMAIN sessions : sessions[s] \in SessionRows
        /\ \A c \in DOMAIN otps : otps[c] \in OtpRows
    BY DEF DeskInv, AccountTables, Table
  <2> QED BY <2>1, <2>2, <2>3 DEF AccountsOK, DeskInv, SessionRows, OtpRows
<1>5. MembershipsOK
  <2>1. /\ DOMAIN organizations \subseteq Orgs /\ \A o \in DOMAIN organizations : organizations[o] \in OrgRows
        /\ \A m \in DOMAIN members : members[m] \in MemberRows(Known)
        /\ \A i \in DOMAIN invitations : invitations[i] \in InvitationRows(Known)
        /\ staffing.raced \subseteq Orgs /\ staffing.demoted \subseteq Orgs
    BY DEF DeskInv, CompanyTables, Table
  <2> QED BY <1>1, <2>1 DEF MembershipsOK, OrgRows, MemberRows, InvitationRows
<1>6. FleetOK
  <2>1. /\ \A d \in DOMAIN devices : devices[d] \in DeviceRows(Known)
        /\ blocked.now \subseteq Ids(Known) /\ blocked.raced \subseteq Ids(Known)
    BY DEF DeskInv, FleetTables, Table
  <2> QED BY <1>2, <2>1 DEF FleetOK, DeviceRows, Opt
<1>7. /\ \A h \in DOMAIN hardware : hardware[h] \in HardwareRows(Known)
      /\ \A r \in DOMAIN rentals : rentals[r] \in RentalRows(Known)
      /\ \A p \in DOMAIN printers : printers[p] \in PrinterRows(Known)
      /\ DOMAIN organizations \subseteq Orgs
  BY DEF DeskInv, DeskTables, CompanyTables, Table
<1>8. \A h \in DOMAIN hardware : hardware[h].status \in {"available", "rented", "maintenance", "retired"}
  BY <1>7 DEF HardwareRows
<1>9. \A r \in DOMAIN rentals : rentals[r].org \in Orgs /\ rentals[r].status \in Live \cup {"returned", "cancelled"}
  BY <1>1, <1>7 DEF RentalRows
<1>10. \A p \in DOMAIN printers : /\ printers[p].org \in Orgs \cup {None} /\ printers[p].rental \in Id \cup {None}
                                  /\ printers[p].local \in Locals \cup {None}
  BY <1>2, <1>7 DEF PrinterRows, Opt
<1>11. desk.loose \subseteq Id /\ desk.released \subseteq Id BY <1>2, DeskLinks
<1> QED BY <1>4, <1>5, <1>6, <1>8, <1>9, <1>10, <1>11, DeskLinks DEF TypeOK

\* The rows of all tables are well formed, and name what there is, whichever requests
\* overlap and wherever the process stops (TypeOK).
THEOREM TypeCorrect == Spec => []TypeOK
BY DeskInOrder, TypesFollow, PTL

\* A second factor that is switched on can always be passed (TwoFactorUsable): each
\* row that a request writes is usable, and it is saved as it was written.
THEOREM FactorUsable == Spec => []TwoFactorUsable
<1>1. DeskInv => TwoFactorUsable
  BY DEF DeskInv, AccountTables, Table, AccountRows, Factor, TwoFactorUsable
<1> QED BY <1>1, DeskInOrder, PTL

-----------------------------------------------------------------------------
(* What a step does to the plans: it takes a statement away, ends a plan, or, for a  *)
(* request, gives an idle worker statements of certain kinds.                        *)

Shorter(t, u) == t = u \/ t = Idle \/ (u # Idle /\ t = Tail(u))
Adds(K) ==
  \A v \in Workers : \/ Shorter(task'[v], task[v])
                     \/ task[v] = Idle /\ \A i \in DOMAIN task'[v] : task'[v][i].do \in K

\* A plan that starts adds what it holds.
LEMMA StartAdds ==
  ASSUME DeskInv, NEW w \in Workers, NEW K, NEW S, NEW todo \in Seq(S), \A s \in S : s.do \in K,
         Start(w, todo)
  PROVE  Adds(K) /\ task' = [task EXCEPT ![w] = todo] /\ task[w] = Idle
<1>1. DOMAIN task = Workers BY DEF DeskInv, RequestsOK
<1>2. task' = [task EXCEPT ![w] = todo] /\ task[w] = Idle BY DEF Start, Ready
<1>3. \A i \in DOMAIN todo : todo[i].do \in K OBVIOUS
<1> QED BY <1>1, <1>2, <1>3 DEF Adds, Shorter

\* A plan of one statement.
LEMMA OneAdds ==
  ASSUME DeskInv, NEW w \in Workers, NEW s, NEW K, s.do \in K, Start(w, <<s>>)
  PROVE  Adds(K) /\ task' = [task EXCEPT ![w] = <<s>>] /\ task[w] = Idle
<1> DEFINE S == {s}
           todo == <<s>>
<1>1. todo \in Seq(S) /\ Start(w, todo) OBVIOUS
<1>2. \A t \in S : t.do \in K OBVIOUS
<1> HIDE DEF S, todo
<1>3. Adds(K) /\ task' = [task EXCEPT ![w] = todo] /\ task[w] = Idle BY <1>1, <1>2, StartAdds
<1> QED BY <1>3 DEF todo

\* A statement that is done, or that throws, adds nothing.
LEMMA StatementAdds ==
  ASSUME DeskInv, NEW w \in Workers, task[w] # Idle, Done(w) \/ Fail(w)
  PROVE  Adds({})
<1>1. DOMAIN task = Workers BY DEF DeskInv, RequestsOK
<1> QED BY <1>1 DEF Done, Fail, Adds, Shorter

\* Plans of all requests.
LEMMA PlanAdds ==
  ASSUME DeskInv, NEW w \in Workers
  PROVE  /\ \A n \in 0 .. 2 : \A todo : AccountPlan(w, n, todo) => Adds(AccountKinds)
         /\ \A n \in 0 .. 2 : \A s : CompanyPlan(w, n, s) => Adds(CompanyKinds) /\ Adds({s.do})
         /\ \A n \in 0 .. 2 : \A s : FleetPlan(w, n, s) => Adds(FleetKinds)
         /\ \A n \in 0 .. 2 : \A todo : DeskPlan(w, n, todo) => Adds(DeskKinds \cup {"device", "dropDevice"})
         /\ \A u \in DOMAIN users : Ask(w, AnonymizeUser(u)) => Adds({"user", "revokeAll"})
<1>1. ASSUME NEW n \in 0 .. 2, NEW todo, AccountPlan(w, n, todo) PROVE Adds(AccountKinds)
  <2>1. todo \in Seq(AccountSteps(Later(n))) /\ Start(w, todo) BY <1>1 DEF AccountPlan, Reply
  <2>2. \A s \in AccountSteps(Later(n)) : s.do \in AccountKinds BY KindsOfAccounts
  <2> QED BY <2>1, <2>2, StartAdds
<1>2. ASSUME NEW n \in 0 .. 2, NEW s, CompanyPlan(w, n, s) PROVE Adds(CompanyKinds) /\ Adds({s.do})
  <2>1. Start(w, <<s>>) BY <1>2 DEF CompanyPlan, Ask, Reply
  <2>2. s.do \in CompanyKinds /\ s.do \in {s.do} BY <1>2, KindsOfCompany DEF CompanyPlan
  <2> QED BY <2>1, <2>2, OneAdds
<1>3. ASSUME NEW n \in 0 .. 2, NEW s, FleetPlan(w, n, s) PROVE Adds(FleetKinds)
  <2>1. Start(w, <<s>>) BY <1>3 DEF FleetPlan, Call, Ask, Reply
  <2>2. s.do \in FleetKinds BY <1>3, KindsOfFleet DEF FleetPlan
  <2> QED BY <2>1, <2>2, OneAdds
<1>4. ASSUME NEW n \in 0 .. 2, NEW todo, DeskPlan(w, n, todo)
      PROVE  Adds(DeskKinds \cup {"device", "dropDevice"})
  <2>1. todo \in Seq(DeskSteps(Later(n))) /\ Start(w, todo) BY <1>4 DEF DeskPlan, Serve, Call, Ask, Reply
  <2>2. \A s \in DeskSteps(Later(n)) : s.do \in DeskKinds \cup {"device", "dropDevice"} BY KindsOfDesk
  <2> QED BY <2>1, <2>2, StartAdds
<1>5. ASSUME NEW u \in DOMAIN users, Ask(w, AnonymizeUser(u)) PROVE Adds({"user", "revokeAll"})
  <2> DEFINE s == [SaveUser(u, Anonymized) EXCEPT !.erase = TRUE]
             S == {s, RevokeAll(u)}
  <2>1. s.do = "user" /\ RevokeAll(u).do = "revokeAll" BY DEF SaveUser, RevokeAll
  <2> HIDE DEF s
  <2>2. AnonymizeUser(u) = <<s, RevokeAll(u)>> BY DEF AnonymizeUser, s
  <2>3. AnonymizeUser(u) \in Seq(S) BY <2>2, FewStatements
  <2>4. Start(w, AnonymizeUser(u)) BY <1>5 DEF Ask, Reply
  <2>5. \A t \in S : t.do \in {"user", "revokeAll"} BY <2>1
  <2> HIDE DEF S
  <2> QED BY <2>3, <2>4, <2>5, StartAdds
<1> QED BY <1>1, <1>2, <1>3, <1>4, <1>5

\* Of what kinds the new statements are, module by module.
LEMMA StepAdds ==
  ASSUME DeskInv
  PROVE  /\ AccountsNext => Adds(AccountKinds)
         /\ \A w \in Workers, a \in Users : CompanyRequest(w, a) => Adds(CompanyKinds \cup {"user", "revokeAll"})
         /\ \A w \in Workers : CompanyStep(w) => Adds({})
         /\ \A w \in Workers : FleetRequest(w) => Adds(FleetKinds \cup {"member"})
         /\ \A w \in Workers : StoreDevice(w) \/ SetColumns(w) \/ DropDevice(w) => Adds({})
         /\ \A w \in Workers : DeskRequest(w) \/ PrinterRequest(w) => Adds(DeskKinds \cup {"device", "dropDevice"})
         /\ \A w \in Workers : StoreHardware(w) \/ StoreRental(w) \/ StorePrinter(w) \/ RemovePrinters(w) => Adds({})
         /\ UNCHANGED vars => Adds({})
<1>1. ASSUME NEW K, NEW L, K \subseteq L, Adds(K) PROVE Adds(L) BY <1>1 DEF Adds
<1>2. ASSUME NEW L, Adds({}) PROVE Adds(L) BY <1>2, <1>1
<1>3. ASSUME AccountsNext PROVE Adds(AccountKinds)
  <2>1. ASSUME NEW w \in Workers,
               \/ \E u \in Users : AccountRequest(w, u) \/ FactorRequest(w, u)
               \/ \E s \in DOMAIN sessions : RefreshTokens(w, s) \/ RefreshExpired(w, s)
        PROVE  Adds(AccountKinds)
    BY <2>1, AccountRequests, PlanAdds
  <2>2. ASSUME NEW w \in Workers, AccountStep(w) PROVE Adds(AccountKinds)
    <3>1. task[w] # Idle /\ (Done(w) \/ Fail(w))
      BY <2>2 DEF AccountStep, StoreUser, StoreSession, RevokeSessions, StoreOtp, StoreTrust, At
    <3> QED BY <1>2, <3>1, StatementAdds
  <2>3. ASSUME NEW t, Expire(t) PROVE Adds(AccountKinds)
    BY <2>3 DEF Expire, requests, Adds, Shorter
  <2>4. CASE Stop BY <2>4 DEF Stop, Crash, Adds, Shorter
  <2> QED BY <1>3, <2>1, <2>2, <2>3, <2>4 DEF AccountsNext
<1>4. ASSUME NEW w \in Workers, NEW a \in Users, CompanyRequest(w, a)
      PROVE  Adds(CompanyKinds \cup {"user", "revokeAll"})
  <2>1. CASE \E n \in 0 .. 2 : \E s : CompanyPlan(w, n, s) BY <1>1, <2>1, PlanAdds
  <2>2. CASE \E u \in DOMAIN users : Ask(w, AnonymizeUser(u))
    <3>1. Adds({"user", "revokeAll"}) BY <2>2, PlanAdds
    <3>2. {"user", "revokeAll"} \subseteq CompanyKinds \cup {"user", "revokeAll"} OBVIOUS
    <3> QED BY <1>1, <3>1, <3>2
  <2> QED BY <1>4, <2>1, <2>2, CompanyRequests
<1>5. ASSUME NEW w \in Workers, CompanyStep(w) PROVE Adds({})
  <2>1. task[w] # Idle /\ (Done(w) \/ Fail(w))
    BY <1>5 DEF CompanyStep, FoundOrganization, StoreOrganization, StoreMember, DropMember, StoreInvitation, At
  <2> QED BY <2>1, StatementAdds
<1>6. ASSUME NEW w \in Workers, FleetRequest(w) PROVE Adds(FleetKinds \cup {"member"})
  <2>1. CASE \E n \in 0 .. 2 : \E s : FleetPlan(w, n, s) BY <1>1, <2>1, PlanAdds
  <2>2. CASE \E n \in 0 .. 2 : \E s : CompanyPlan(w, n, s) /\ s.do = "member"
    <3>1. Adds({"member"}) BY <2>2, PlanAdds
    <3>2. {"member"} \subseteq FleetKinds \cup {"member"} OBVIOUS
    <3> QED BY <1>1, <3>1, <3>2
  <2> QED BY <1>6, <2>1, <2>2, FleetRequests
<1>7. ASSUME NEW w \in Workers, StoreDevice(w) \/ SetColumns(w) \/ DropDevice(w) PROVE Adds({})
  <2>1. task[w] # Idle /\ Done(w) BY <1>7 DEF StoreDevice, SetColumns, DropDevice, At
  <2> QED BY <2>1, StatementAdds
<1>8. ASSUME NEW w \in Workers, DeskRequest(w) \/ PrinterRequest(w)
      PROVE  Adds(DeskKinds \cup {"device", "dropDevice"})
  BY <1>8, DeskRequests, PlanAdds
<1>9. ASSUME NEW w \in Workers, StoreHardware(w) \/ StoreRental(w) \/ StorePrinter(w) \/ RemovePrinters(w) PROVE Adds({})
  <2>1. task[w] # Idle /\ (Done(w) \/ Fail(w))
    BY <1>9 DEF StoreHardware, StoreRental, StorePrinter, RemovePrinters, CutShort, At
  <2> QED BY <2>1, StatementAdds
<1>10. ASSUME UNCHANGED vars PROVE Adds({})
  BY <1>10 DEF vars, requests, Adds, Shorter
<1> QED BY <1>3, <1>4, <1>5, <1>6, <1>7, <1>8, <1>9, <1>10

\* What remains of a plan was in it.
LEMMA Remains ==
  ASSUME DeskInv, NEW v \in Workers, NEW t, Shorter(t, task[v]), NEW i \in DOMAIN t
  PROVE  \/ t = task[v]
         \/ /\ task[v] # Idle /\ t = Tail(task[v]) /\ Len(task[v]) > 1
            /\ i + 1 \in DOMAIN task[v] /\ t[i] = task[v][i + 1]
<1>1. \E S : task[v] \in Seq(S)
  <2>1. task[v] \in Plans(Known) BY DEF DeskInv
  <2> QED BY <2>1 DEF Plans
<1>2. PICK S : task[v] \in Seq(S) BY <1>1
<1>3. CASE t = Idle BY <1>3 DEF Idle
<1>4. CASE task[v] # Idle /\ t = Tail(task[v])
  <2>1. Len(task[v]) \in Nat \ {0} /\ DOMAIN task[v] = 1 .. Len(task[v]) BY <1>2, <1>4 DEF Idle
  <2>2. DOMAIN t = 1 .. (Len(task[v]) - 1) /\ t[i] = task[v][i + 1] BY <1>2, <1>4 DEF Idle
  <2> QED BY <1>4, <2>1, <2>2
<1> QED BY <1>3, <1>4 DEF Shorter

-----------------------------------------------------------------------------
(* Devices that are blocked.  Whatever another request still has to save of one that *)
(* is blocked and was not saved meanwhile leaves it inactive, or lets it in on        *)
(* purpose; and who blocks a device does nothing else.                               *)

Quiet(b, d) == d \in b.now \ b.raced
SafeSave(b, s) == /\ Quiet(b, s.id) => s.as = "admit" \/ ~ s.row.active
                  /\ s.as = "block" => ~ s.row.active
SafePlan(b, t) == \A i \in DOMAIN t : t[i].do = "device" => SafeSave(b, t[i]) /\ (t[i].as = "block" => Len(t) = 1)
BlockInv ==
  /\ \A d \in DOMAIN devices : Quiet(blocked, d) => ~ devices[d].active
  /\ \A v \in Workers : SafePlan(blocked, task[v])

\* Plans stay safe when no device becomes quiet.
LEMMA SafeStays ==
  ASSUME DeskInv, BlockInv, NEW K, "device" \notin K, Adds(K), \A d : Quiet(blocked', d) => Quiet(blocked, d)
  PROVE  \A v \in Workers : SafePlan(blocked', task'[v])
<1> SUFFICES ASSUME NEW v \in Workers, NEW i \in DOMAIN task'[v], task'[v][i].do = "device"
             PROVE  SafeSave(blocked', task'[v][i]) /\ (task'[v][i].as = "block" => Len(task'[v]) = 1)
  BY DEF SafePlan
<1>1. SafePlan(blocked, task[v]) BY DEF BlockInv
<1>2. \A s : SafeSave(blocked, s) => SafeSave(blocked', s) BY DEF SafeSave
<1>3. Shorter(task'[v], task[v]) BY DEF Adds
<1>4. CASE task'[v] = task[v] BY <1>1, <1>2, <1>4 DEF SafePlan
<1>5. CASE /\ task[v] # Idle /\ task'[v] = Tail(task[v]) /\ Len(task[v]) > 1
           /\ i + 1 \in DOMAIN task[v] /\ task'[v][i] = task[v][i + 1]
  <2>1. SafeSave(blocked, task[v][i + 1]) /\ (task[v][i + 1].as = "block" => Len(task[v]) = 1)
    BY <1>1, <1>5 DEF SafePlan
  <2>2. SafeSave(blocked, task'[v][i]) /\ task'[v][i].as # "block" BY <1>5, <2>1
  <2> QED BY <1>2, <2>2
<1> QED BY <1>3, <1>4, <1>5, Remains

\* A request that starts safely.
LEMMA SafeStarts ==
  ASSUME DeskInv, BlockInv, NEW w \in Workers, NEW todo, SafePlan(blocked, todo), Start(w, todo), UNCHANGED fleet
  PROVE  BlockInv'
<1>1. DOMAIN task = Workers BY DEF DeskInv, RequestsOK
<1>2. UNCHANGED devices /\ UNCHANGED blocked BY DEF fleet
<1>3. \A v \in Workers : task'[v] = IF v = w THEN todo ELSE task[v] BY <1>1 DEF Start
<1> QED BY <1>2, <1>3 DEF BlockInv

\* A plan of one statement that is safe.
LEMMA OneSafe ==
  ASSUME NEW w, NEW s, Call(w, <<s>>), s.do = "device" => SafeSave(blocked, s)
  PROVE  \E todo : Start(w, todo) /\ UNCHANGED fleet /\ SafePlan(blocked, todo)
<1>1. Start(w, <<s>>) /\ UNCHANGED fleet BY DEF Call, Ask, Reply
<1>2. SafePlan(blocked, <<s>>) BY DEF SafePlan
<1> QED BY <1>1, <1>2

\* What devices and their administrators ask for keeps a blocked one out.
LEMMA SafeFleetRequests ==
  ASSUME DeskInv, BlockInv, NEW w \in Workers, FleetRequest(w)
  PROVE  \E todo : Start(w, todo) /\ UNCHANGED fleet /\ SafePlan(blocked, todo)
<1>1. ASSUME NEW d, NEW row, NEW as, Call(w, <<SaveDevice(d, row, as)>>),
             SafeSave(blocked, SaveDevice(d, row, as))
      PROVE  \E todo : Start(w, todo) /\ UNCHANGED fleet /\ SafePlan(blocked, todo)
  BY <1>1, OneSafe
<1>2. ASSUME NEW d, NEW row, NEW as, Call(w, <<SaveDevice(d, row, as)>>),
             Quiet(blocked, d) => as = "admit" \/ ~ row.active, as = "block" => ~ row.active
      PROVE  \E todo : Start(w, todo) /\ UNCHANGED fleet /\ SafePlan(blocked, todo)
  <2>1. SafeSave(blocked, SaveDevice(d, row, as)) BY <1>2 DEF SafeSave, SaveDevice
  <2> QED BY <1>1, <1>2, <2>1
<1>3. ASSUME NEW name \in Names,
             \/ InitDevice(w, name)
             \/ \E o \in DOMAIN organizations : RegisterDevice(w, o, name)
             \/ \E a \in Users, o \in DOMAIN organizations : CreateDevice(w, a, o, name)
      PROVE  \E todo : Start(w, todo) /\ UNCHANGED fleet /\ SafePlan(blocked, todo)
  <2>1. ~ Quiet(blocked, Token)
    <3>1. blocked.now \subseteq Ids(Known) BY DEF DeskInv, FleetTables
    <3>2. Token \notin Ids(Known) BY LaterFacts DEF Ids
    <3> QED BY <3>1, <3>2 DEF Quiet
  <2>2. \E row : Call(w, <<SaveDevice(Token, row, "save")>>)
    BY <1>3 DEF InitDevice, RegisterDevice, CreateDevice
  <2> QED BY <1>2, <2>1, <2>2
<1>4. ASSUME NEW d \in DOMAIN devices, DeviceRequest(w, d)
      PROVE  \E todo : Start(w, todo) /\ UNCHANGED fleet /\ SafePlan(blocked, todo)
  <2>1. devices[d] \in DeviceRows(Known) BY DEF DeskInv, FleetTables, Table
  <2>2. Quiet(blocked, d) => ~ devices[d].active BY DEF BlockInv
  <2>3. ASSUME NEW row, row.active = devices[d].active \/ ~ row.active, Call(w, <<SaveDevice(d, row, "save")>>)
        PROVE  \E todo : Start(w, todo) /\ UNCHANGED fleet /\ SafePlan(blocked, todo)
    BY <1>2, <2>2, <2>3
  <2>4. ASSUME NEW s, Call(w, <<s>>), s.do # "device"
        PROVE  \E todo : Start(w, todo) /\ UNCHANGED fleet /\ SafePlan(blocked, todo)
    BY <2>4, OneSafe
  <2>5. CASE LogoutDevice(w, d)
    <3> DEFINE row == [devices[d] EXCEPT !.active = FALSE]
    <3>1. ~ row.active BY <2>1 DEF DeviceRows
    <3>2. Call(w, <<SaveDevice(d, row, "save")>>) BY <2>5 DEF LogoutDevice
    <3> HIDE DEF row
    <3> QED BY <2>3, <3>1, <3>2
  <2>6. CASE \/ ClearActiveUser(w, d) \/ ResolveClient(w, d) \/ \E pin \in Pins : VerifyPin(w, d, pin)
             \/ \E a \in Users : RemoveDevice(w, a, d) \/ ClearActiveUserAsAdmin(w, a, d)
    <3>1. ASSUME NEW server, Call(w, <<[do |-> "couple", id |-> d, server |-> server]>>)
          PROVE  \E todo : Start(w, todo) /\ UNCHANGED fleet /\ SafePlan(blocked, todo)
      BY <2>4, <3>1
    <3>2. ASSUME NEW do \in {"client", "dropDevice"}, Call(w, <<[do |-> do, id |-> d]>>)
          PROVE  \E todo : Start(w, todo) /\ UNCHANGED fleet /\ SafePlan(blocked, todo)
      BY <2>4, <3>2
    <3>3. \/ \E server : Call(w, <<[do |-> "couple", id |-> d, server |-> server]>>)
          \/ \E do \in {"client", "dropDevice"} : Call(w, <<[do |-> do, id |-> d]>>)
      <4>1. CASE ClearActiveUser(w, d) BY <4>1 DEF ClearActiveUser
      <4>2. CASE ResolveClient(w, d) BY <4>2 DEF ResolveClient
      <4>3. CASE \E pin \in Pins : VerifyPin(w, d, pin) BY <4>3 DEF VerifyPin
      <4>4. CASE \E a \in Users : RemoveDevice(w, a, d) BY <4>4 DEF RemoveDevice
      <4>5. CASE \E a \in Users : ClearActiveUserAsAdmin(w, a, d) BY <4>5 DEF ClearActiveUserAsAdmin
      <4> QED BY <2>6, <4>1, <4>2, <4>3, <4>4, <4>5
    <3> QED BY <3>1, <3>2, <3>3
  <2>7. ASSUME NEW a \in Users, NEW o \in DOMAIN organizations, NEW name \in Names, LinkDevice(w, a, o, d, name)
        PROVE  \E todo : Start(w, todo) /\ UNCHANGED fleet /\ SafePlan(blocked, todo)
    <3>1. PICK client : Call(w, <<SaveDevice(d, [devices[d] EXCEPT !.org = o, !.name = name, !.status = "verified",
                                                 !.code = None, !.client = client], "save")>>)
      BY <2>7 DEF LinkDevice
    <3> DEFINE row == [devices[d] EXCEPT !.org = o, !.name = name, !.status = "verified", !.code = None, !.client = client]
    <3>2. row.active = devices[d].active BY <2>1 DEF DeviceRows
    <3>3. Call(w, <<SaveDevice(d, row, "save")>>) BY <3>1
    <3> HIDE DEF row
    <3> QED BY <2>3, <3>2, <3>3
  <2>8. ASSUME NEW a \in Users, NEW name \in Names, NEW settings \in BOOLEAN,
               NEW active \in {devices[d].active, TRUE, FALSE}, UpdateDevice(w, a, d, name, settings, active)
        PROVE  \E todo : Start(w, todo) /\ UNCHANGED fleet /\ SafePlan(blocked, todo)
    <3> DEFINE row == [devices[d] EXCEPT !.name = name, !.client = IF settings THEN None ELSE @, !.active = active]
    <3>1. row.active = active BY <2>1 DEF DeviceRows
    <3>2. Call(w, <<SaveDevice(d, row, IF active THEN "admit" ELSE "save")>>) BY <2>8 DEF UpdateDevice
    <3> HIDE DEF row
    <3>3. CASE active BY <1>2, <3>2, <3>3
    <3>4. CASE ~ active BY <1>2, <3>1, <3>2, <3>4
    <3> QED BY <3>3, <3>4
  <2>9. ASSUME NEW a \in Users, VerifyDevice(w, a, d)
        PROVE  \E todo : Start(w, todo) /\ UNCHANGED fleet /\ SafePlan(blocked, todo)
    <3> DEFINE row == [devices[d] EXCEPT !.status = "verified", !.code = None]
    <3>1. row.active = devices[d].active BY <2>1 DEF DeviceRows
    <3>2. Call(w, <<SaveDevice(d, row, "save")>>) BY <2>9 DEF VerifyDevice
    <3> HIDE DEF row
    <3> QED BY <2>3, <3>1, <3>2
  <2>10. ASSUME NEW a \in Users, RegenerateToken(w, a, d)
         PROVE  \E todo : Start(w, todo) /\ UNCHANGED fleet /\ SafePlan(blocked, todo)
    BY <2>3, <2>10 DEF RegenerateToken
  <2>11. ASSUME NEW a \in Users, BlockDevice(w, a, d)
         PROVE  \E todo : Start(w, todo) /\ UNCHANGED fleet /\ SafePlan(blocked, todo)
    <3> DEFINE row == [devices[d] EXCEPT !.status = "blocked", !.active = FALSE]
    <3>1. ~ row.active BY <2>1 DEF DeviceRows
    <3>2. Call(w, <<SaveDevice(d, row, "block")>>) BY <2>11 DEF BlockDevice
    <3> HIDE DEF row
    <3> QED BY <1>2, <3>1, <3>2
  <2>12. ASSUME NEW a \in Users, UnblockDevice(w, a, d)
         PROVE  \E todo : Start(w, todo) /\ UNCHANGED fleet /\ SafePlan(blocked, todo)
    <3> DEFINE row == [devices[d] EXCEPT !.status = "verified", !.active = TRUE]
    <3>1. Call(w, <<SaveDevice(d, row, "admit")>>) BY <2>12 DEF UnblockDevice
    <3> HIDE DEF row
    <3> QED BY <1>2, <3>1
  <2> QED BY <1>4, <2>5, <2>6, <2>7, <2>8, <2>9, <2>10, <2>11, <2>12 DEF DeviceRequest
<1>5. ASSUME NEW a \in Users, NEW m \in DOMAIN members,
             RemoveMemberPin(w, a, m) \/ \E pin \in Pins : SetMemberPin(w, a, m, pin)
      PROVE  \E todo : Start(w, todo) /\ UNCHANGED fleet /\ SafePlan(blocked, todo)
  <2>1. \E row : Call(w, <<SaveMember(m, row, "update")>>) BY <1>5 DEF RemoveMemberPin, SetMemberPin
  <2>2. \A row : SaveMember(m, row, "update").do # "device" BY DEF SaveMember
  <2> QED BY <2>1, <2>2, OneSafe
<1> QED BY <1>3, <1>4, <1>5 DEF FleetRequest

\* Of what kinds the statements are that leave the devices alone.
LEMMA KindsOfBench == ASSUME NEW k, NEW s \in BenchSteps(k) PROVE s.do \in DeskKinds
<1> USE DEF DeskKinds
<1>1. CASE s \in HardwareSaves(k) \cup Frees(k) \cup HardwareDrops(k) \cup RentalSaves(k)
  BY <1>1 DEF HardwareSaves, Frees, HardwareDrops, RentalSaves
<1>2. CASE s \in PrinterSaves(k) \cup PrinterDrops(k) \cup Moves(k)
  BY <1>2 DEF PrinterSaves, PrinterDrops, Moves
<1>3. CASE s \in [do : {"dropPrintersOf", "release", "unassign"}, id : Ids(k), about : SUBSET Ids(k)] BY <1>3
<1>4. CASE s \in [do : {"sync"}, id : Ids(k), org : Opt(Orgs), local : Locals, about : SUBSET Ids(k)] BY <1>4
<1> QED BY <1>1, <1>2, <1>3, <1>4 DEF BenchSteps

\* So does the desk.
LEMMA SafeDeskRequests ==
  ASSUME DeskInv, BlockInv, NEW w \in Workers, DeskRequest(w) \/ PrinterRequest(w)
  PROVE  \E todo : Start(w, todo) /\ UNCHANGED fleet /\ SafePlan(blocked, todo)
<1>1. ASSUME NEW n \in 0 .. 2, NEW todo, BenchPlan(w, n, todo)
      PROVE  \E t : Start(w, t) /\ UNCHANGED fleet /\ SafePlan(blocked, t)
  <2>1. todo \in Seq(BenchSteps(Later(n))) /\ Start(w, todo) /\ UNCHANGED fleet
    BY <1>1 DEF BenchPlan, Serve, Call, Ask, Reply
  <2>2. \A i \in DOMAIN todo : todo[i].do # "device" BY <2>1, KindsOfBench DEF DeskKinds
  <2> QED BY <2>1, <2>2 DEF SafePlan
<1>2. ASSUME NEW d \in DOMAIN devices, NEW o \in DOMAIN organizations, AssignPrinterDevice(w, d, o)
      PROVE  \E t : Start(w, t) /\ UNCHANGED fleet /\ SafePlan(blocked, t)
  <2> DEFINE row == [devices[d] EXCEPT !.org = o, !.status = "verified"]
             taken == SaveDevice(d, row, "save")
  <2>1. devices[d] \in DeviceRows(Known) BY DEF DeskInv, FleetTables, Table
  <2>2. row.active = devices[d].active BY <2>1 DEF DeviceRows
  <2>3. \E p, kept : Serve(w, <<SavePrinter(p, kept), taken>>) BY <1>2 DEF AssignPrinterDevice
  <2>4. PICK p, kept : Serve(w, <<SavePrinter(p, kept), taken>>) BY <2>3
  <2>5. SafeSave(blocked, taken) /\ taken.as = "save" BY <2>2 DEF SafeSave, SaveDevice, BlockInv
  <2>6. SavePrinter(p, kept).do = "printer" BY DEF SavePrinter
  <2> DEFINE first == SavePrinter(p, kept)
  <2> HIDE DEF taken, first
  <2>7. SafePlan(blocked, <<first, taken>>)
    <3> DEFINE t == <<first, taken>>
    <3>1. DOMAIN t = 1 .. 2 /\ t[1] = first /\ t[2] = taken OBVIOUS
    <3>2. first.do # "device" BY <2>6 DEF first
    <3> HIDE DEF t
    <3>3. \A i \in DOMAIN t : t[i].do = "device" => SafeSave(blocked, t[i]) /\ t[i].as = "save" BY <2>5, <3>1, <3>2
    <3>4. SafePlan(blocked, t) BY <3>3 DEF SafePlan
    <3> QED BY <3>4 DEF t
  <2>8. Start(w, <<first, taken>>) /\ UNCHANGED fleet BY <2>4 DEF Serve, Call, Ask, Reply, first
  <2> QED BY <2>7, <2>8
<1>3. ASSUME NEW d \in DOMAIN devices, DeleteDevice(w, d)
      PROVE  \E t : Start(w, t) /\ UNCHANGED fleet /\ SafePlan(blocked, t)
  <2> DEFINE s == [do |-> "dropPrintersOf", id |-> d, about |-> {}]
             t == [do |-> "dropDevice", id |-> d]
  <2>1. Start(w, <<s, t>>) /\ UNCHANGED fleet BY <1>3 DEF DeleteDevice, Serve, Call, Ask, Reply
  <2>2. s.do # "device" /\ t.do # "device" OBVIOUS
  <2> HIDE DEF s, t
  <2>3. SafePlan(blocked, <<s, t>>) BY <2>2 DEF SafePlan
  <2> QED BY <2>1, <2>3
<1>4. ASSUME NEW d \in DOMAIN devices, NEW list \in Lists, SyncFromAgent(w, d, list)
      PROVE  \E t : Start(w, t) /\ UNCHANGED fleet /\ SafePlan(blocked, t)
  <2> DEFINE s(i) == [do |-> "sync", id |-> d, org |-> devices[d].org, local |-> list[i], about |-> {}]
             todo == [i \in DOMAIN list |-> s(i)]
  <2>1. Start(w, todo) /\ UNCHANGED fleet BY <1>4 DEF SyncFromAgent, Serve, Call, Ask, Reply
  <2>2. \A i : s(i).do = "sync" OBVIOUS
  <2> HIDE DEF s
  <2>3. \A i \in DOMAIN todo : todo[i].do # "device" BY <2>2
  <2>4. SafePlan(blocked, todo) BY <2>3 DEF SafePlan
  <2> QED BY <2>1, <2>4
<1>5. CASE DeskRequest(w)
  <2>1. CASE \E r \in DOMAIN rentals :
               \/ ActivateRental(w, r) \/ ReturnRental(w, r)
               \/ \E a \in Users : ConfirmAssignment(w, a, r) \/ DeclineAssignment(w, a, r)
    BY <1>1, <2>1, RentalRequests
  <2>2. CASE \/ CreateRentalHardware(w)
             \/ \E h \in DOMAIN hardware :
                  \/ \E status \in {hardware[h].status, "available", "maintenance"}, d \in {hardware[h].device} \cup DOMAIN devices :
                       UpdateRentalHardware(w, h, status, d)
                  \/ DeleteRentalHardware(w, h)
                  \/ \E o \in DOMAIN organizations : CreateRentalAssignment(w, h, o)
    BY <1>1, <2>2, HardwareRequests
  <2> QED BY <1>5, <2>1, <2>2 DEF DeskRequest
<1>6. CASE PrinterRequest(w)
  <2>1. CASE \E d \in DOMAIN devices :
               \/ \E o \in DOMAIN organizations : AssignPrinterDevice(w, d, o)
               \/ DeleteDevice(w, d) \/ \E list \in Lists : SyncFromAgent(w, d, list)
    BY <1>2, <1>3, <1>4, <2>1
  <2>2. CASE \/ \E p \in DOMAIN printers :
                  \/ UnassignPrinter(w, p) \/ UpdatePrinterAdmin(w, p)
                  \/ \E a \in Users : RemovePrinter(w, a, p) \/ \E d \in DOMAIN devices \cup {None} : UpdatePrinter(w, a, p, d)
             \/ \E a \in Users, o \in DOMAIN organizations, d \in DOMAIN devices \cup {None} : CreatePrinter(w, a, o, d)
    BY <1>1, <2>2, PrinterRequests
  <2> QED BY <1>6, <2>1, <2>2 DEF PrinterRequest
<1> QED BY <1>5, <1>6


\* The last statement of a plan.
LEMMA LastStatement == ASSUME NEW S, NEW t \in Seq(S), Len(t) = 1 PROVE Tail(t) = <<>>
<1>1. t # <<>> OBVIOUS
<1>2. Tail(t) \in Seq(S) /\ Len(Tail(t)) = 0 BY <1>1, HeadTailProperties
<1> QED BY <1>2, EmptySeq

\* A device is saved: one that is blocked by it is quiet when nobody else saves it.
LEMMA StoreDeviceSafe == ASSUME DeskInv, BlockInv, NEW w \in Workers, StoreDevice(w) PROVE BlockInv'
<1>1. /\ task[w] # Idle /\ Now(w).do = "device" /\ Done(w) /\ devices' = With(devices, Now(w).id, Now(w).row)
      /\ blocked'.now = CASE Now(w).as = "block" -> blocked.now \cup {Now(w).id}
                          [] Now(w).as = "admit" -> blocked.now \ {Now(w).id}
                          [] OTHER -> blocked.now
      /\ blocked'.raced = blocked.raced \cup (IF \E v \in Busy \ {w} : Saves(v, Now(w).id) THEN {Now(w).id} ELSE {})
  BY DEF StoreDevice, At
<1>2. Now(w) \in DeviceSaves(Known) BY <1>1, Statement, KindsOfFleet DEF FleetKinds
<1>3. Now(w).as \in {"save", "admit", "block"} BY <1>2 DEF DeviceSaves
<1>4. \E S : task[w] \in Seq(S)
  <2>1. task[w] \in Plans(Known) BY DEF DeskInv
  <2> QED BY <2>1 DEF Plans
<1>5. PICK S : task[w] \in Seq(S) BY <1>4
<1>6. 1 \in DOMAIN task[w] /\ Now(w) = task[w][1] /\ task[w] # <<>> BY <1>1, <1>5 DEF Now, Idle
<1>7. SafeSave(blocked, Now(w)) /\ (Now(w).as = "block" => Len(task[w]) = 1) BY <1>1, <1>6 DEF BlockInv, SafePlan
<1>8. Now(w).as = "block" => Tail(task[w]) = <<>> BY <1>5, <1>7, LastStatement
<1>9. DOMAIN task = Workers BY DEF DeskInv, RequestsOK
<1>10. \A e : Quiet(blocked', e) =>
         \/ e # Now(w).id /\ Quiet(blocked, e)
         \/ /\ e = Now(w).id /\ (Now(w).as = "block" \/ (Quiet(blocked, e) /\ Now(w).as = "save"))
            /\ ~ \E v \in Busy \ {w} : Saves(v, Now(w).id)
  BY <1>1, <1>3 DEF Quiet
<1>11. Quiet(blocked', Now(w).id) => ~ Now(w).row.active
  <2>1. Quiet(blocked, Now(w).id) /\ Now(w).as = "save" => ~ Now(w).row.active BY <1>7 DEF SafeSave
  <2>2. Now(w).as = "block" => ~ Now(w).row.active BY <1>7 DEF SafeSave
  <2> QED BY <1>10, <2>1, <2>2
<1>12. \A e \in DOMAIN devices' : Quiet(blocked', e) => ~ devices'[e].active
  BY <1>1, <1>10, <1>11 DEF With, BlockInv
<1>13. ASSUME NEW v \in Workers, NEW i \in DOMAIN task'[v], task'[v][i].do = "device"
       PROVE  SafeSave(blocked', task'[v][i]) /\ (task'[v][i].as = "block" => Len(task'[v]) = 1)
  <2>1. SafeSave(blocked, task'[v][i]) /\ (task'[v][i].as = "block" => Len(task'[v]) = 1)
    <3>1. Shorter(task'[v], task[v]) BY <1>1, <1>9 DEF Done, Shorter
    <3>2. CASE task'[v] = task[v] BY <1>13, <3>2 DEF BlockInv, SafePlan
    <3>3. CASE /\ task[v] # Idle /\ task'[v] = Tail(task[v]) /\ Len(task[v]) > 1
               /\ i + 1 \in DOMAIN task[v] /\ task'[v][i] = task[v][i + 1]
      BY <1>13, <3>3 DEF BlockInv, SafePlan
    <3> QED BY <3>1, <3>2, <3>3, Remains
  <2>2. Quiet(blocked', task'[v][i].id) => Quiet(blocked, task'[v][i].id)
    <3>1. ASSUME task'[v][i].id = Now(w).id, Now(w).as = "block", ~ \E u \in Busy \ {w} : Saves(u, Now(w).id)
          PROVE  FALSE
      <4>1. v # w
        <5>1. task'[w] = <<>> BY <1>1, <1>8, <1>9, <3>1 DEF Done
        <5> QED BY <1>13, <5>1
      <4>2. task'[v] = task[v] BY <1>1, <1>9, <4>1 DEF Done
      <4>3. task[v] # Idle BY <1>13, <4>2 DEF Idle
      <4>4. v \in Busy \ {w} BY <4>1, <4>3 DEF Busy
      <4>5. Saves(v, Now(w).id) BY <1>13, <3>1, <4>2 DEF Saves
      <4> QED BY <3>1, <4>4, <4>5
    <3> QED BY <1>10, <3>1
  <2> QED BY <2>1, <2>2 DEF SafeSave
<1>14. \A v \in Workers : SafePlan(blocked', task'[v]) BY <1>13 DEF SafePlan
<1> QED BY <1>12, <1>14 DEF BlockInv

\* A step that makes no device quiet and gives nobody a device to save.
LEMMA NothingQuieter ==
  ASSUME DeskInv, BlockInv, NEW K, "device" \notin K, Adds(K), \A d : Quiet(blocked', d) => Quiet(blocked, d),
         \A d \in DOMAIN devices' : Quiet(blocked', d) => ~ devices'[d].active
  PROVE  BlockInv'
<1>1. \A v \in Workers : SafePlan(blocked', task'[v]) BY SafeStays
<1> QED BY <1>1 DEF BlockInv

\* Columns are set, a device loses its organization, or it is dropped.
LEMMA SetColumnsSafe ==
  ASSUME DeskInv, BlockInv, NEW w \in Workers,
         SetColumns(w) \/ DropDevice(w) \/ (MoveDevice(w) /\ Now(w).do = "release")
  PROVE  BlockInv'
<1>1. \A d \in DOMAIN devices : devices[d] \in DeviceRows(Known) BY DEF DeskInv, FleetTables, Table
<1>2. ASSUME NEW d \in DOMAIN devices, NEW row, row.active = devices[d].active, UNCHANGED blocked,
             devices' = With(devices, d, row)
      PROVE  \A e \in DOMAIN devices' : Quiet(blocked', e) => ~ devices'[e].active
  BY <1>2 DEF With, BlockInv
<1>3. ASSUME UNCHANGED <<devices, blocked>>
      PROVE  \A e \in DOMAIN devices' : Quiet(blocked', e) => ~ devices'[e].active
  BY <1>3 DEF BlockInv
<1>4. CASE SetColumns(w)
  <2>1. /\ task[w] # Idle /\ Done(w) /\ UNCHANGED blocked
        /\ \/ devices' = devices
           \/ /\ Now(w).id \in DOMAIN devices
              /\ \/ devices' = With(devices, Now(w).id, [devices[Now(w).id] EXCEPT !.server = Now(w).server])
                 \/ devices' = With(devices, Now(w).id, [devices[Now(w).id] EXCEPT !.client = Now(w).id])
    BY <1>4 DEF SetColumns, At
  <2>2. \A e \in DOMAIN devices' : Quiet(blocked', e) => ~ devices'[e].active
    <3>1. ASSUME NEW d \in DOMAIN devices, NEW x, devices' = With(devices, d, [devices[d] EXCEPT !.server = x])
          PROVE  \A e \in DOMAIN devices' : Quiet(blocked', e) => ~ devices'[e].active
      <4> DEFINE row == [devices[d] EXCEPT !.server = x]
      <4>1. row.active = devices[d].active BY <1>1 DEF DeviceRows
      <4>2. devices' = With(devices, d, row) BY <3>1
      <4> HIDE DEF row
      <4> QED BY <1>2, <2>1, <4>1, <4>2
    <3>2. ASSUME NEW d \in DOMAIN devices, NEW x, devices' = With(devices, d, [devices[d] EXCEPT !.client = x])
          PROVE  \A e \in DOMAIN devices' : Quiet(blocked', e) => ~ devices'[e].active
      <4> DEFINE row == [devices[d] EXCEPT !.client = x]
      <4>1. row.active = devices[d].active BY <1>1 DEF DeviceRows
      <4>2. devices' = With(devices, d, row) BY <3>2
      <4> HIDE DEF row
      <4> QED BY <1>2, <2>1, <4>1, <4>2
    <3> QED BY <1>3, <2>1, <3>1, <3>2
  <2>3. Adds({}) BY <2>1, StatementAdds
  <2> QED BY <2>1, <2>2, <2>3, NothingQuieter
<1>5. CASE DropDevice(w)
  <2>1. /\ task[w] # Idle /\ Done(w) /\ devices' = Without(devices, Now(w).id)
        /\ blocked' = [blocked EXCEPT !.now = @ \ {Now(w).id}]
    BY <1>5 DEF DropDevice, At
  <2>2. blocked \in [now : SUBSET Ids(Known), raced : SUBSET Ids(Known)] BY DEF DeskInv, FleetTables
  <2>3. \A d : Quiet(blocked', d) => Quiet(blocked, d) BY <2>1, <2>2 DEF Quiet
  <2>4. \A e \in DOMAIN devices' : Quiet(blocked', e) => ~ devices'[e].active BY <2>1, <2>3 DEF Without, BlockInv
  <2>5. Adds({}) BY <2>1, StatementAdds
  <2> QED BY <2>3, <2>4, <2>5, NothingQuieter
<1>6. CASE MoveDevice(w) /\ Now(w).do = "release"
  <2> DEFINE row == [devices[Now(w).id] EXCEPT !.org = None]
  <2>1. /\ task[w] # Idle /\ Done(w) /\ UNCHANGED blocked
        /\ \/ devices' = devices
           \/ Now(w).id \in DOMAIN devices /\ devices' = With(devices, Now(w).id, row)
    BY <1>6 DEF MoveDevice, At
  <2>2. Now(w).id \in DOMAIN devices => row.active = devices[Now(w).id].active BY <1>1 DEF DeviceRows
  <2> HIDE DEF row
  <2>3. \A e \in DOMAIN devices' : Quiet(blocked', e) => ~ devices'[e].active BY <1>2, <1>3, <2>1, <2>2
  <2>4. Adds({}) BY <2>1, StatementAdds
  <2> QED BY <2>1, <2>3, <2>4, NothingQuieter
<1> QED BY <1>4, <1>5, <1>6

\* A device goes to an organization as it is now.
LEMMA MoveSafe ==
  ASSUME DeskInv, BlockInv, NEW w \in Workers, MoveDevice(w), Now(w).do = "move"
  PROVE  BlockInv'
<1> DEFINE row == [devices[Now(w).id] EXCEPT !.org = Now(w).org]
           save == SaveDevice(Now(w).id, row, "save")
           todo == IF Now(w).id \in DOMAIN devices THEN <<save>> \o Now(w).rest ELSE <<>>
           k == Known
           S == DeskSteps(k) \cup {save}
           G == {s \in S : s.do = "device" => SafeSave(blocked, s) /\ s.as # "block"}
<1>1. task[w] # Idle /\ UNCHANGED fleet /\ Then(w, todo) BY DEF MoveDevice, At
<1>2. Now(w) \in DeskSteps(k) /\ task[w] \in Seq(DeskSteps(k)) BY <1>1, Statement DEF DeskKinds
<1>3. Now(w).rest \in Seq(PrinterSaves(k)) BY <1>2, KindsOfDesk DEF Moves
<1>4. UNCHANGED devices /\ UNCHANGED blocked /\ DOMAIN task = Workers BY <1>1 DEF fleet, DeskInv, RequestsOK
<1>5. Now(w).id \in DOMAIN devices => save \in G
  <2>1. Now(w).id \in DOMAIN devices => row.active = devices[Now(w).id].active
    BY DEF DeskInv, FleetTables, Table, DeviceRows
  <2> HIDE DEF row
  <2>2. Now(w).id \in DOMAIN devices => SafeSave(blocked, save)
    BY <2>1 DEF SafeSave, SaveDevice, BlockInv
  <2>3. save.as # "block" BY DEF SaveDevice
  <2> HIDE DEF save
  <2> QED BY <2>2, <2>3
<1> HIDE DEF save, k
<1>6. todo \in Seq(G)
  <2>1. PrinterSaves(k) \subseteq G BY DEF DeskSteps, BenchSteps, PrinterSaves
  <2>2. Now(w).rest \in Seq(G) BY <1>3, <2>1, SeqGrows
  <2> HIDE DEF G
  <2>3. CASE Now(w).id \in DOMAIN devices
    <3>1. <<save>> \in Seq(G) BY <1>5, <2>3
    <3>2. <<save>> \o Now(w).rest \in Seq(G) BY <2>2, <3>1, ConcatProperties
    <3> QED BY <2>3, <3>2
  <2> QED BY <2>3
<1>7. Tail(task[w]) \in Seq(G)
  <2>1. Tail(task[w]) \in Seq(DeskSteps(k)) /\ task[w] # <<>> BY <1>1, <1>2, HeadTailProperties DEF Idle
  <2>2. ASSUME NEW i \in DOMAIN Tail(task[w]) PROVE Tail(task[w])[i] \in G
    <3>1. Len(Tail(task[w])) = Len(task[w]) - 1 /\ Len(task[w]) \in Nat /\ DOMAIN Tail(task[w]) = 1 .. Len(Tail(task[w]))
      BY <1>2, <2>1, HeadTailProperties, LenProperties
    <3>2. Tail(task[w])[i] = task[w][i + 1] /\ i + 1 \in 1 .. Len(task[w]) /\ Len(task[w]) > 1
      BY <1>2, <2>1, <3>1, HeadTailProperties
    <3>3. i + 1 \in DOMAIN task[w] BY <1>2, <3>2, LenProperties
    <3>4. Tail(task[w])[i] \in DeskSteps(k) BY <1>2, <3>2, <3>3, LenProperties
    <3>5. SafePlan(blocked, task[w]) BY DEF BlockInv
    <3>6. Tail(task[w])[i].do = "device" => SafeSave(blocked, Tail(task[w])[i]) /\ Tail(task[w])[i].as # "block"
      BY <3>2, <3>3, <3>5 DEF SafePlan
    <3> QED BY <3>4, <3>6
  <2> HIDE DEF G
  <2> DEFINE t == Tail(task[w])
  <2>3. t \in Seq(DeskSteps(k)) /\ \A i \in DOMAIN t : t[i] \in G BY <2>1, <2>2
  <2> HIDE DEF t
  <2>4. t \in Seq(G) BY <2>3
  <2> QED BY <2>4 DEF t
<1>8. SafePlan(blocked, todo \o Tail(task[w]))
  <2> DEFINE t == todo \o Tail(task[w])
  <2> HIDE DEF todo
  <2>1. t \in Seq(G) BY <1>6, <1>7, ConcatProperties
  <2> HIDE DEF t
  <2>2. \A i \in DOMAIN t : t[i] \in G BY <2>1
  <2>3. SafePlan(blocked, t) BY <2>2 DEF SafePlan
  <2> QED BY <2>3 DEF t
<1>9. \A v \in Workers : task'[v] = IF v = w THEN todo \o Tail(task[w]) ELSE task[v] BY <1>1, <1>4 DEF Then
<1>10. \A v \in Workers : SafePlan(blocked, task'[v])
  <2> HIDE DEF todo
  <2> QED BY <1>8, <1>9 DEF BlockInv
<1> QED BY <1>4, <1>10 DEF BlockInv

\* One statement takes the place of the first.
LEMMA InPlace ==
  ASSUME NEW S, NEW t \in Seq(S), t # <<>>, NEW s
  PROVE  /\ Len(<<s>> \o Tail(t)) = Len(t) /\ DOMAIN (<<s>> \o Tail(t)) = DOMAIN t
         /\ \A i \in DOMAIN t : (<<s>> \o Tail(t))[i] = IF i = 1 THEN s ELSE t[i]
<1> DEFINE R == S \cup {s}
           one == <<s>>
           u == Tail(t)
<1>1. t \in Seq(R) /\ one \in Seq(R) /\ Len(one) = 1 /\ one[1] = s BY SeqGrows
<1> HIDE DEF R, one
<1>2. /\ u \in Seq(R) /\ Len(u) = Len(t) - 1 /\ Len(t) \in Nat \ {0} /\ DOMAIN t = 1 .. Len(t)
      /\ \A i \in 1 .. Len(u) : u[i] = t[i + 1]
  BY <1>1, HeadTailProperties, EmptySeq, LenProperties
<1> HIDE DEF u
<1>3. /\ one \o u \in Seq(R) /\ Len(one \o u) = Len(one) + Len(u)
      /\ \A i \in 1 .. (Len(one) + Len(u)) : (one \o u)[i] = IF i <= Len(one) THEN one[i] ELSE u[i - Len(one)]
  BY <1>1, <1>2, ConcatProperties
<1>4. Len(one \o u) = Len(t) /\ DOMAIN (one \o u) = 1 .. Len(t) BY <1>1, <1>2, <1>3, LenProperties
<1>5. ASSUME NEW i \in 1 .. Len(t) PROVE (one \o u)[i] = IF i = 1 THEN s ELSE t[i]
  <2>1. CASE i = 1 BY <1>1, <1>2, <1>3, <2>1
  <2>2. CASE i # 1
    <3>1. i - 1 \in 1 .. Len(u) /\ (one \o u)[i] = u[i - 1] BY <1>1, <1>2, <1>3, <2>2
    <3>2. u[i - 1] = t[(i - 1) + 1] /\ (i - 1) + 1 = i BY <1>2, <3>1
    <3> QED BY <2>2, <3>1, <3>2
  <2> QED BY <2>1, <2>2
<1> QED BY <1>2, <1>4, <1>5 DEF one, u

\* What an agent reports leads to a printer that is saved.
LEMMA SyncSafe == ASSUME DeskInv, BlockInv, NEW w \in Workers, SyncPrinter(w) PROVE BlockInv'
<1>1. /\ task[w] # Idle /\ Now(w).do = "sync" /\ UNCHANGED fleet
      /\ \E p, row : Then(w, <<SavePrinter(p, row)>>)
  BY DEF SyncPrinter, At
<1>2. PICK p, row : Then(w, <<SavePrinter(p, row)>>) BY <1>1
<1> DEFINE s == SavePrinter(p, row)
<1>3. s.do = "printer" BY DEF SavePrinter
<1>4. Then(w, <<s>>) BY <1>2
<1> HIDE DEF s
<1>5. task[w] \in Seq(DeskSteps(Known)) /\ task[w] # <<>> BY <1>1, Statement DEF DeskKinds, Idle
<1>6. SafePlan(blocked, <<s>> \o Tail(task[w]))
  <2> DEFINE t == <<s>> \o Tail(task[w])
  <2>1. Len(t) = Len(task[w]) /\ DOMAIN t = DOMAIN task[w] /\ \A i \in DOMAIN t : t[i] = IF i = 1 THEN s ELSE task[w][i]
    BY <1>5, InPlace
  <2> HIDE DEF t
  <2>2. SafePlan(blocked, task[w]) BY DEF BlockInv
  <2>3. SafePlan(blocked, t) BY <1>3, <2>1, <2>2 DEF SafePlan
  <2> QED BY <2>3 DEF t
<1>7. DOMAIN task = Workers /\ UNCHANGED devices /\ UNCHANGED blocked BY <1>1 DEF DeskInv, RequestsOK, fleet
<1>8. \A v \in Workers : task'[v] = IF v = w THEN <<s>> \o Tail(task[w]) ELSE task[v] BY <1>4, <1>7 DEF Then
<1> QED BY <1>6, <1>7, <1>8 DEF BlockInv

\* Every step leaves who is blocked outside.
LEMMA BlockKeeps == ASSUME DeskInv, BlockInv, [Next]_vars PROVE BlockInv'
<1>1. ASSUME NEW K, "device" \notin K, Adds(K), UNCHANGED fleet PROVE BlockInv'
  <2>1. UNCHANGED devices /\ UNCHANGED blocked BY <1>1 DEF fleet
  <2>2. \A d \in DOMAIN devices' : Quiet(blocked', d) => ~ devices'[d].active BY <2>1 DEF BlockInv
  <2> QED BY <1>1, <2>1, <2>2, NothingQuieter
<1>2. CASE UNCHANGED vars
  <2>1. Adds({}) /\ UNCHANGED fleet BY <1>2, StepAdds DEF vars
  <2> QED BY <1>1, <2>1
<1>3. CASE Elsewhere
  <2>1. CASE MembershipsNext /\ UNCHANGED fleet
    <3>1. CASE AccountsNext
      <4>1. "device" \notin AccountKinds BY DEF AccountKinds
      <4> QED BY <1>1, <2>1, <3>1, <4>1, StepAdds
    <3>2. ASSUME NEW w \in Workers, NEW a \in Users, CompanyRequest(w, a) PROVE BlockInv'
      <4>1. "device" \notin CompanyKinds \cup {"user", "revokeAll"} BY DEF CompanyKinds
      <4> QED BY <1>1, <2>1, <3>2, <4>1, StepAdds
    <3>3. ASSUME NEW w \in Workers, CompanyStep(w) PROVE BlockInv' BY <1>1, <2>1, <3>3, StepAdds
    <3> QED BY <2>1, <3>1, <3>2, <3>3 DEF MembershipsNext
  <2>2. ASSUME NEW w \in Workers, FleetRequest(w) PROVE BlockInv'
    BY <2>2, SafeFleetRequests, SafeStarts
  <2>3. ASSUME NEW w \in Workers, StoreDevice(w) \/ SetColumns(w) \/ DropDevice(w) PROVE BlockInv'
    BY <2>3, StoreDeviceSafe, SetColumnsSafe
  <2> QED BY <1>3, <2>1, <2>2, <2>3 DEF Elsewhere, FleetNext
<1>4. ASSUME NEW w \in Workers, DeskRequest(w) \/ PrinterRequest(w) PROVE BlockInv'
  BY <1>4, SafeDeskRequests, SafeStarts
<1>5. ASSUME NEW w \in Workers, DeskStep(w) PROVE BlockInv'
  <2>1. CASE StoreHardware(w) \/ StoreRental(w) \/ StorePrinter(w) \/ RemovePrinters(w)
    <3>1. UNCHANGED fleet BY <2>1 DEF StoreHardware, StoreRental, StorePrinter, RemovePrinters
    <3>2. Adds({}) BY <2>1, StepAdds
    <3> QED BY <1>1, <3>1, <3>2
  <2>2. CASE MoveDevice(w)
    <3>1. Now(w).do = "move" \/ Now(w).do = "release" BY <2>2 DEF MoveDevice, At
    <3> QED BY <2>2, <3>1, MoveSafe, SetColumnsSafe
  <2> QED BY <1>5, <2>1, <2>2, SyncSafe DEF DeskStep
<1> QED BY <1>2, <1>3, <1>4, <1>5 DEF Next

\* A verified device belongs to an organization there is, except one that the desk took
\* from its organization; and one that is blocked stays out, except one that another
\* request had read before and saved meanwhile (AdmittedBelongs), however linking,
\* logging out, lending and blocking overlap and wherever the process stops.
THEOREM BelongsWhoIsAdmitted == Spec => []AdmittedBelongs
<1>1. Init => BlockInv
  <2> SUFFICES ASSUME Init PROVE BlockInv OBVIOUS
  <2>1. DOMAIN devices = {} BY DEF Init, Empty
  <2>2. \A v \in Workers : SafePlan(blocked, task[v]) BY DEF Init, RequestsInit, Idle, SafePlan
  <2> QED BY <2>1, <2>2 DEF BlockInv
<1>2. DeskInv /\ BlockInv /\ [Next]_vars => BlockInv' BY BlockKeeps
<1>3. DeskInv /\ BlockInv => AdmittedBelongs
  <2>1. ASSUME DeskInv, BlockInv, NEW d \in DOMAIN devices, devices[d].status = "verified"
        PROVE  devices[d].org \in DOMAIN organizations \/ d \in desk.released
    BY <2>1 DEF DeskInv, FleetTables, Belongs, Known
  <2>2. ASSUME DeskInv, BlockInv, NEW d \in DOMAIN devices, Admitted(d)
        PROVE  d \notin blocked.now \ blocked.raced
    BY <2>2 DEF BlockInv, Admitted, Quiet
  <2> QED BY <2>1, <2>2 DEF AdmittedBelongs
<1> QED BY <1>1, <1>2, <1>3, DeskInOrder, PTL DEF Spec

-----------------------------------------------------------------------------
(* Hardware and rentals.  Deals are the rentals of a piece of hardware that are not   *)
(* over; between the two saves of an offer the hardware is about to be marked.  Rent- *)
(* Inv says what the statements still to be run may do about what is not loose.       *)

Deals(h) == {r \in DOMAIN rentals : rentals[r].hardware = h /\ rentals[r].status \in Live}
Lent(r) == r \in DOMAIN rentals /\ rentals[r].status \in {"confirmed", "active"}
Marks(v, h) == At(v, "hardware") /\ Now(v).id = h /\ Now(v).row.status = "rented"
Vacant(w, h) == Deals(h) = {} \/ \E v \in Workers \ {w} : Marks(v, h)

(* A rental is one of the same hardware wherever it is read or written.  *)
Lends(r, h) ==
  \/ r \in DOMAIN rentals /\ rentals[r].hardware = h
  \/ \E v \in Workers : \E i \in DOMAIN task[v] :
       task[v][i].do = "rental" /\ task[v][i].id = r /\ task[v][i].row.hardware = h
OneHardware == \A r, g, h : Lends(r, g) /\ Lends(r, h) => g = h

(* A new rental is saved first, and then its hardware; another one does not begin anew. *)
Renews(s) == s.id \in DOMAIN rentals /\ (s.row.status \in Live => rentals[s.id].status \in Live)
Opens(w, t) ==
  /\ t[1].id \notin DOMAIN rentals /\ Len(t) = 2
  /\ t[2].do = "hardware" /\ t[2].id = t[1].row.hardware /\ t[2].row.status = "rented"
  /\ Vacant(w, t[1].row.hardware)
RentalFits(w, t, i) == t[i].row.hardware \in desk.loose \/ Renews(t[i]) \/ (i = 1 /\ Opens(w, t))
SaveFits(w, s) == s.id \in desk.loose \/ s.byHand \/ s.row.status # "available" \/ Vacant(w, s.id)
Ends(t, r) == \E j \in DOMAIN t : t[j].do = "rental" /\ t[j].id = r /\ t[j].row.status \notin Live
FreeFits(t, i) ==
  t[i].id \in desk.loose \/ (i = Len(t) /\ (t[i].byHand \/ \A r \in Deals(t[i].id) : Ends(t, r)))

(* Printers are made for rentals that are agreed on, and removed before those end.  *)
Agreed(s) == s.row.rental = None \/ s.row.rental \in desk.loose \/ Lent(s.row.rental)
MoveFits(s) == \A j \in DOMAIN s.rest : Agreed(s.rest[j]) /\ s.rest[j].row.rental \in s.about \cup {None}
Undone(t) == IF t[1].do = "dropPrinters" THEN t[1].gone ELSE {}
EndFits(t, i) ==
  \/ t[i].id \in desk.loose \/ t[i].row.status \in {"confirmed", "active"}
  \/ MadeFor(t[i].id) \subseteq Undone(t) /\ \A j \in DOMAIN t : t[j].do \notin {"printer", "move", "sync"}

StatementFits(w, t, i) ==
  /\ t[i].do = "rental" => RentalFits(w, t, i) /\ EndFits(t, i)
  /\ t[i].do = "hardware" => SaveFits(w, t[i])
  /\ t[i].do = "free" => FreeFits(t, i)
  /\ t[i].do = "dropHardware" => Len(t) = 1 /\ (t[i].id \in desk.loose \/ Deals(t[i].id) = {})
  /\ t[i].do = "printer" => Agreed(t[i])
  /\ t[i].do = "move" => MoveFits(t[i])
  /\ t[i].do = "sync" => t[i].about = {}
Fits(w, t) ==
  /\ \A i, j \in DOMAIN t : t[i].do = "rental" /\ t[j].do = "rental" => i = j
  /\ \A i \in DOMAIN t : StatementFits(w, t, i)

Promised(h) ==
  /\ \A q, r \in Deals(h) : q = r
  /\ hardware[h].status = "available" => Deals(h) = {} \/ \E v \in Workers : Marks(v, h)
RentInv ==
  /\ OneHardware /\ RentalPrinterHasRental
  /\ \A h \in DOMAIN hardware : h \in desk.loose \/ Promised(h)
  /\ \A w \in Workers : Fits(w, task[w])

\* A statement of the desk, wherever it is in a plan, says what it is about.
LEMMA SaysAbout ==
  ASSUME DeskInv, NEW v \in Workers, NEW i \in DOMAIN task[v], task[v][i].do \in DeskKinds
  PROVE  /\ task[v] \in Seq(DeskSteps(Known)) /\ task[v][i].about \subseteq AboutOf(v)
         /\ task[v][i].do \in {"hardware", "free", "dropHardware"} => task[v][i].about = {task[v][i].id}
         /\ task[v][i].do = "rental" => task[v][i].about = {task[v][i].id, task[v][i].row.hardware}
         /\ task[v][i].do = "printer" => task[v][i].about = {task[v][i].row.rental} \ {None}
<1> DEFINE k == Known
<1>1. task[v] \in Plans(k) BY DEF DeskInv
<1> HIDE DEF k
<1>2. task[v] \in Seq(DeskSteps(k))
  <2>1. CASE task[v] \in Seq(AccountSteps(k))
    <3>1. task[v][i] \in AccountSteps(k) BY <2>1
    <3> QED BY <3>1, KindsOfAccounts DEF AccountKinds, DeskKinds
  <2>2. CASE task[v] \in {t \in Seq(CompanySteps(k) \cup FleetSteps(k)) : Len(t) <= 1}
    <3>1. task[v][i] \in CompanySteps(k) \cup FleetSteps(k) BY <2>2
    <3>2. task[v][i].do \in CompanyKinds \cup FleetKinds BY <3>1, KindsOfCompany, KindsOfFleet
    <3> QED BY <3>2 DEF CompanyKinds, FleetKinds, DeskKinds
  <2> QED BY <1>1, <2>1, <2>2 DEF Plans
<1>3. task[v][i].about \subseteq AboutOf(v) BY DEF AboutOf
<1> DEFINE s == task[v][i]
<1>4. s \in DeskSteps(k) BY <1>2
<1> HIDE DEF s
<1>5. /\ s.do \in {"hardware", "free", "dropHardware"} => s.about = {s.id}
      /\ s.do = "rental" => s.about = {s.id, s.row.hardware}
      /\ s.do = "printer" => s.about = {s.row.rental} \ {None}
  BY <1>4, KindsOfDesk DEF HardwareSaves, Frees, HardwareDrops, RentalSaves, PrinterSaves
<1> QED BY <1>2, <1>3, <1>5 DEF k, s

\* What a worker is about that another has to do with is noted.
LEMMA Alone ==
  ASSUME NEW w \in Workers, NEW v \in Workers \ {w},
         Now(w).about \cap UNION {AboutOf(u) : u \in Busy \ {w}} \subseteq desk'.loose
  PROVE  \A x \in Now(w).about : x \in AboutOf(v) => x \in desk'.loose
<1> SUFFICES ASSUME NEW x \in Now(w).about, x \in AboutOf(v) PROVE x \in desk'.loose OBVIOUS
<1>1. v \in Busy
  <2>1. task[v] # Idle
    <3>1. DOMAIN Idle = {} BY DEF Idle
    <3> QED BY <3>1 DEF AboutOf
  <2> QED BY <2>1 DEF Busy
<1> QED BY <1>1

-----------------------------------------------------------------------------
(* What a step leaves alone: of a number x, the rental, its printers, the rentals of *)
(* the hardware, and who is about to mark it.                                        *)

Spared(x) ==
  /\ Lent(x) => Lent(x)'
  /\ MadeFor(x)' \subseteq MadeFor(x) /\ Deals(x)' = Deals(x)
  /\ \A r \in DOMAIN rentals : rentals[r].hardware = x => r \in DOMAIN rentals' /\ rentals'[r] = rentals[r]
  /\ \A r \in DOMAIN rentals' : rentals'[r].hardware = x => r \in DOMAIN rentals
  /\ \A u \in Workers : Marks(u, x) => Marks(u, x)'

\* Agreed stays agreed.
LEMMA AgreedStays ==
  ASSUME NEW s, Agreed(s), desk.loose \subseteq desk'.loose,
         s.row.rental = None \/ s.row.rental \in desk'.loose \/ Spared(s.row.rental)
  PROVE  Agreed(s)'
BY DEF Agreed, Spared

\* The plan of a worker who does not move stays fit when what it is about is spared.
LEMMA OthersFit ==
  ASSUME DeskInv, OneHardware, OneHardware', NEW v \in Workers, task'[v] = task[v], Fits(v, task[v]),
         desk.loose \subseteq desk'.loose, \A x \in AboutOf(v) : x \in desk'.loose \/ Spared(x)
  PROVE  Fits(v, task[v])'
<1>1. PICK t : t = task[v] OBVIOUS
<1>2. SUFFICES ASSUME NEW i \in DOMAIN t PROVE StatementFits(v, t, i)'
  BY <1>1 DEF Fits
<1>3. PICK s : s = t[i] OBVIOUS
<1>4. StatementFits(v, t, i) BY <1>1 DEF Fits
<1>5. ASSUME s.do \in DeskKinds
      PROVE  /\ t \in Seq(DeskSteps(Known)) /\ \A x \in s.about : x \in desk'.loose \/ Spared(x)
             /\ s.do \in {"hardware", "free", "dropHardware"} => s.about = {s.id}
             /\ s.do = "rental" => s.about = {s.id, s.row.hardware}
             /\ s.do = "printer" => s.about = {s.row.rental} \ {None}
  <2>1. i \in DOMAIN task[v] /\ task[v][i].do \in DeskKinds BY <1>1, <1>3, <1>5
  <2>2. /\ task[v] \in Seq(DeskSteps(Known)) /\ task[v][i].about \subseteq AboutOf(v)
        /\ task[v][i].do \in {"hardware", "free", "dropHardware"} => task[v][i].about = {task[v][i].id}
        /\ task[v][i].do = "rental" => task[v][i].about = {task[v][i].id, task[v][i].row.hardware}
        /\ task[v][i].do = "printer" => task[v][i].about = {task[v][i].row.rental} \ {None}
    BY <2>1, SaysAbout
  <2> QED BY <1>1, <1>3, <2>2
<1>6. ASSUME s.do = "rental" PROVE RentalFits(v, t, i)' /\ EndFits(t, i)'
  <2>1. RentalFits(v, t, i) /\ EndFits(t, i) BY <1>3, <1>4, <1>6 DEF StatementFits
  <2>2. /\ s.id \in desk'.loose \/ Spared(s.id)
        /\ s.row.hardware \in desk'.loose \/ Spared(s.row.hardware)
    BY <1>5, <1>6 DEF DeskKinds
  <2>3. EndFits(t, i)' BY <1>3, <2>1, <2>2 DEF EndFits, Spared, Undone
  <2>4. /\ Lends(s.id, s.row.hardware) /\ Lends(s.id, s.row.hardware)'
    BY <1>1, <1>3, <1>6 DEF Lends
  <2>5. ASSUME s.row.hardware \in desk'.loose PROVE RentalFits(v, t, i)' BY <1>3, <2>5 DEF RentalFits
  <2>6. ASSUME Spared(s.row.hardware) PROVE RentalFits(v, t, i)'
    <3>1. ASSUME s.id \in DOMAIN rentals
          PROVE  rentals[s.id].hardware = s.row.hardware /\ s.id \in DOMAIN rentals' /\ rentals'[s.id] = rentals[s.id]
      <4>1. Lends(s.id, rentals[s.id].hardware) BY <3>1 DEF Lends
      <4>2. rentals[s.id].hardware = s.row.hardware BY <2>4, <4>1 DEF OneHardware
      <4> QED BY <2>6, <3>1, <4>2 DEF Spared
    <3>2. ASSUME s.id \in DOMAIN rentals' PROVE s.id \in DOMAIN rentals
      <4>1. Lends(s.id, rentals[s.id].hardware)' BY <3>2 DEF Lends
      <4>2. rentals'[s.id].hardware = s.row.hardware BY <2>4, <4>1 DEF OneHardware
      <4> QED BY <2>6, <3>2, <4>2 DEF Spared
    <3>3. ASSUME Renews(s) PROVE Renews(s)' BY <3>1, <3>3 DEF Renews
    <3>4. ASSUME i = 1, Opens(v, t) PROVE Opens(v, t)'
      <4>1. Vacant(v, s.row.hardware) /\ s.id \notin DOMAIN rentals BY <1>3, <3>4 DEF Opens
      <4>2. Vacant(v, s.row.hardware)' BY <2>6, <4>1 DEF Vacant, Spared
      <4> QED BY <1>3, <3>2, <3>4, <4>1, <4>2 DEF Opens
    <3> QED BY <1>3, <2>1, <3>3, <3>4 DEF RentalFits
  <2> QED BY <2>2, <2>3, <2>5, <2>6
<1>7. ASSUME s.do = "hardware" PROVE SaveFits(v, s)'
  <2>1. SaveFits(v, s) BY <1>3, <1>4, <1>7 DEF StatementFits
  <2>2. s.id \in desk'.loose \/ Spared(s.id) BY <1>5, <1>7 DEF DeskKinds
  <2> QED BY <2>1, <2>2 DEF SaveFits, Vacant, Spared
<1>8. ASSUME s.do = "free" PROVE FreeFits(t, i)'
  <2>1. FreeFits(t, i) BY <1>3, <1>4, <1>8 DEF StatementFits
  <2>2. s.id \in desk'.loose \/ Spared(s.id) BY <1>5, <1>8 DEF DeskKinds
  <2> QED BY <1>3, <2>1, <2>2 DEF FreeFits, Spared
<1>9. ASSUME s.do = "dropHardware" PROVE Len(t) = 1 /\ (s.id \in desk'.loose \/ Deals(s.id)' = {})
  <2>1. Len(t) = 1 /\ (s.id \in desk.loose \/ Deals(s.id) = {}) BY <1>3, <1>4, <1>9 DEF StatementFits
  <2>2. s.id \in desk'.loose \/ Spared(s.id) BY <1>5, <1>9 DEF DeskKinds
  <2> QED BY <2>1, <2>2 DEF Spared
<1>10. ASSUME s.do = "printer" PROVE Agreed(s)'
  <2>1. Agreed(s) BY <1>3, <1>4, <1>10 DEF StatementFits
  <2>2. s.row.rental = None \/ s.row.rental \in desk'.loose \/ Spared(s.row.rental) BY <1>5, <1>10 DEF DeskKinds
  <2> QED BY <2>1, <2>2, AgreedStays
<1>11. ASSUME s.do = "move" PROVE MoveFits(s)'
  <2>1. MoveFits(s) BY <1>3, <1>4, <1>11 DEF StatementFits
  <2>2. \A x \in s.about : x \in desk'.loose \/ Spared(x) BY <1>5, <1>11 DEF DeskKinds
  <2>3. ASSUME NEW j \in DOMAIN s.rest PROVE Agreed(s.rest[j])'
    <3>1. Agreed(s.rest[j]) /\ s.rest[j].row.rental \in s.about \cup {None} BY <2>1 DEF MoveFits
    <3> QED BY <2>2, <3>1, AgreedStays
  <2> QED BY <2>1, <2>3 DEF MoveFits
<1>12. s.do = "sync" => s.about = {} BY <1>3, <1>4 DEF StatementFits
<1> QED BY <1>3, <1>6, <1>7, <1>8, <1>9, <1>10, <1>11, <1>12 DEF StatementFits

-----------------------------------------------------------------------------
(* What is left of the plan of a worker that moves: n new statements and the rest.   *)

Follows(t, u, n) ==
  /\ n \in Nat /\ Len(t) \in Nat \ {0} /\ Len(u) = n + Len(t) - 1
  /\ DOMAIN t = 1 .. Len(t) /\ DOMAIN u = 1 .. Len(u)
  /\ \A j \in 2 .. Len(t) : u[n + j - 1] = t[j]

\* The new statements come first, then all but the first.
LEMMA NewAndRest ==
  ASSUME NEW S, NEW t \in Seq(S), t # <<>>, NEW new \in Seq(S)
  PROVE  /\ Follows(t, new \o Tail(t), Len(new))
         /\ \A i \in 1 .. Len(new) : (new \o Tail(t))[i] = new[i]
<1> DEFINE u == Tail(t)
<1>2. /\ u \in Seq(S) /\ Len(u) = Len(t) - 1 /\ Len(t) \in Nat \ {0} /\ DOMAIN t = 1 .. Len(t)
      /\ \A i \in 1 .. Len(u) : u[i] = t[i + 1]
  BY HeadTailProperties, EmptySeq, LenProperties
<1> HIDE DEF u
<1>3. /\ new \o u \in Seq(S) /\ Len(new \o u) = Len(new) + Len(u) /\ Len(new) \in Nat
      /\ \A i \in 1 .. (Len(new) + Len(u)) : (new \o u)[i] = IF i <= Len(new) THEN new[i] ELSE u[i - Len(new)]
  BY <1>2, ConcatProperties, LenProperties
<1>4. DOMAIN (new \o u) = 1 .. Len(new \o u) BY <1>3, LenProperties
<1>5. ASSUME NEW j \in 2 .. Len(t) PROVE (new \o u)[Len(new) + j - 1] = t[j]
  <2>1. /\ Len(new) + j - 1 \in 1 .. (Len(new) + Len(u)) /\ ~ (Len(new) + j - 1 <= Len(new))
        /\ (Len(new) + j - 1) - Len(new) = j - 1 /\ j - 1 \in 1 .. Len(u) /\ (j - 1) + 1 = j
    BY <1>2, <1>3
  <2>2. (new \o u)[Len(new) + j - 1] = u[j - 1] BY <1>3, <2>1
  <2> QED BY <1>2, <2>1, <2>2
<1>6. ASSUME NEW i \in 1 .. Len(new) PROVE (new \o u)[i] = new[i] BY <1>2, <1>3
<1>7. Len(new \o u) = Len(new) + Len(t) - 1 BY <1>2, <1>3
<1> QED BY <1>2, <1>3, <1>4, <1>5, <1>6, <1>7 DEF Follows, u

\* The rest alone.
LEMMA OnlyRest == ASSUME NEW S, NEW t \in Seq(S), t # <<>> PROVE Follows(t, Tail(t), 0)
<1>1. /\ Len(Tail(t)) = Len(t) - 1 /\ Len(t) \in Nat \ {0} /\ DOMAIN t = 1 .. Len(t) /\ Tail(t) \in Seq(S)
      /\ \A i \in 1 .. Len(Tail(t)) : Tail(t)[i] = t[i + 1]
  BY HeadTailProperties, EmptySeq, LenProperties
<1> DEFINE u == Tail(t)
<1>2. DOMAIN u = 1 .. Len(u) BY <1>1, LenProperties
<1> HIDE DEF u
<1>3. ASSUME NEW j \in 2 .. Len(t) PROVE u[0 + j - 1] = t[j]
  <2>1. 0 + j - 1 = j - 1 /\ j - 1 \in 1 .. Len(u) /\ (j - 1) + 1 = j BY <1>1 DEF u
  <2> QED BY <1>1, <2>1 DEF u
<1> QED BY <1>1, <1>2, <1>3 DEF Follows, u

\* Where a statement comes from.
LEMMA ComesFrom ==
  ASSUME NEW t, NEW u, NEW n, Follows(t, u, n)
  PROVE  /\ \A i \in DOMAIN u : i \in 1 .. n \/ \E j \in 2 .. Len(t) : i = n + j - 1 /\ u[i] = t[j] /\ j \in DOMAIN t
         /\ \A j \in DOMAIN t : j # 1 => j \in 2 .. Len(t) /\ n + j - 1 \in DOMAIN u /\ u[n + j - 1] = t[j]
         /\ 1 \in DOMAIN t
<1>1. ASSUME NEW i \in DOMAIN u, i \notin 1 .. n
      PROVE  \E j \in 2 .. Len(t) : i = n + j - 1 /\ u[i] = t[j] /\ j \in DOMAIN t
  <2>1. i - n + 1 \in 2 .. Len(t) /\ i = n + (i - n + 1) - 1 /\ i - n + 1 \in DOMAIN t BY <1>1 DEF Follows
  <2> QED BY <2>1 DEF Follows
<1>2. ASSUME NEW j \in DOMAIN t, j # 1
      PROVE  j \in 2 .. Len(t) /\ n + j - 1 \in DOMAIN u /\ u[n + j - 1] = t[j]
  BY <1>2 DEF Follows
<1> QED BY <1>1, <1>2 DEF Follows

\* A step that changes no rental leaves the rest of the plan fit.
LEMMA RestFits ==
  ASSUME NEW w \in Workers, NEW t, NEW u, NEW n, Follows(t, u, n), Fits(w, t), desk.loose \subseteq desk'.loose,
         UNCHANGED rentals, \A v \in Workers \ {w} : task'[v] = task[v], t[1].do # "rental",
         \A i \in 1 .. n : u[i].do = "device" \/ (u[i].do = "printer" /\ Agreed(u[i])'),
         n = 0 \/ t[1].do \in {"move", "sync"},
         t[1].do = "printer" \/ \A r : MadeFor(r)' \subseteq MadeFor(r) \ Undone(t)
  PROVE  Fits(w, u)'
<1>1. /\ \A i \in DOMAIN u : i \in 1 .. n \/ \E j \in 2 .. Len(t) : i = n + j - 1 /\ u[i] = t[j] /\ j \in DOMAIN t
      /\ \A j \in DOMAIN t : j # 1 => j \in 2 .. Len(t) /\ n + j - 1 \in DOMAIN u /\ u[n + j - 1] = t[j]
      /\ 1 \in DOMAIN t
  BY ComesFrom
<1>2. n \in Nat /\ Len(t) \in Nat \ {0} /\ Len(u) = n + Len(t) - 1 BY DEF Follows
<1>3. \A x : Deals(x)' = Deals(x) /\ (Vacant(w, x) => Vacant(w, x)') /\ (Lent(x) => Lent(x)')
  BY DEF Deals, Vacant, Marks, At, Now, Lent
<1>4. \A s : (Agreed(s) => Agreed(s)') /\ (Renews(s) => Renews(s)') /\ (MoveFits(s) => MoveFits(s)')
  BY <1>3 DEF Agreed, Renews, MoveFits
<1>5. ASSUME NEW i \in DOMAIN u, NEW j \in DOMAIN u, u[i].do = "rental", u[j].do = "rental" PROVE i = j
  <2>1. i \notin 1 .. n /\ j \notin 1 .. n BY <1>5
  <2>2. PICK k \in 2 .. Len(t) : i = n + k - 1 /\ u[i] = t[k] /\ k \in DOMAIN t BY <1>1, <2>1
  <2>3. PICK l \in 2 .. Len(t) : j = n + l - 1 /\ u[j] = t[l] /\ l \in DOMAIN t BY <1>1, <2>1
  <2>4. k = l BY <1>5, <2>2, <2>3 DEF Fits
  <2> QED BY <2>2, <2>3, <2>4
<1>6. ASSUME NEW i \in DOMAIN u PROVE StatementFits(w, u, i)'
  <2>1. CASE i \in 1 .. n BY <1>6, <2>1 DEF StatementFits
  <2>2. CASE i \notin 1 .. n
    <3>1. PICK j \in 2 .. Len(t) : i = n + j - 1 /\ u[i] = t[j] /\ j \in DOMAIN t BY <1>1, <2>2
    <3>2. PICK s : s = t[j] OBVIOUS
    <3>3. StatementFits(w, t, j) /\ j # 1 BY <3>1 DEF Fits
    <3>4. ASSUME s.do = "rental" PROVE RentalFits(w, u, i)' /\ EndFits(u, i)'
      <4>1. RentalFits(w, t, j) /\ EndFits(t, j) BY <3>2, <3>3, <3>4 DEF StatementFits
      <4>2. RentalFits(w, u, i)' BY <1>4, <3>1, <3>3, <4>1 DEF RentalFits
      <4>3. CASE s.id \in desk.loose \/ s.row.status \in {"confirmed", "active"} BY <3>1, <3>2, <4>2, <4>3 DEF EndFits
      <4>4. CASE MadeFor(s.id) \subseteq Undone(t) /\ \A k \in DOMAIN t : t[k].do \notin {"printer", "move", "sync"}
        <5>1. t[1].do \notin {"printer", "move", "sync"} BY <1>1, <4>4
        <5>2. n = 0 /\ MadeFor(s.id)' = {} BY <4>4, <5>1
        <5>3. \A k \in DOMAIN u : u[k].do \notin {"printer", "move", "sync"}
          <6> SUFFICES ASSUME NEW k \in DOMAIN u PROVE u[k].do \notin {"printer", "move", "sync"} OBVIOUS
          <6>1. k \notin 1 .. n BY <1>2, <5>2
          <6> QED BY <1>1, <4>4, <6>1
        <5>4. MadeFor(u[i].id)' \subseteq Undone(u)' BY <3>1, <3>2, <5>2
        <5> QED BY <4>2, <5>3, <5>4 DEF EndFits
      <4> QED BY <3>2, <4>1, <4>3, <4>4 DEF EndFits
    <3>5. ASSUME s.do = "hardware" PROVE SaveFits(w, s)'
      BY <1>3, <3>2, <3>3, <3>5 DEF StatementFits, SaveFits
    <3>6. ASSUME s.do = "free" PROVE FreeFits(u, i)'
      <4>1. FreeFits(t, j) BY <3>2, <3>3, <3>6 DEF StatementFits
      <4>2. CASE s.id \in desk.loose BY <3>1, <3>2, <4>2 DEF FreeFits
      <4>3. CASE j = Len(t) /\ (s.byHand \/ \A r \in Deals(s.id) : Ends(t, r))
        <5>1. i = Len(u) BY <1>2, <3>1, <4>3
        <5>2. \A r : Ends(t, r) => Ends(u, r)
          <6> SUFFICES ASSUME NEW r, Ends(t, r) PROVE Ends(u, r) OBVIOUS
          <6>1. PICK k \in DOMAIN t : t[k].do = "rental" /\ t[k].id = r /\ t[k].row.status \notin Live BY DEF Ends
          <6>2. k # 1 BY <6>1
          <6> QED BY <1>1, <6>1, <6>2 DEF Ends
        <5>3. u[i].byHand \/ \A r \in Deals(u[i].id)' : Ends(u, r) BY <1>3, <3>1, <3>2, <4>3, <5>2
        <5> QED BY <5>1, <5>3 DEF FreeFits, Ends
      <4> QED BY <3>2, <4>1, <4>2, <4>3 DEF FreeFits
    <3>7. s.do # "dropHardware" BY <1>2, <3>1, <3>2, <3>3 DEF StatementFits
    <3>8. /\ s.do = "printer" => Agreed(s)'
          /\ s.do = "move" => MoveFits(s)'
          /\ s.do = "sync" => s.about = {}
      BY <1>4, <3>2, <3>3 DEF StatementFits
    <3> QED BY <3>1, <3>2, <3>4, <3>5, <3>6, <3>7, <3>8 DEF StatementFits
  <2> QED BY <2>1, <2>2
<1> QED BY <1>5, <1>6 DEF Fits

\* A rental that is saved: which deals there are then.
LEMMA DealsAfter ==
  ASSUME OneHardware, NEW s, Lends(s.id, s.row.hardware), rentals' = With(rentals, s.id, s.row)
  PROVE  /\ \A x : x # s.row.hardware => Deals(x)' = Deals(x)
         /\ Renews(s) => \A x : Deals(x)' \subseteq Deals(x)
         /\ s.row.status \notin Live => \A x : s.id \notin Deals(x)'
         /\ \A x, q : q \in Deals(x)' => q = s.id \/ q \in Deals(x)
<1>1. /\ DOMAIN rentals' = DOMAIN rentals \cup {s.id}
      /\ \A r \in DOMAIN rentals' : rentals'[r] = IF r = s.id THEN s.row ELSE rentals[r]
  BY DEF With
<1>2. s.id \in DOMAIN rentals => rentals[s.id].hardware = s.row.hardware
  BY DEF OneHardware, Lends
<1>3. ASSUME NEW x, x # s.row.hardware PROVE Deals(x)' = Deals(x) BY <1>1, <1>2, <1>3 DEF Deals
<1>4. ASSUME Renews(s), NEW x PROVE Deals(x)' \subseteq Deals(x) BY <1>1, <1>2, <1>4 DEF Deals, Renews
<1>5. ASSUME s.row.status \notin Live, NEW x PROVE s.id \notin Deals(x)' BY <1>1, <1>5 DEF Deals
<1>6. ASSUME NEW x, NEW q, q \in Deals(x)' PROVE q = s.id \/ q \in Deals(x) BY <1>1, <1>6 DEF Deals
<1> QED BY <1>3, <1>4, <1>5, <1>6

\* After its rental is saved the rest of the plan is fit.
LEMMA RentalRestFits ==
  ASSUME OneHardware, NEW w \in Workers, NEW t, NEW u, t = task[w], Follows(t, u, 0), Fits(w, t), t[1].do = "rental",
         desk.loose \subseteq desk'.loose, \A v \in Workers \ {w} : task'[v] = task[v],
         rentals' = With(rentals, t[1].id, t[1].row), UNCHANGED printers
  PROVE  Fits(w, u)'
<1>1. /\ \A i \in DOMAIN u : \E j \in 2 .. Len(t) : i = j - 1 /\ u[i] = t[j] /\ j \in DOMAIN t
      /\ \A j \in DOMAIN t : j # 1 => j \in 2 .. Len(t) /\ j - 1 \in DOMAIN u /\ u[j - 1] = t[j]
      /\ 1 \in DOMAIN t /\ Len(t) \in Nat \ {0} /\ Len(u) = Len(t) - 1
  <2>1. /\ \A i \in DOMAIN u : i \in 1 .. 0 \/ \E j \in 2 .. Len(t) : i = 0 + j - 1 /\ u[i] = t[j] /\ j \in DOMAIN t
        /\ \A j \in DOMAIN t : j # 1 => j \in 2 .. Len(t) /\ 0 + j - 1 \in DOMAIN u /\ u[0 + j - 1] = t[j]
        /\ 1 \in DOMAIN t
    BY ComesFrom
  <2>2. /\ Len(t) \in Nat \ {0} /\ Len(u) = 0 + Len(t) - 1 /\ DOMAIN t = 1 .. Len(t) BY DEF Follows
  <2>3. 1 .. 0 = {} /\ \A j \in 2 .. Len(t) : 0 + j - 1 = j - 1 BY <2>2
  <2>4. Len(u) = Len(t) - 1 BY <2>2
  <2> QED BY <2>1, <2>2, <2>3, <2>4
<1>2. PICK s : s = t[1] OBVIOUS
<1>3. RentalFits(w, t, 1) /\ EndFits(t, 1) BY <1>1 DEF Fits, StatementFits
<1>4. Lends(s.id, s.row.hardware) BY <1>1, <1>2 DEF Lends
<1>5. /\ \A x : x # s.row.hardware => Deals(x)' = Deals(x)
      /\ Renews(s) => \A x : Deals(x)' \subseteq Deals(x)
      /\ s.row.status \notin Live => \A x : s.id \notin Deals(x)'
      /\ \A x, q : q \in Deals(x)' => q = s.id \/ q \in Deals(x)
  BY <1>2, <1>4, DealsAfter
<1>6. ASSUME NEW j \in DOMAIN t, j # 1 PROVE t[j].do # "rental" BY <1>1, <1>6 DEF Fits
<1>7. \A i \in DOMAIN u : u[i].do # "rental"
  <2> SUFFICES ASSUME NEW i \in DOMAIN u PROVE u[i].do # "rental" OBVIOUS
  <2>1. PICK j \in 2 .. Len(t) : i = j - 1 /\ u[i] = t[j] /\ j \in DOMAIN t BY <1>1
  <2> QED BY <1>6, <2>1
<1>8. CASE s.row.hardware \notin desk.loose /\ ~ Renews(s)
  <2>1. Opens(w, t) BY <1>2, <1>3, <1>8 DEF RentalFits
  <2>2. ASSUME NEW i \in DOMAIN u PROVE u[i].do = "hardware" /\ u[i].row.status = "rented"
    <3>1. PICK j \in 2 .. Len(t) : i = j - 1 /\ u[i] = t[j] /\ j \in DOMAIN t BY <1>1
    <3>2. j = 2 BY <1>1, <2>1, <3>1 DEF Opens
    <3> QED BY <2>1, <3>1, <3>2 DEF Opens
  <2>3. ASSUME NEW i \in DOMAIN u PROVE StatementFits(w, u, i)' BY <2>2 DEF StatementFits, SaveFits
  <2> QED BY <1>7, <2>3 DEF Fits
<1>9. CASE s.row.hardware \in desk.loose \/ Renews(s)
  <2>1. \A x : x \in desk'.loose \/ Deals(x)' \subseteq Deals(x) BY <1>5, <1>9
  <2>2. \A x : Vacant(w, x) => x \in desk'.loose \/ Vacant(w, x)' BY <2>1 DEF Vacant, Marks, At, Now
  <2>3. ASSUME NEW i \in DOMAIN u PROVE StatementFits(w, u, i)'
    <3>1. PICK j \in 2 .. Len(t) : i = j - 1 /\ u[i] = t[j] /\ j \in DOMAIN t BY <1>1
    <3>2. PICK a : a = t[j] OBVIOUS
    <3>3. StatementFits(w, t, j) /\ j # 1 BY <3>1 DEF Fits
    <3>4. a.do # "rental" BY <1>7, <3>1, <3>2
    <3>5. ASSUME a.do = "hardware" PROVE SaveFits(w, a)'
      <4>1. SaveFits(w, a) BY <3>2, <3>3, <3>5 DEF StatementFits
      <4> QED BY <2>2, <4>1 DEF SaveFits
    <3>6. ASSUME a.do = "free" PROVE FreeFits(u, i)'
      <4>1. FreeFits(t, j) BY <3>2, <3>3, <3>6 DEF StatementFits
      <4>2. CASE a.id \in desk'.loose BY <3>1, <3>2, <4>2 DEF FreeFits
      <4>3. CASE a.id \notin desk'.loose
        <5>1. j = Len(t) /\ (a.byHand \/ \A r \in Deals(a.id) : Ends(t, r)) BY <3>2, <4>1, <4>3 DEF FreeFits
        <5>2. i = Len(u) BY <1>1, <3>1, <5>1
        <5>3. ASSUME ~ a.byHand, NEW r \in Deals(a.id)' PROVE Ends(u, r)
          <6>1. r \in Deals(a.id) BY <2>1, <4>3
          <6>2. PICK k \in DOMAIN t : t[k].do = "rental" /\ t[k].id = r /\ t[k].row.status \notin Live
            BY <5>1, <5>3, <6>1 DEF Ends
          <6>3. k = 1 BY <1>6, <6>2
          <6> QED BY <1>2, <1>5, <6>2, <6>3
        <5>4. u[i].byHand \/ \A r \in Deals(u[i].id)' : Ends(u, r) BY <3>1, <3>2, <5>3
        <5> QED BY <5>2, <5>4 DEF FreeFits, Ends
      <4> QED BY <4>2, <4>3
    <3>7. a.do # "dropHardware" BY <1>1, <3>1, <3>2, <3>3 DEF StatementFits
    <3>8. ASSUME NEW b, Agreed(b), a.do \in {"printer", "move"} PROVE Agreed(b)'
      <4>1. CASE b.row.rental = None \/ b.row.rental \in desk.loose BY <4>1 DEF Agreed
      <4>2. CASE Lent(b.row.rental)
        <5>1. b.row.rental # s.id => Lent(b.row.rental)' BY <1>2, <4>2 DEF Lent, With
        <5>2. s.row.status \in {"confirmed", "active"} \/ s.id \in desk.loose
          BY <1>2, <1>3, <3>1, <3>2, <3>8 DEF EndFits
        <5>3. b.row.rental = s.id => Lent(b.row.rental)' \/ s.id \in desk'.loose BY <1>2, <5>2 DEF Lent, With
        <5> QED BY <5>1, <5>3 DEF Agreed
      <4> QED BY <3>8, <4>1, <4>2 DEF Agreed
    <3>9. a.do = "printer" => Agreed(a)' BY <3>2, <3>3, <3>8 DEF StatementFits
    <3>10. a.do = "move" => MoveFits(a)' BY <3>2, <3>3, <3>8 DEF StatementFits, MoveFits
    <3>11. a.do = "sync" => a.about = {} BY <3>2, <3>3 DEF StatementFits
    <3> QED BY <3>1, <3>2, <3>4, <3>5, <3>6, <3>7, <3>9, <3>10, <3>11 DEF StatementFits
  <2> QED BY <1>7, <2>3 DEF Fits
<1> QED BY <1>8, <1>9

\* A promise stays while nothing about it changes.
LEMMA PromiseStays ==
  ASSUME NEW h, Promised(h), Deals(h)' \subseteq Deals(h),
         hardware'[h].status = "available" => hardware[h].status = "available",
         \A u \in Workers : Marks(u, h) => Marks(u, h)'
  PROVE  Promised(h)'
<1>1. \A q, r \in Deals(h)' : q = r BY DEF Promised
<1>2. ASSUME hardware'[h].status = "available" PROVE Deals(h)' = {} \/ \E v \in Workers : Marks(v, h)'
  BY <1>2 DEF Promised
<1> QED BY <1>1, <1>2 DEF Promised

\* No statement is lent anew when none is new and the rentals stay.
LEMMA OneHardwareStays ==
  ASSUME OneHardware, \A r, h : Lends(r, h)' => Lends(r, h)
  PROVE  OneHardware'
BY DEF OneHardware

\* A statement of the desk runs: u is what its worker has still to do then.
Runs(w, n, u) ==
  /\ task[w] # Idle /\ Now(w).do \in DeskKinds
  /\ desk.loose \subseteq desk'.loose
  /\ Now(w).about \cap UNION {AboutOf(v) : v \in Busy \ {w}} \subseteq desk'.loose
  /\ \A v \in Workers \ {w} : task'[v] = task[v]
  /\ task'[w] = u /\ Follows(task[w], u, n)
  /\ n = 0 \/ Now(w).do \in {"move", "sync"}

\* A step of the desk that leaves the rentals as they are.
LEMMA KeepsRentals ==
  ASSUME DeskInv, RentInv, NEW w \in Workers, NEW n, NEW u, Runs(w, n, u), Now(w).do # "rental", UNCHANGED rentals,
         \A i \in 1 .. n : u[i].do = "device" \/ (u[i].do = "printer" /\ Agreed(u[i])'),
         Now(w).do = "printer" \/ \A r : MadeFor(r)' \subseteq MadeFor(r) \ Undone(task[w]),
         \A r \in Ids(Known) : r \in Now(w).about \/ MadeFor(r)' \subseteq MadeFor(r),
         RentalPrinterHasRental', \A h \in DOMAIN hardware' : h \in desk'.loose \/ Promised(h)'
  PROVE  RentInv'
<1> USE DEF Runs
<1>1. PICK t : t = task[w] OBVIOUS
<1>2. /\ \A i \in DOMAIN u : i \in 1 .. n \/ \E j \in 2 .. Len(t) : i = n + j - 1 /\ u[i] = t[j] /\ j \in DOMAIN t
      /\ \A j \in DOMAIN t : j # 1 => j \in 2 .. Len(t) /\ n + j - 1 \in DOMAIN u /\ u[n + j - 1] = t[j]
      /\ 1 \in DOMAIN t
  BY <1>1, ComesFrom
<1>3. Now(w) = t[1] BY <1>1 DEF Now
<1>4. Fits(w, u)' BY <1>1, <1>3, RestFits DEF RentInv
<1>5. ASSUME NEW r, NEW h, Lends(r, h)' PROVE Lends(r, h)
  <2>1. CASE r \in DOMAIN rentals' /\ rentals'[r].hardware = h BY <2>1 DEF Lends
  <2>2. ASSUME NEW v \in Workers, NEW i \in DOMAIN task'[v], task'[v][i].do = "rental", task'[v][i].id = r,
               task'[v][i].row.hardware = h
        PROVE  Lends(r, h)
    <3>1. CASE v # w BY <2>2, <3>1 DEF Lends
    <3>2. CASE v = w
      <4>1. i \in DOMAIN u /\ u[i].do = "rental" BY <2>2, <3>2
      <4>2. i \notin 1 .. n BY <4>1
      <4>3. PICK j \in 2 .. Len(t) : i = n + j - 1 /\ u[i] = t[j] /\ j \in DOMAIN t BY <1>2, <4>1, <4>2
      <4> QED BY <1>1, <2>2, <3>2, <4>3 DEF Lends
    <3> QED BY <3>1, <3>2
  <2> QED BY <1>5, <2>1, <2>2 DEF Lends
<1>6. OneHardware' BY <1>5, OneHardwareStays DEF RentInv
<1>7. ASSUME NEW v \in Workers \ {w}, NEW x \in AboutOf(v), x \notin desk'.loose PROVE Spared(x)
  <2>1. x \notin Now(w).about BY <1>7, Alone
  <2>2. x \in Ids(Known) BY AboutDrawn
  <2>3. MadeFor(x)' \subseteq MadeFor(x) BY <2>1, <2>2
  <2>4. Lent(x) => Lent(x)' BY DEF Lent
  <2>5. Deals(x)' = Deals(x) BY DEF Deals
  <2>6. ASSUME NEW y \in Workers, Marks(y, x) PROVE Marks(y, x)'
    <3>1. y # w
      <4>1. ASSUME y = w PROVE FALSE
        <5>1. Now(w).do = "hardware" /\ Now(w).id = x BY <2>6, <4>1 DEF Marks, At
        <5>2. Now(w).about = {Now(w).id} BY <1>1, <1>2, <1>3, <5>1, SaysAbout DEF DeskKinds
        <5> QED BY <2>1, <5>1, <5>2
      <4> QED BY <4>1
    <3> QED BY <2>6, <3>1 DEF Marks, At, Now
  <2> QED BY <2>3, <2>4, <2>5, <2>6 DEF Spared
<1>8. \A v \in Workers : Fits(v, task[v])'
  <2>1. Fits(w, task[w])' BY <1>4
  <2>2. ASSUME NEW v \in Workers \ {w} PROVE Fits(v, task[v])'
    BY <1>6, <1>7, OthersFit DEF RentInv
  <2> QED BY <2>1, <2>2
<1> QED BY <1>6, <1>8 DEF RentInv

\* A statement that is done, and what it notes.
LEMMA DoneRuns ==
  ASSUME DeskInv, NEW w \in Workers, task[w] # Idle, Now(w).do \in DeskKinds, Done(w),
         desk.loose \subseteq desk'.loose,
         Now(w).about \cap UNION {AboutOf(v) : v \in Busy \ {w}} \subseteq desk'.loose
  PROVE  \E u : Runs(w, 0, u)
<1>1. task[w] \in Seq(DeskSteps(Known)) /\ task[w] # <<>> BY Statement DEF Idle
<1>2. PICK u : u = Tail(task[w]) OBVIOUS
<1>3. Follows(task[w], u, 0) BY <1>1, <1>2, OnlyRest
<1>4. DOMAIN task = Workers BY DEF DeskInv, RequestsOK
<1>5. task'[w] = u /\ \A v \in Workers \ {w} : task'[v] = task[v] BY <1>2, <1>4 DEF Done
<1> QED BY <1>3, <1>5 DEF Runs

\* What a step notes.
LEMMA NotesLoose ==
  ASSUME NEW w \in Workers, NEW byHand, NEW released, Notes(w, byHand, released)
  PROVE  /\ desk.loose \subseteq desk'.loose /\ byHand \subseteq desk'.loose
         /\ Now(w).about \cap UNION {AboutOf(v) : v \in Busy \ {w}} \subseteq desk'.loose
BY DEF Notes, Noted

\* A step of the desk that is about printers or devices.
LEMMA KeepsHardware ==
  ASSUME DeskInv, RentInv, NEW w \in Workers, NEW n, NEW u, Runs(w, n, u), Now(w).do \notin {"rental", "hardware"},
         UNCHANGED <<hardware, rentals>>,
         \A i \in 1 .. n : u[i].do = "device" \/ (u[i].do = "printer" /\ Agreed(u[i])'),
         Now(w).do = "printer" \/ \A r : MadeFor(r)' \subseteq MadeFor(r) \ Undone(task[w]),
         \A r \in Ids(Known) : r \in Now(w).about \/ MadeFor(r)' \subseteq MadeFor(r), RentalPrinterHasRental'
  PROVE  RentInv'
<1>1. ASSUME NEW h \in DOMAIN hardware', h \notin desk'.loose PROVE Promised(h)'
  <2>1. h \in DOMAIN hardware /\ h \notin desk.loose BY <1>1 DEF Runs
  <2>2. Promised(h) BY <2>1 DEF RentInv
  <2>3. Deals(h)' = Deals(h) BY DEF Deals
  <2>4. \A y \in Workers : Marks(y, h) => Marks(y, h)' BY DEF Marks, At, Now, Runs
  <2> QED BY <2>2, <2>3, <2>4, PromiseStays
<1> QED BY <1>1, KeepsRentals

\* A step that changes no rental, and of hardware and printers nothing that matters: a
\* plan that changes is fit, and marks nothing but what is loose.
LEMMA WorldStays ==
  ASSUME DeskInv, RentInv, UNCHANGED rentals, desk.loose \subseteq desk'.loose, OneHardware',
         DOMAIN hardware' = DOMAIN hardware, \A h \in DOMAIN hardware : hardware'[h].status = hardware[h].status,
         DOMAIN printers' = DOMAIN printers, \A p \in DOMAIN printers : printers'[p].rental = printers[p].rental,
         \A v \in Workers : task'[v] = task[v] \/ Fits(v, task[v])',
         \A v \in Workers : task'[v] = task[v] \/ \A x : Marks(v, x) => x \in desk'.loose
  PROVE  RentInv'
<1>1. \A x : Deals(x)' = Deals(x) /\ (Lent(x) => Lent(x)') BY DEF Deals, Lent
<1>2. \A x : MadeFor(x)' = MadeFor(x) BY DEF MadeFor
<1>3. \A x : x \in desk'.loose \/ \A u \in Workers : Marks(u, x) => Marks(u, x)' BY DEF Marks, At, Now
<1>4. ASSUME NEW x, x \notin desk'.loose PROVE Spared(x) BY <1>1, <1>2, <1>3, <1>4 DEF Spared
<1>5. ASSUME NEW v \in Workers PROVE Fits(v, task[v])'
  <2>1. Fits(v, task[v]) BY DEF RentInv
  <2>2. CASE task'[v] = task[v] BY <1>4, <2>1, <2>2, OthersFit DEF RentInv
  <2> QED BY <2>2
<1>6. ASSUME NEW h \in DOMAIN hardware', h \notin desk'.loose PROVE Promised(h)'
  <2>1. Promised(h) BY <1>6 DEF RentInv
  <2> QED BY <1>1, <1>3, <1>6, <2>1, PromiseStays
<1>7. RentalPrinterHasRental' BY DEF RentInv, RentalPrinterHasRental
<1> QED BY <1>5, <1>6, <1>7 DEF RentInv

\* An idle worker is as fit as can be.
LEMMA IdleFits == ASSUME NEW w \in Workers, task'[w] = Idle PROVE Fits(w, task[w])'
<1>1. DOMAIN Idle = {} BY DEF Idle
<1> QED BY <1>1 DEF Fits

\* Nothing is lent anew by fewer statements.
LEMMA FewerLends ==
  ASSUME OneHardware, UNCHANGED rentals,
         \A v \in Workers : \A i \in DOMAIN task'[v] :
           \/ task'[v][i].do # "rental"
           \/ \E j \in DOMAIN task[v] : task[v][j] = task'[v][i]
           \/ task'[v][i].id \in DOMAIN rentals /\ task'[v][i].row.hardware = rentals[task'[v][i].id].hardware
  PROVE  OneHardware'
<1>1. ASSUME NEW r, NEW h, Lends(r, h)' PROVE Lends(r, h) BY <1>1 DEF Lends
<1> QED BY <1>1, OneHardwareStays

\* What a worker marks it is about.
LEMMA MarksAbout ==
  ASSUME DeskInv, NEW w \in Workers, NEW x, Marks(w, x) PROVE x \in AboutOf(w)
<1>1. task[w] # Idle /\ Now(w).do = "hardware" /\ Now(w).id = x BY DEF Marks, At
<1>2. 1 \in DOMAIN task[w] /\ Now(w) = task[w][1]
  <2>1. task[w] \in Seq(DeskSteps(Known)) /\ task[w] # <<>> BY <1>1, Statement DEF DeskKinds, Idle
  <2> QED BY <2>1 DEF Now
<1>3. task[w][1].about \subseteq AboutOf(w) /\ task[w][1].about = {task[w][1].id}
  BY <1>1, <1>2, SaysAbout DEF DeskKinds
<1> QED BY <1>1, <1>2, <1>3

\* A request of the desk that is cut short.
LEMMA CutShortRents ==
  ASSUME DeskInv, RentInv, NEW w \in Workers, CutShort(w), UNCHANGED <<hardware, rentals, printers>>
  PROVE  RentInv'
<1>1. DOMAIN task = Workers BY DEF DeskInv, RequestsOK
<1>2. task'[w] = Idle /\ \A v \in Workers \ {w} : task'[v] = task[v] BY <1>1 DEF CutShort, Fail
<1>3. desk.loose \subseteq desk'.loose /\ AboutOf(w) \subseteq desk'.loose
  <2>1. desk \in [loose : SUBSET Ids(Known), released : SUBSET Ids(Known)] BY DEF DeskInv, DeskTables
  <2>2. PICK S : S = AboutOf(w) OBVIOUS
  <2>3. desk' = [desk EXCEPT !.loose = @ \cup S] BY <2>2 DEF CutShort
  <2> QED BY <2>1, <2>2, <2>3
<1>4. OneHardware'
  <2>1. \A v \in Workers : \A i \in DOMAIN task'[v] : \E j \in DOMAIN task[v] : task[v][j] = task'[v][i]
    BY <1>2 DEF Idle
  <2> QED BY <2>1, FewerLends DEF RentInv
<1>5. \A v \in Workers : task'[v] = task[v] \/ Fits(v, task[v])' BY <1>2, IdleFits
<1>6. \A v \in Workers : task'[v] = task[v] \/ \A x : Marks(v, x) => x \in desk'.loose BY <1>2, <1>3, MarksAbout
<1> QED BY <1>3, <1>4, <1>5, <1>6, WorldStays

\* A printer is saved, or loses its organization.
LEMMA PrinterRents == ASSUME DeskInv, RentInv, NEW w \in Workers, StorePrinter(w) PROVE RentInv'
<1>1. task[w] # Idle /\ Now(w).do \in {"printer", "unassign"} /\ UNCHANGED <<hardware, rentals>>
  BY DEF StorePrinter, At
<1>2. CASE CutShort(w) /\ UNCHANGED printers BY <1>1, <1>2, CutShortRents
<1>3. CASE /\ Done(w) /\ Notes(w, {}, {})
           /\ Now(w).do = "unassign" \/ (Now(w).do = "printer" /\ printers' = With(printers, Now(w).id, Now(w).row))
  <2>1. /\ desk.loose \subseteq desk'.loose
        /\ Now(w).about \cap UNION {AboutOf(v) : v \in Busy \ {w}} \subseteq desk'.loose
    BY <1>3, NotesLoose
  <2>2. PICK u : Runs(w, 0, u) BY <1>1, <1>3, <2>1, DoneRuns DEF DeskKinds
  <2>3. \A i \in 1 .. 0 : u[i].do = "device" \/ (u[i].do = "printer" /\ Agreed(u[i])') OBVIOUS
  <2>4. PICK s : s = Now(w) OBVIOUS
  <2>5. task[w] \in Seq(DeskSteps(Known)) /\ s \in DeskSteps(Known) BY <1>1, <2>4, Statement DEF DeskKinds
  <2>6. 1 \in DOMAIN task[w] /\ task[w][1] = s BY <1>1, <2>4, <2>5 DEF Now, Idle
  <2>7. StatementFits(w, task[w], 1) BY <2>6 DEF RentInv, Fits
  <2>8. CASE s.do = "printer" /\ printers' = With(printers, s.id, s.row)
    <3>1. Agreed(s) /\ s.about = {s.row.rental} \ {None}
      BY <2>5, <2>6, <2>7, <2>8, KindsOfDesk DEF StatementFits, PrinterSaves
    <3>2. RentalPrinterHasRental'
      BY <2>1, <2>8, <3>1, <1>1 DEF With, RentInv, RentalPrinterHasRental, Agreed, Lent
    <3>3. None \notin Ids(Known)
      <4>1. None \notin Ids(Later(0)) /\ Ids(Known) \subseteq Ids(Later(0)) BY DeskRow, DrawnIds, LaterFacts, RowsGrow
      <4> QED BY <4>1
    <3>4. ASSUME NEW r \in Ids(Known), r \notin s.about PROVE MadeFor(r)' \subseteq MadeFor(r)
      BY <2>8, <3>1, <3>3, <3>4 DEF MadeFor, With
    <3> QED BY <1>1, <2>2, <2>3, <2>4, <2>8, <3>2, <3>4, KeepsHardware
  <2>9. CASE s.do = "unassign"
    <3>1. /\ DOMAIN printers' = DOMAIN printers
          /\ \A p \in DOMAIN printers : printers'[p].rental = printers[p].rental
      <4>1. \A p \in DOMAIN printers : printers[p] \in PrinterRows(Known) BY DEF DeskInv, DeskTables, Table
      <4>2. \A p \in DOMAIN printers : [printers[p] EXCEPT !.org = None].rental = printers[p].rental
        BY <4>1 DEF PrinterRows
      <4>3. \/ printers' = printers
            \/ s.id \in DOMAIN printers /\ printers' = With(printers, s.id, [printers[s.id] EXCEPT !.org = None])
        BY <2>4, <2>9 DEF StorePrinter, At
      <4> QED BY <4>2, <4>3 DEF With
    <3>2. RentalPrinterHasRental' BY <1>1, <2>1, <3>1 DEF RentInv, RentalPrinterHasRental
    <3>3. \A r : MadeFor(r)' \subseteq MadeFor(r) BY <3>1 DEF MadeFor
    <3>4. Undone(task[w]) = {} BY <2>6, <2>9 DEF Undone
    <3> QED BY <1>1, <2>2, <2>3, <2>4, <2>9, <3>2, <3>3, <3>4, KeepsHardware
  <2> QED BY <1>3, <2>4, <2>8, <2>9
<1> QED BY <1>2, <1>3 DEF StorePrinter, At

\* Printers are removed.
LEMMA RemovalRents == ASSUME DeskInv, RentInv, NEW w \in Workers, RemovePrinters(w) PROVE RentInv'
<1>1. /\ task[w] # Idle /\ Now(w).do \in {"dropPrinters", "dropPrintersOf"} /\ UNCHANGED <<hardware, rentals>>
      /\ Done(w) /\ Notes(w, {}, {})
  BY DEF RemovePrinters, At
<1>2. /\ desk.loose \subseteq desk'.loose
      /\ Now(w).about \cap UNION {AboutOf(v) : v \in Busy \ {w}} \subseteq desk'.loose
  BY <1>1, NotesLoose
<1>3. PICK u : Runs(w, 0, u) BY <1>1, <1>2, DoneRuns DEF DeskKinds
<1>4. \A i \in 1 .. 0 : u[i].do = "device" \/ (u[i].do = "printer" /\ Agreed(u[i])') OBVIOUS
<1>5. task[w] \in Seq(DeskSteps(Known)) BY <1>1, Statement DEF DeskKinds
<1>6. 1 \in DOMAIN task[w] /\ task[w][1] = Now(w) BY <1>1, <1>5 DEF Now, Idle
<1>7. /\ DOMAIN printers' \subseteq DOMAIN printers \ Undone(task[w])
      /\ \A p \in DOMAIN printers' : printers'[p] = printers[p]
  <2>1. CASE At(w, "dropPrinters") /\ printers' = [p \in DOMAIN printers \ Now(w).gone |-> printers[p]]
    BY <1>6, <2>1 DEF Undone
  <2>2. CASE /\ At(w, "dropPrintersOf")
             /\ printers' = [p \in {q \in DOMAIN printers : printers[q].device # Now(w).id} |-> printers[p]]
    BY <1>6, <2>2 DEF Undone, At
  <2> QED BY <2>1, <2>2 DEF RemovePrinters
<1>8. \A r : MadeFor(r)' \subseteq MadeFor(r) \ Undone(task[w]) BY <1>7 DEF MadeFor
<1>9. RentalPrinterHasRental' BY <1>1, <1>2, <1>7 DEF RentInv, RentalPrinterHasRental
<1> QED BY <1>1, <1>3, <1>4, <1>8, <1>9, KeepsHardware

\* What an agent reports is looked for.
LEMMA SyncRents == ASSUME DeskInv, RentInv, NEW w \in Workers, SyncPrinter(w) PROVE RentInv'
<1>1. /\ task[w] # Idle /\ Now(w).do = "sync" /\ UNCHANGED <<hardware, rentals, printers, desk>>
      /\ \/ Then(w, <<SavePrinter(Token, Printer(Now(w).org, Now(w).id, None, Now(w).local))>>)
         \/ \E p \in DOMAIN printers : Then(w, <<SavePrinter(p, [printers[p] EXCEPT !.local = Now(w).local])>>)
  BY DEF SyncPrinter, At, rental
<1>2. PICK s : /\ s.do = "printer" /\ Then(w, <<s>>)
               /\ s.row.rental = None \/ \E p \in DOMAIN printers : s.row.rental = printers[p].rental
  <2>1. CASE Then(w, <<SavePrinter(Token, Printer(Now(w).org, Now(w).id, None, Now(w).local))>>)
    <3> DEFINE a == SavePrinter(Token, Printer(Now(w).org, Now(w).id, None, Now(w).local))
    <3>1. a.do = "printer" /\ a.row.rental = None BY DEF SavePrinter, Printer
    <3> QED BY <2>1, <3>1
  <2>2. ASSUME NEW p \in DOMAIN printers, Then(w, <<SavePrinter(p, [printers[p] EXCEPT !.local = Now(w).local])>>)
        PROVE  \E s : /\ s.do = "printer" /\ Then(w, <<s>>)
                      /\ s.row.rental = None \/ \E q \in DOMAIN printers : s.row.rental = printers[q].rental
    <3> DEFINE a == SavePrinter(p, [printers[p] EXCEPT !.local = Now(w).local])
    <3>1. printers[p] \in PrinterRows(Known) BY DEF DeskInv, DeskTables, Table
    <3>2. a.do = "printer" /\ a.row.rental = printers[p].rental BY <3>1 DEF SavePrinter, PrinterRows
    <3> QED BY <2>2, <3>2
  <2> QED BY <1>1, <2>1, <2>2
<1>3. Agreed(s)' BY <1>1, <1>2 DEF Agreed, Lent, RentInv, RentalPrinterHasRental
<1>4. task[w] \in Seq(DeskSteps(Known)) /\ task[w] # <<>> BY <1>1, Statement DEF DeskKinds, Idle
<1>5. PICK u : u = <<s>> \o Tail(task[w]) OBVIOUS
<1>6. Follows(task[w], u, 1) /\ \A i \in 1 .. 1 : u[i] = s
  <2>1. /\ Len(u) = Len(task[w]) /\ DOMAIN u = DOMAIN task[w]
        /\ \A i \in DOMAIN task[w] : u[i] = IF i = 1 THEN s ELSE task[w][i]
    BY <1>4, <1>5, InPlace
  <2>2. Len(task[w]) \in Nat \ {0} /\ DOMAIN task[w] = 1 .. Len(task[w])
    BY <1>4, HeadTailProperties, EmptySeq, LenProperties
  <2>3. \A j \in 2 .. Len(task[w]) : 1 + j - 1 = j /\ j # 1 /\ j \in DOMAIN task[w] BY <2>2
  <2> QED BY <2>1, <2>2, <2>3 DEF Follows
<1>7. DOMAIN task = Workers BY DEF DeskInv, RequestsOK
<1>8. task'[w] = u /\ \A v \in Workers \ {w} : task'[v] = task[v] BY <1>2, <1>5, <1>7 DEF Then
<1>9. Runs(w, 1, u)
  <2>1. Now(w).about \cap UNION {AboutOf(v) : v \in Busy \ {w}} \subseteq desk'.loose
    <3>1. Now(w).about = {}
      <4>1. 1 \in DOMAIN task[w] /\ task[w][1] = Now(w) BY <1>4 DEF Now
      <4>2. StatementFits(w, task[w], 1) BY <4>1 DEF RentInv, Fits
      <4> QED BY <1>1, <4>1, <4>2 DEF StatementFits
    <3> QED BY <3>1
  <2> QED BY <1>1, <1>6, <1>8, <2>1 DEF Runs, DeskKinds
<1>10. \A i \in 1 .. 1 : u[i].do = "device" \/ (u[i].do = "printer" /\ Agreed(u[i])') BY <1>2, <1>3, <1>6
<1>11. \A r : MadeFor(r)' \subseteq MadeFor(r) \ Undone(task[w])
  <2>1. Undone(task[w]) = {} BY <1>1, <1>4 DEF Undone, Now
  <2> QED BY <1>1, <2>1 DEF MadeFor
<1>12. RentalPrinterHasRental' BY <1>1 DEF RentInv, RentalPrinterHasRental
<1> QED BY <1>1, <1>9, <1>10, <1>11, <1>12, KeepsHardware

\* A device is moved, and what belongs to it is saved; or it is released.
LEMMA MoveRents == ASSUME DeskInv, RentInv, NEW w \in Workers, MoveDevice(w) PROVE RentInv'
<1>1. /\ task[w] # Idle /\ Now(w).do \in {"move", "release"} /\ UNCHANGED <<hardware, rentals, printers>>
      /\ \E released : Notes(w, {}, released)
      /\ \/ Now(w).do = "release" /\ Done(w)
         \/ /\ Now(w).do = "move"
            /\ Then(w, <<>>) \/ \E row : Then(w, <<SaveDevice(Now(w).id, row, "save")>> \o Now(w).rest)
  BY DEF MoveDevice, At
<1>2. /\ desk.loose \subseteq desk'.loose
      /\ Now(w).about \cap UNION {AboutOf(v) : v \in Busy \ {w}} \subseteq desk'.loose
  BY <1>1, NotesLoose
<1>3. task[w] \in Seq(DeskSteps(Known)) /\ task[w] # <<>> /\ Now(w) \in DeskSteps(Known)
  BY <1>1, Statement DEF DeskKinds, Idle
<1>4. 1 \in DOMAIN task[w] /\ task[w][1] = Now(w) BY <1>3 DEF Now
<1>5. \A r : MadeFor(r)' \subseteq MadeFor(r) \ Undone(task[w])
  <2>1. Undone(task[w]) = {} BY <1>1, <1>4 DEF Undone
  <2> QED BY <1>1, <2>1 DEF MadeFor
<1>6. RentalPrinterHasRental' BY <1>1, <1>2 DEF RentInv, RentalPrinterHasRental
<1>7. DOMAIN task = Workers BY DEF DeskInv, RequestsOK
<1>8. CASE Now(w).do = "release" /\ Done(w)
  <2>1. PICK u : Runs(w, 0, u) BY <1>1, <1>2, <1>8, DoneRuns DEF DeskKinds
  <2>2. \A i \in 1 .. 0 : u[i].do = "device" \/ (u[i].do = "printer" /\ Agreed(u[i])') OBVIOUS
  <2> QED BY <1>1, <1>5, <1>6, <2>1, <2>2, KeepsHardware
<1>9. ASSUME NEW S, DeskSteps(Known) \subseteq S, NEW todo \in Seq(S), Then(w, todo), Now(w).do = "move",
             \A i \in 1 .. Len(todo) : todo[i].do = "device" \/ (todo[i].do = "printer" /\ Agreed(todo[i])')
      PROVE  RentInv'
  <2>1. PICK u : u = todo \o Tail(task[w]) OBVIOUS
  <2>2. task[w] \in Seq(S) BY <1>3, <1>9, SeqGrows
  <2>3. Follows(task[w], u, Len(todo)) /\ \A i \in 1 .. Len(todo) : u[i] = todo[i]
    BY <1>3, <2>1, <2>2, NewAndRest
  <2>4. task'[w] = u /\ \A v \in Workers \ {w} : task'[v] = task[v] BY <1>7, <1>9, <2>1 DEF Then
  <2>5. Runs(w, Len(todo), u) BY <1>1, <1>2, <1>9, <2>3, <2>4 DEF Runs, DeskKinds
  <2>6. \A i \in 1 .. Len(todo) : u[i].do = "device" \/ (u[i].do = "printer" /\ Agreed(u[i])') BY <1>9, <2>3
  <2> QED BY <1>1, <1>5, <1>6, <2>5, <2>6, KeepsHardware
<1>10. CASE Now(w).do = "move" /\ Then(w, <<>>)
  <2>1. <<>> \in Seq(DeskSteps(Known)) /\ \A i \in 1 .. Len(<<>>) : FALSE OBVIOUS
  <2> QED BY <1>9, <1>10, <2>1
<1>11. ASSUME Now(w).do = "move", NEW row, Then(w, <<SaveDevice(Now(w).id, row, "save")>> \o Now(w).rest) PROVE RentInv'
  <2>1. PICK s : s = SaveDevice(Now(w).id, row, "save") OBVIOUS
  <2>2. s.do = "device" BY <2>1 DEF SaveDevice
  <2> DEFINE S == DeskSteps(Known) \cup {s}
             one == <<s>>
             rest == Now(w).rest
             P == PrinterSaves(Known)
  <2>3. Now(w) \in Moves(Known) BY <1>3, <1>11, KindsOfDesk
  <2>4. rest \in Seq(P) /\ P \subseteq S BY <2>3 DEF Moves, DeskSteps, BenchSteps
  <2>5. one \in Seq(S) /\ Len(one) = 1 /\ one[1] = s BY <2>1
  <2>6. \A i \in DOMAIN rest : Agreed(rest[i])
    <3>1. StatementFits(w, task[w], 1) BY <1>4 DEF RentInv, Fits
    <3> QED BY <1>4, <1>11, <3>1 DEF StatementFits, MoveFits
  <2>7. \A p \in P : p.do = "printer" BY DEF PrinterSaves
  <2>8. \A i \in DOMAIN rest : rest[i].do = "printer" BY <2>4, <2>7
  <2>9. PICK r : r = rest OBVIOUS
  <2>10. \A i \in DOMAIN r : r[i].do = "printer" /\ Agreed(r[i])'
    BY <1>1, <1>2, <2>6, <2>8, <2>9 DEF Agreed, Lent
  <2>11. r \in Seq(S)
    <3> HIDE DEF S, P, rest
    <3>1. rest \in Seq(S) BY <2>4, SeqGrows
    <3> QED BY <2>9, <3>1
  <2>12. DeskSteps(Known) \subseteq S OBVIOUS
  <2>13. Then(w, one \o r) BY <1>11, <2>1, <2>9
  <2> HIDE DEF S, one, rest, P
  <2>14. /\ one \o r \in Seq(S) /\ Len(one \o r) = Len(one) + Len(r) /\ Len(r) \in Nat /\ DOMAIN r = 1 .. Len(r)
         /\ \A i \in 1 .. (Len(one) + Len(r)) : (one \o r)[i] = IF i <= Len(one) THEN one[i] ELSE r[i - Len(one)]
    BY <2>5, <2>11, ConcatProperties, LenProperties
  <2>15. ASSUME NEW i \in 1 .. Len(one \o r)
         PROVE  (one \o r)[i].do = "device" \/ ((one \o r)[i].do = "printer" /\ Agreed((one \o r)[i])')
    <3>1. CASE i = 1
      <4>1. (one \o r)[i] = s BY <2>5, <2>14, <3>1
      <4> QED BY <2>2, <4>1
    <3>2. CASE i # 1
      <4>1. i - 1 \in DOMAIN r /\ (one \o r)[i] = r[i - 1] BY <2>5, <2>14, <3>2
      <4>2. PICK a : a = r[i - 1] OBVIOUS
      <4>3. a.do = "printer" /\ Agreed(a)' BY <2>10, <4>1, <4>2
      <4> QED BY <4>1, <4>2, <4>3
    <3> QED BY <3>1, <3>2
  <2>16. PICK todo : todo = one \o r OBVIOUS
  <2>17. \A i \in 1 .. Len(todo) : todo[i].do = "device" \/ (todo[i].do = "printer" /\ Agreed(todo[i])') BY <2>15, <2>16
  <2> QED BY <1>9, <1>11, <2>12, <2>13, <2>14, <2>16, <2>17
<1> QED BY <1>1, <1>8, <1>10, <1>11

\* Hardware is saved, or set free.
LEMMA HardwareRents ==
  ASSUME DeskInv, RentInv, NEW w \in Workers, task[w] # Idle, NEW s, s = Now(w), s.do \in {"hardware", "free"},
         NEW byHand, byHand = (IF s.byHand THEN {s.id} ELSE {}), Done(w), Notes(w, byHand, {}),
         UNCHANGED <<rentals, printers>>,
         \A h \in DOMAIN hardware' : h # s.id => h \in DOMAIN hardware /\ hardware'[h] = hardware[h],
         s.do = "hardware" => hardware' = With(hardware, s.id, s.row),
         s.do = "free" => DOMAIN hardware' = DOMAIN hardware
  PROVE  RentInv'
<1>1. /\ desk.loose \subseteq desk'.loose /\ byHand \subseteq desk'.loose
      /\ Now(w).about \cap UNION {AboutOf(v) : v \in Busy \ {w}} \subseteq desk'.loose
  BY NotesLoose
<1>2. PICK u : Runs(w, 0, u) BY <1>1, DoneRuns DEF DeskKinds
<1>3. \A i \in 1 .. 0 : u[i].do = "device" \/ (u[i].do = "printer" /\ Agreed(u[i])') OBVIOUS
<1>4. PICK t : t = task[w] OBVIOUS
<1>5. t \in Seq(DeskSteps(Known)) /\ t # <<>> BY <1>4, Statement DEF DeskKinds, Idle
<1>6. 1 \in DOMAIN t /\ t[1] = s BY <1>4, <1>5 DEF Now
<1>7. StatementFits(w, t, 1) BY <1>4, <1>6 DEF RentInv, Fits
<1>8. \A x : Deals(x)' = Deals(x) BY DEF Deals
<1>9. \A r : MadeFor(r)' \subseteq MadeFor(r) \ Undone(task[w]) BY <1>4, <1>6 DEF MadeFor, Undone
<1>10. RentalPrinterHasRental' BY <1>1 DEF RentInv, RentalPrinterHasRental
<1>11. \A v \in Workers \ {w} : task'[v] = task[v] BY <1>2 DEF Runs
<1>12. ASSUME NEW h \in DOMAIN hardware', h \notin desk'.loose, h # s.id PROVE Promised(h)'
  <2>1. Promised(h) BY <1>1, <1>12 DEF RentInv
  <2>2. \A v \in Workers : Marks(v, h) => Marks(v, h)' BY <1>11, <1>12 DEF Marks, At, Now
  <2> QED BY <1>8, <1>12, <2>1, <2>2, PromiseStays
<1>13. ASSUME s.id \in DOMAIN hardware', s.id \notin desk'.loose PROVE Promised(s.id)'
  <2>1. ~ s.byHand /\ s.id \notin desk.loose BY <1>1, <1>13
  <2>2. \A q, r \in Deals(s.id)' : q = r
    <3>1. CASE s.id \in DOMAIN hardware BY <1>8, <2>1, <3>1 DEF RentInv, Promised
    <3>2. CASE s.id \notin DOMAIN hardware
      <4>1. Deals(s.id) = {} BY <3>2, DeskLinks DEF Deals
      <4> QED BY <1>8, <4>1
    <3> QED BY <3>1, <3>2
  <2>3. ASSUME hardware'[s.id].status = "available"
        PROVE  Deals(s.id)' = {} \/ \E v \in Workers : Marks(v, s.id)'
    <3>1. CASE s.do = "hardware"
      <4>1. s.row.status = "available" BY <2>3, <3>1 DEF With
      <4>2. Vacant(w, s.id) BY <1>6, <1>7, <2>1, <3>1, <4>1 DEF StatementFits, SaveFits
      <4> QED BY <1>8, <1>11, <4>2 DEF Vacant, Marks, At, Now
    <3>2. CASE s.do = "free"
      <4>1. 1 = Len(t) /\ \A r \in Deals(s.id) : Ends(t, r) BY <1>6, <1>7, <2>1, <3>2 DEF StatementFits, FreeFits
      <4>2. DOMAIN t = {1} BY <1>5, <4>1, LenProperties
      <4>3. Deals(s.id) = {} BY <1>6, <3>2, <4>1, <4>2 DEF Ends
      <4> QED BY <1>8, <4>3
    <3> QED BY <3>1, <3>2
  <2> QED BY <2>2, <2>3 DEF Promised
<1>14. \A r \in Ids(Known) : r \in Now(w).about \/ MadeFor(r)' \subseteq MadeFor(r) BY <1>9
<1> QED BY <1>2, <1>3, <1>9, <1>10, <1>12, <1>13, <1>14, KeepsRentals

\* Hardware is removed, and its rentals with it.
LEMMA DropRents ==
  ASSUME DeskInv, RentInv, NEW w \in Workers, At(w, "dropHardware"), Done(w), NEW h, h = Now(w).id, NEW lost,
         lost = {r \in DOMAIN rentals : rentals[r].hardware = h}, hardware' = Without(hardware, h),
         rentals' = [r \in DOMAIN rentals \ lost |-> rentals[r]], UNCHANGED printers,
         desk.loose \subseteq desk'.loose, h \in desk'.loose => lost \subseteq desk'.loose,
         Now(w).about \cap UNION {AboutOf(v) : v \in Busy \ {w}} \subseteq desk'.loose
  PROVE  RentInv'
<1>1. task[w] # Idle /\ Now(w).do = "dropHardware" BY DEF At
<1>2. PICK t : t = task[w] OBVIOUS
<1>3. t \in Seq(DeskSteps(Known)) /\ t # <<>> BY <1>1, <1>2, Statement DEF DeskKinds, Idle
<1>4. 1 \in DOMAIN t /\ t[1] = Now(w) BY <1>2, <1>3 DEF Now
<1>5. Len(t) = 1 /\ (h \in desk.loose \/ Deals(h) = {})
  <2>1. StatementFits(w, t, 1) BY <1>2, <1>4 DEF RentInv, Fits
  <2> QED BY <1>1, <1>4, <2>1 DEF StatementFits
<1>6. Now(w).about = {h} BY <1>1, <1>2, <1>4, SaysAbout DEF DeskKinds
<1>7. DOMAIN task = Workers BY DEF DeskInv, RequestsOK
<1>8. task'[w] = <<>> /\ \A v \in Workers \ {w} : task'[v] = task[v]
  <2>1. Tail(t) = <<>> BY <1>3, <1>5, LastStatement
  <2> QED BY <1>2, <1>7, <2>1 DEF Done
<1>9. ASSUME NEW r, Lent(r), r \notin desk'.loose PROVE Lent(r)'
  <2>1. r \notin lost BY <1>5, <1>9 DEF Deals, Lent, Live
  <2> QED BY <1>9, <2>1 DEF Lent
<1>10. ASSUME NEW x, x # h
       PROVE  /\ Deals(x)' = Deals(x)
              /\ \A r \in DOMAIN rentals : rentals[r].hardware = x => r \in DOMAIN rentals' /\ rentals'[r] = rentals[r]
              /\ \A r \in DOMAIN rentals' : rentals'[r].hardware = x => r \in DOMAIN rentals
  BY <1>10 DEF Deals
<1>11. \A x, v : v \in Workers /\ Marks(v, x) => Marks(v, x)'
  <2> SUFFICES ASSUME NEW x, NEW v \in Workers, Marks(v, x) PROVE Marks(v, x)' OBVIOUS
  <2>1. v # w BY <1>1 DEF Marks, At
  <2> QED BY <1>8, <2>1 DEF Marks, At, Now
<1>12. ASSUME NEW v \in Workers \ {w}, NEW x \in AboutOf(v), x \notin desk'.loose PROVE Spared(x)
  <2>1. x \notin Now(w).about BY <1>12, Alone
  <2>2. x # h BY <1>6, <2>1
  <2>3. MadeFor(x)' = MadeFor(x) BY DEF MadeFor
  <2> QED BY <1>9, <1>10, <1>11, <1>12, <2>2, <2>3 DEF Spared
<1>13. ASSUME NEW r, NEW g, Lends(r, g)' PROVE Lends(r, g)
  <2>1. CASE r \in DOMAIN rentals' /\ rentals'[r].hardware = g BY <2>1 DEF Lends
  <2>2. ASSUME NEW v \in Workers, NEW i \in DOMAIN task'[v], task'[v][i].do = "rental", task'[v][i].id = r,
               task'[v][i].row.hardware = g
        PROVE  Lends(r, g)
    <3>1. v # w
      <4>1. DOMAIN <<>> = {} OBVIOUS
      <4> QED BY <1>8, <2>2, <4>1
    <3> QED BY <1>8, <2>2, <3>1 DEF Lends
  <2> QED BY <1>13, <2>1, <2>2 DEF Lends
<1>14. OneHardware' BY <1>13, OneHardwareStays DEF RentInv
<1>15. \A v \in Workers : Fits(v, task[v])'
  <2>1. Fits(w, task[w])' BY <1>8, IdleFits DEF Idle
  <2>2. ASSUME NEW v \in Workers \ {w} PROVE Fits(v, task[v])' BY <1>8, <1>12, <1>14, OthersFit DEF RentInv
  <2> QED BY <2>1, <2>2
<1>16. ASSUME NEW g \in DOMAIN hardware', g \notin desk'.loose PROVE Promised(g)'
  <2>1. g # h /\ g \in DOMAIN hardware /\ hardware'[g] = hardware[g] BY <1>16 DEF Without
  <2>2. Promised(g) BY <1>16, <2>1 DEF RentInv
  <2> QED BY <1>10, <1>11, <2>1, <2>2, PromiseStays
<1>17. RentalPrinterHasRental' BY <1>9 DEF RentInv, RentalPrinterHasRental, Lent
<1> QED BY <1>14, <1>15, <1>16, <1>17 DEF RentInv

\* Every statement about hardware.
LEMMA StoreHardwareRents == ASSUME DeskInv, RentInv, NEW w \in Workers, StoreHardware(w) PROVE RentInv'
<1>1. PICK s : s = Now(w) OBVIOUS
<1>2. PICK byHand : byHand = IF At(w, "dropHardware") \/ ~ s.byHand THEN {} ELSE {s.id} OBVIOUS
<1>3. PICK lost : lost = {r \in DOMAIN rentals : rentals[r].hardware = s.id} OBVIOUS
<1>4. UNCHANGED printers BY DEF StoreHardware
<1>5. CASE /\ At(w, "hardware") /\ UNCHANGED rentals /\ Done(w) /\ Notes(w, byHand, {})
           /\ hardware' = With(hardware, s.id, s.row)
  <2>1. task[w] # Idle /\ s.do = "hardware" BY <1>1, <1>5 DEF At
  <2>2. byHand = IF s.byHand THEN {s.id} ELSE {} BY <1>1, <1>2, <2>1 DEF At
  <2>3. \A h \in DOMAIN hardware' : h # s.id => h \in DOMAIN hardware /\ hardware'[h] = hardware[h] BY <1>5 DEF With
  <2> QED BY <1>1, <1>4, <1>5, <2>1, <2>2, <2>3, HardwareRents
<1>6. CASE /\ At(w, "free") /\ UNCHANGED rentals /\ Done(w) /\ Notes(w, byHand, {})
           /\ hardware' = IF s.id \in DOMAIN hardware
                          THEN With(hardware, s.id, [hardware[s.id] EXCEPT !.status = "available"]) ELSE hardware
  <2>1. task[w] # Idle /\ s.do = "free" BY <1>1, <1>6 DEF At
  <2>2. byHand = IF s.byHand THEN {s.id} ELSE {} BY <1>1, <1>2, <2>1 DEF At
  <2>3. /\ \A h \in DOMAIN hardware' : h # s.id => h \in DOMAIN hardware /\ hardware'[h] = hardware[h]
        /\ DOMAIN hardware' = DOMAIN hardware
    BY <1>6 DEF With
  <2> QED BY <1>1, <1>4, <1>6, <2>1, <2>2, <2>3, HardwareRents
<1>7. CASE CutShort(w) /\ UNCHANGED <<hardware, rentals>> BY <1>4, <1>7, CutShortRents
<1>8. CASE /\ At(w, "dropHardware") /\ Done(w) /\ hardware' = Without(hardware, s.id)
           /\ rentals' = [r \in DOMAIN rentals \ lost |-> rentals[r]]
           /\ desk' = IF s.id \in Noted(w, {}, {}).loose THEN [Noted(w, {}, {}) EXCEPT !.loose = @ \cup lost]
                      ELSE Noted(w, {}, {})
  <2>1. PICK near : near = Now(w).about \cap UNION {AboutOf(v) : v \in Busy \ {w}} OBVIOUS
  <2>2. Noted(w, {}, {}) = [loose |-> desk.loose \cup near, released |-> desk.released]
    BY <2>1 DEF Noted
  <2>3. /\ desk.loose \cup near \subseteq desk'.loose
        /\ s.id \in desk'.loose => lost \subseteq desk'.loose
    <3>1. PICK noted : noted = Noted(w, {}, {}) OBVIOUS
    <3>2. noted.loose = desk.loose \cup near /\ noted = [loose |-> noted.loose, released |-> noted.released]
      BY <2>2, <3>1
    <3>3. CASE s.id \in noted.loose
      <4>1. desk' = [noted EXCEPT !.loose = @ \cup lost] BY <1>8, <3>1, <3>3
      <4>2. desk'.loose = noted.loose \cup lost BY <3>2, <4>1
      <4> QED BY <3>2, <4>2
    <3>4. CASE s.id \notin noted.loose
      <4>1. desk' = noted BY <1>8, <3>1, <3>4
      <4> QED BY <3>2, <3>4, <4>1
    <3> QED BY <3>3, <3>4
  <2>4. PICK h : h = s.id OBVIOUS
  <2>5. h = Now(w).id /\ lost = {r \in DOMAIN rentals : rentals[r].hardware = h} BY <1>1, <1>3, <2>4
  <2>6. /\ hardware' = Without(hardware, h) /\ rentals' = [r \in DOMAIN rentals \ lost |-> rentals[r]]
        /\ At(w, "dropHardware") /\ Done(w)
    BY <1>8, <2>4
  <2>7. desk.loose \subseteq desk'.loose /\ (h \in desk'.loose => lost \subseteq desk'.loose) BY <2>3, <2>4
  <2>8. Now(w).about \cap UNION {AboutOf(v) : v \in Busy \ {w}} \subseteq desk'.loose BY <2>1, <2>3
  <2> QED BY <1>4, <2>5, <2>6, <2>7, <2>8, DropRents
<1> QED BY <1>1, <1>2, <1>3, <1>5, <1>6, <1>7, <1>8 DEF StoreHardware

\* A rental is saved.
LEMMA RentalRents == ASSUME DeskInv, RentInv, NEW w \in Workers, StoreRental(w) PROVE RentInv'
<1>1. task[w] # Idle /\ Now(w).do = "rental" /\ UNCHANGED <<hardware, printers>> BY DEF StoreRental, At
<1>2. CASE CutShort(w) /\ UNCHANGED rentals BY <1>1, <1>2, CutShortRents
<1>3. CASE rentals' = With(rentals, Now(w).id, Now(w).row) /\ Done(w) /\ Notes(w, {}, {})
  <2>1. PICK s : s = Now(w) OBVIOUS
  <2>2. PICK t : t = task[w] OBVIOUS
  <2>3. t \in Seq(DeskSteps(Known)) /\ t # <<>> BY <1>1, <2>2, Statement DEF DeskKinds, Idle
  <2>4. 1 \in DOMAIN t /\ t[1] = s BY <2>1, <2>2, <2>3 DEF Now
  <2>5. RentalFits(w, t, 1) /\ EndFits(t, 1) BY <1>1, <2>1, <2>2, <2>4 DEF RentInv, Fits, StatementFits
  <2>6. s.about = {s.id, s.row.hardware} BY <1>1, <2>1, <2>2, <2>4, SaysAbout DEF DeskKinds
  <2>7. /\ desk.loose \subseteq desk'.loose
        /\ Now(w).about \cap UNION {AboutOf(v) : v \in Busy \ {w}} \subseteq desk'.loose
    BY <1>3, NotesLoose
  <2>8. PICK u : Runs(w, 0, u) BY <1>1, <1>3, <2>7, DoneRuns DEF DeskKinds
  <2>9. task'[w] = u /\ Follows(t, u, 0) /\ \A v \in Workers \ {w} : task'[v] = task[v] BY <2>2, <2>8 DEF Runs
  <2>10. Lends(s.id, s.row.hardware) BY <1>1, <2>1, <2>2, <2>4 DEF Lends
  <2>11. /\ \A x : x # s.row.hardware => Deals(x)' = Deals(x)
         /\ Renews(s) => \A x : Deals(x)' \subseteq Deals(x)
         /\ s.row.status \notin Live => \A x : s.id \notin Deals(x)'
         /\ \A x, q : q \in Deals(x)' => q = s.id \/ q \in Deals(x)
    BY <1>3, <2>1, <2>10, DealsAfter DEF RentInv
  <2>12. s.id \in DOMAIN rentals => rentals[s.id].hardware = s.row.hardware
    BY <2>10 DEF RentInv, OneHardware, Lends
  <2>13. /\ DOMAIN rentals' = DOMAIN rentals \cup {s.id}
         /\ \A r \in DOMAIN rentals' : rentals'[r] = IF r = s.id THEN s.row ELSE rentals[r]
    BY <1>3, <2>1 DEF With
  <2>14. \A x, v : v \in Workers /\ Marks(v, x) => v # w /\ Marks(v, x)'
    <3> SUFFICES ASSUME NEW x, NEW v \in Workers, Marks(v, x) PROVE v # w /\ Marks(v, x)' OBVIOUS
    <3>1. v # w BY <1>1 DEF Marks, At
    <3> QED BY <2>9, <3>1 DEF Marks, At, Now
  <2>15. ASSUME NEW v \in Workers \ {w}, NEW x \in AboutOf(v), x \notin desk'.loose PROVE Spared(x)
    <3>1. x \notin Now(w).about BY <2>7, <2>15, Alone
    <3>2. x # s.id /\ x # s.row.hardware BY <2>1, <2>6, <3>1
    <3>3. MadeFor(x)' = MadeFor(x) BY <1>1 DEF MadeFor
    <3>4. Lent(x) => Lent(x)' BY <2>13, <3>2 DEF Lent
    <3>5. /\ \A r \in DOMAIN rentals : rentals[r].hardware = x => r \in DOMAIN rentals' /\ rentals'[r] = rentals[r]
          /\ \A r \in DOMAIN rentals' : rentals'[r].hardware = x => r \in DOMAIN rentals
      BY <2>12, <2>13, <3>2
    <3> QED BY <2>11, <2>14, <3>2, <3>3, <3>4, <3>5 DEF Spared
  <2>16. ASSUME NEW r, NEW g, Lends(r, g)' PROVE Lends(r, g)
    <3>1. CASE r \in DOMAIN rentals' /\ rentals'[r].hardware = g BY <2>10, <2>13, <3>1 DEF Lends
    <3>2. ASSUME NEW v \in Workers, NEW i \in DOMAIN task'[v], task'[v][i].do = "rental", task'[v][i].id = r,
                 task'[v][i].row.hardware = g
          PROVE  Lends(r, g)
      <4>1. CASE v # w BY <2>9, <3>2, <4>1 DEF Lends
      <4>2. CASE v = w
        <5>1. i \in DOMAIN u BY <2>9, <3>2, <4>2
        <5>2. i \notin 1 .. 0 OBVIOUS
        <5>3. PICK j \in 2 .. Len(t) : u[i] = t[j] /\ j \in DOMAIN t BY <2>9, <5>1, <5>2, ComesFrom
        <5> QED BY <2>2, <2>9, <3>2, <4>2, <5>3 DEF Lends
      <4> QED BY <4>1, <4>2
    <3> QED BY <2>16, <3>1, <3>2 DEF Lends
  <2>17. OneHardware' BY <2>16, OneHardwareStays DEF RentInv
  <2>18. \A v \in Workers : Fits(v, task[v])'
    <3>1. Fits(w, u)'
      <4>1. Fits(w, t) BY <2>2 DEF RentInv
      <4>2. rentals' = With(rentals, t[1].id, t[1].row) /\ t[1].do = "rental" BY <1>1, <1>3, <2>1, <2>4
      <4> QED BY <1>1, <2>2, <2>7, <2>9, <4>1, <4>2, RentalRestFits DEF RentInv
    <3>2. Fits(w, task[w])' BY <2>9, <3>1
    <3>3. ASSUME NEW v \in Workers \ {w} PROVE Fits(v, task[v])'
      BY <2>7, <2>9, <2>15, <2>17, OthersFit DEF RentInv
    <3> QED BY <3>2, <3>3
  <2>19. ASSUME NEW g \in DOMAIN hardware', g \notin desk'.loose PROVE Promised(g)'
    <3>1. g \in DOMAIN hardware /\ g \notin desk.loose /\ Promised(g) BY <1>1, <2>7, <2>19 DEF RentInv
    <3>2. CASE Deals(g)' \subseteq Deals(g) BY <1>1, <2>14, <3>1, <3>2, PromiseStays
    <3>3. CASE g = s.row.hardware /\ ~ Renews(s)
      <4>1. Opens(w, t) BY <2>4, <2>5, <3>1, <3>3 DEF RentalFits
      <4>2. Vacant(w, g) BY <2>4, <3>3, <4>1 DEF Opens
      <4>3. ASSUME NEW v \in Workers \ {w}, Marks(v, g) PROVE FALSE
        <5>1. g \in AboutOf(v) BY <4>3, MarksAbout
        <5>2. g \in Now(w).about BY <2>1, <2>6, <3>3
        <5> QED BY <2>7, <2>19, <5>1, <5>2, Alone
      <4>4. Deals(g) = {} BY <4>2, <4>3 DEF Vacant
      <4>5. \A q \in Deals(g)' : q = s.id BY <2>11, <4>4
      <4>6. Marks(w, g)'
        <5>1. t[2].do = "hardware" /\ t[2].id = g /\ t[2].row.status = "rented" /\ Len(t) = 2
          BY <2>4, <3>3, <4>1 DEF Opens
        <5>2. 2 \in DOMAIN t /\ u[1] = t[2] /\ 1 \in DOMAIN u
          <6>1. 2 \in 2 .. Len(t) /\ 0 + 2 - 1 = 1 /\ Len(u) = 0 + Len(t) - 1 /\ DOMAIN u = 1 .. Len(u)
                /\ DOMAIN t = 1 .. Len(t)
            BY <2>9, <5>1 DEF Follows
          <6>2. u[0 + 2 - 1] = t[2] BY <2>9, <6>1 DEF Follows
          <6> QED BY <5>1, <6>1, <6>2
        <5>3. u # Idle /\ Head(u) = u[1]
          <6>1. DOMAIN Idle = {} BY DEF Idle
          <6>2. Head(u) = u[1] OBVIOUS
          <6> QED BY <5>2, <6>1, <6>2
        <5> QED BY <2>9, <5>1, <5>2, <5>3 DEF Marks, At, Now
      <4> QED BY <4>5, <4>6 DEF Promised
    <3> QED BY <2>11, <3>2, <3>3
  <2>20. RentalPrinterHasRental'
    <3> SUFFICES ASSUME NEW p \in DOMAIN printers, printers[p].rental # None, printers[p].rental \notin desk'.loose
                 PROVE  Lent(printers[p].rental)'
      BY <1>1 DEF RentalPrinterHasRental, Lent
    <3>1. PICK r : r = printers[p].rental OBVIOUS
    <3>2. Lent(r) BY <2>7, <3>1 DEF RentInv, RentalPrinterHasRental, Lent
    <3>3. CASE r # s.id
      <4>1. Lent(r)' BY <2>13, <3>2, <3>3 DEF Lent
      <4> QED BY <1>1, <3>1, <4>1
    <3>4. CASE r = s.id
      <4>1. p \in MadeFor(s.id) BY <3>1, <3>4 DEF MadeFor
      <4>2. Undone(t) = {} BY <1>1, <2>1, <2>4 DEF Undone
      <4>3. s.row.status \in {"confirmed", "active"} BY <2>4, <2>5, <2>7, <3>1, <3>4, <4>1, <4>2 DEF EndFits
      <4>4. Lent(r)' BY <2>13, <3>4, <4>3 DEF Lent
      <4> QED BY <1>1, <3>1, <4>4
    <3> QED BY <3>3, <3>4
  <2> QED BY <2>17, <2>18, <2>19, <2>20 DEF RentInv
<1> QED BY <1>2, <1>3 DEF StoreRental

-----------------------------------------------------------------------------
(* Steps outside the desk: a stop, a plan that has nothing to do with the desk, or a *)
(* statement of such a plan or of a device.                                          *)

Starting(w) ==
  /\ task[w] = Idle /\ \A v \in Workers \ {w} : task'[v] = task[v]
  /\ \A i \in DOMAIN task'[w] : task'[w][i].do \notin DeskKinds
Going(w) == task[w] # Idle /\ Now(w).do \notin DeskKinds /\ (Done(w) \/ Fail(w))
Aside == UNCHANGED task \/ Crash \/ \E w \in Workers : Starting(w) \/ Going(w)

\* A plan that starts, by the kinds of its statements.
LEMMA PlanStarts ==
  ASSUME DeskInv, NEW w \in Workers, NEW K, NEW S, NEW todo \in Seq(S), \A s \in S : s.do \in K,
         K \cap DeskKinds = {}, Start(w, todo)
  PROVE  Starting(w)
<1>1. task' = [task EXCEPT ![w] = todo] /\ task[w] = Idle BY StartAdds
<1>2. DOMAIN task = Workers BY DEF DeskInv, RequestsOK
<1>3. \A i \in DOMAIN todo : todo[i].do \in K OBVIOUS
<1> QED BY <1>1, <1>2, <1>3 DEF Starting

\* A plan of one statement.
LEMMA OneStarts ==
  ASSUME DeskInv, NEW w \in Workers, NEW s, s.do \notin DeskKinds, Start(w, <<s>>)
  PROVE  Starting(w)
<1>1. PICK todo : todo = <<s>> OBVIOUS
<1>2. PICK S : S = {s} OBVIOUS
<1>3. PICK K : K = {s.do} OBVIOUS
<1>4. todo \in Seq(S) /\ Start(w, todo) BY <1>1, <1>2
<1>5. (\A t \in S : t.do \in K) /\ K \cap DeskKinds = {} BY <1>2, <1>3
<1> QED BY <1>4, <1>5, PlanStarts

\* Kinds that are not the desk's.
LEMMA KindsApart ==
  AccountKinds \cap DeskKinds = {} /\ CompanyKinds \cap DeskKinds = {} /\ FleetKinds \cap DeskKinds = {}
BY DEF AccountKinds, CompanyKinds, FleetKinds, DeskKinds

\* Plans outside the desk.
LEMMA OtherPlans ==
  ASSUME DeskInv, NEW w \in Workers
  PROVE  /\ \A n \in 0 .. 2 : \A todo : AccountPlan(w, n, todo) => Starting(w)
         /\ \A n \in 0 .. 2 : \A s : CompanyPlan(w, n, s) => Starting(w)
         /\ \A n \in 0 .. 2 : \A s : FleetPlan(w, n, s) => Starting(w)
         /\ \A u : AnonymizeUser(u) \in Seq(AccountSteps(Later(0))) /\ Ask(w, AnonymizeUser(u)) => Starting(w)
<1>1. ASSUME NEW n \in 0 .. 2, NEW todo, AccountPlan(w, n, todo) PROVE Starting(w)
  <2>1. todo \in Seq(AccountSteps(Later(n))) /\ Start(w, todo) BY <1>1 DEF AccountPlan, Reply
  <2>2. \A s \in AccountSteps(Later(n)) : s.do \in AccountKinds BY KindsOfAccounts
  <2> QED BY <2>1, <2>2, KindsApart, PlanStarts
<1>2. ASSUME NEW n \in 0 .. 2, NEW s, CompanyPlan(w, n, s) PROVE Starting(w)
  <2>1. Start(w, <<s>>) BY <1>2 DEF CompanyPlan, Ask, Reply
  <2>2. s.do \in CompanyKinds BY <1>2, KindsOfCompany DEF CompanyPlan
  <2> QED BY <2>1, <2>2, KindsApart, OneStarts
<1>3. ASSUME NEW n \in 0 .. 2, NEW s, FleetPlan(w, n, s) PROVE Starting(w)
  <2>1. Start(w, <<s>>) BY <1>3 DEF FleetPlan, Call, Ask, Reply
  <2>2. s.do \in FleetKinds BY <1>3, KindsOfFleet DEF FleetPlan
  <2> QED BY <2>1, <2>2, KindsApart, OneStarts
<1>4. ASSUME NEW u, AnonymizeUser(u) \in Seq(AccountSteps(Later(0))), Ask(w, AnonymizeUser(u)) PROVE Starting(w)
  <2>1. PICK todo : todo = AnonymizeUser(u) OBVIOUS
  <2>2. todo \in Seq(AccountSteps(Later(0))) /\ Start(w, todo) BY <1>4, <2>1 DEF Ask, Reply
  <2>3. \A s \in AccountSteps(Later(0)) : s.do \in AccountKinds BY KindsOfAccounts
  <2> QED BY <2>2, <2>3, KindsApart, PlanStarts
<1> QED BY <1>1, <1>2, <1>3, <1>4

\* What a step outside the desk does to the plans.
LEMMA FleetNextAside == ASSUME DeskInv, FleetNext PROVE Aside
<1>1. ASSUME AccountsNext PROVE Aside
  <2>1. ASSUME NEW w \in Workers,
               \/ \E u \in Users : AccountRequest(w, u) \/ FactorRequest(w, u)
               \/ \E s \in DOMAIN sessions : RefreshTokens(w, s) \/ RefreshExpired(w, s)
        PROVE  Aside
    BY <2>1, AccountRequests, OtherPlans DEF Aside
  <2>2. ASSUME NEW w \in Workers, AccountStep(w) PROVE Aside
    <3>1. task[w] # Idle /\ (Done(w) \/ Fail(w))
      BY <2>2 DEF AccountStep, StoreUser, StoreSession, RevokeSessions, StoreOtp, StoreTrust, At
    <3>2. Now(w).do \notin DeskKinds
      BY <2>2 DEF AccountStep, StoreUser, StoreSession, RevokeSessions, StoreOtp, StoreTrust, At, DeskKinds
    <3> QED BY <3>1, <3>2 DEF Aside, Going
  <2>3. ASSUME NEW t, Expire(t) PROVE Aside BY <2>3 DEF Expire, requests, Aside
  <2>4. CASE Stop BY <2>4 DEF Stop, Aside
  <2> QED BY <1>1, <2>1, <2>2, <2>3, <2>4 DEF AccountsNext
<1>2. ASSUME NEW w \in Workers, NEW a \in Users, CompanyRequest(w, a) PROVE Aside
  BY <1>2, CompanyRequests, OtherPlans DEF Aside
<1>3. ASSUME NEW w \in Workers, CompanyStep(w) PROVE Aside
  <2>1. task[w] # Idle /\ (Done(w) \/ Fail(w))
    BY <1>3 DEF CompanyStep, FoundOrganization, StoreOrganization, StoreMember, DropMember, StoreInvitation, At
  <2>2. Now(w).do \notin DeskKinds
    BY <1>3 DEF CompanyStep, FoundOrganization, StoreOrganization, StoreMember, DropMember, StoreInvitation, At, DeskKinds
  <2> QED BY <2>1, <2>2 DEF Aside, Going
<1>4. ASSUME NEW w \in Workers, FleetRequest(w) PROVE Aside
  BY <1>4, FleetRequests, OtherPlans DEF Aside
<1>5. ASSUME NEW w \in Workers, StoreDevice(w) \/ SetColumns(w) \/ DropDevice(w) PROVE Aside
  <2>1. task[w] # Idle /\ Done(w) BY <1>5 DEF StoreDevice, SetColumns, DropDevice, At
  <2>2. Now(w).do \notin DeskKinds BY <1>5 DEF StoreDevice, SetColumns, DropDevice, At, DeskKinds
  <2> QED BY <2>1, <2>2 DEF Aside, Going
<1> QED BY <1>1, <1>2, <1>3, <1>4, <1>5 DEF FleetNext, MembershipsNext

\* A step outside the desk.
LEMMA ElsewhereRents == ASSUME DeskInv, RentInv, Elsewhere PROVE RentInv'
<1>1. /\ Aside /\ hardware' = Unlink(hardware) /\ printers' = Unlink(printers) /\ UNCHANGED rentals
  BY FleetNextAside DEF Elsewhere
<1>2. PICK S : S = UNION {AboutOf(v) : v \in Busy} OBVIOUS
<1>3. desk' = IF load'.crashes = load.crashes THEN desk ELSE [desk EXCEPT !.loose = @ \cup S]
  BY <1>2 DEF Elsewhere
<1>4. desk \in [loose : SUBSET Ids(Known), released : SUBSET Ids(Known)] BY DEF DeskInv, DeskTables
<1>5. desk.loose \subseteq desk'.loose /\ (load'.crashes # load.crashes => S \subseteq desk'.loose) BY <1>3, <1>4
<1>6. DOMAIN task = Workers /\ load \in [requests : 0..MaxRequests, crashes : 0..MaxCrashes]
  BY DEF DeskInv, RequestsOK
<1>7. DOMAIN hardware' = DOMAIN hardware /\ \A h \in DOMAIN hardware : hardware'[h].status = hardware[h].status
  <2>1. \A h \in DOMAIN hardware : hardware[h] \in HardwareRows(Known) BY DEF DeskInv, DeskTables, Table
  <2>2. \A h \in DOMAIN hardware : [hardware[h] EXCEPT !.device = None].status = hardware[h].status
    BY <2>1 DEF HardwareRows
  <2> QED BY <1>1, <2>2 DEF Unlink
<1>8. DOMAIN printers' = DOMAIN printers /\ \A p \in DOMAIN printers : printers'[p].rental = printers[p].rental
  <2>1. \A p \in DOMAIN printers : printers[p] \in PrinterRows(Known) BY DEF DeskInv, DeskTables, Table
  <2>2. \A p \in DOMAIN printers : [printers[p] EXCEPT !.device = None].rental = printers[p].rental
    BY <2>1 DEF PrinterRows
  <2> QED BY <1>1, <2>2 DEF Unlink
<1>9. ASSUME OneHardware', \A v \in Workers : task'[v] = task[v] \/ Fits(v, task[v])',
             \A v \in Workers : task'[v] = task[v] \/ \A x : Marks(v, x) => x \in desk'.loose
      PROVE  RentInv'
  BY <1>1, <1>5, <1>7, <1>8, <1>9, WorldStays
<1>10. DOMAIN Idle = {} BY DEF Idle
<1>11. CASE UNCHANGED task
  <2>1. OneHardware' BY <1>1, <1>11, FewerLends DEF RentInv
  <2> QED BY <1>9, <1>11, <2>1
<1>12. CASE Crash
  <2>1. load'.crashes # load.crashes BY <1>6, <1>12 DEF Crash
  <2>2. \A v \in Workers : task'[v] = Idle BY <1>12 DEF Crash
  <2>3. OneHardware' BY <1>1, <1>10, <2>2, FewerLends DEF RentInv
  <2>4. ASSUME NEW v \in Workers, NEW x, Marks(v, x) PROVE x \in desk'.loose
    <3>1. x \in AboutOf(v) BY <2>4, MarksAbout
    <3>2. v \in Busy BY <2>4 DEF Marks, At, Busy
    <3> QED BY <1>2, <1>5, <2>1, <3>1, <3>2
  <2> QED BY <1>9, <2>2, <2>3, <2>4, IdleFits
<1>13. ASSUME NEW w \in Workers, Starting(w) PROVE RentInv'
  <2>1. \A i \in DOMAIN task'[w] : task'[w][i].do \notin DeskKinds BY <1>13 DEF Starting
  <2>2. OneHardware'
    <3>1. \A v \in Workers : \A i \in DOMAIN task'[v] :
            task'[v][i].do # "rental" \/ \E j \in DOMAIN task[v] : task[v][j] = task'[v][i]
      BY <1>13, <2>1 DEF Starting, DeskKinds
    <3> QED BY <1>1, <3>1, FewerLends DEF RentInv
  <2>3. Fits(w, task[w])'
    <3>1. PICK u : u = task'[w] OBVIOUS
    <3>2. Fits(w, u)' BY <2>1, <3>1 DEF Fits, StatementFits, DeskKinds
    <3> QED BY <3>1, <3>2
  <2>4. \A x : ~ Marks(w, x) BY <1>13 DEF Starting, Marks, At
  <2> QED BY <1>9, <1>13, <2>2, <2>3, <2>4 DEF Starting
<1>14. ASSUME NEW w \in Workers, Going(w) PROVE RentInv'
  <2>1. PICK t : t = task[w] OBVIOUS
  <2>2. \E K : t \in Seq(K)
    <3>1. task[w] \in Plans(Known) BY DEF DeskInv
    <3> QED BY <2>1, <3>1 DEF Plans
  <2>3. PICK K : t \in Seq(K) BY <2>2
  <2>4. t # <<>> /\ t[1].do \notin DeskKinds /\ \A v \in Workers \ {w} : task'[v] = task[v]
    BY <1>6, <1>14, <2>1, <2>3 DEF Going, Done, Fail, Idle, Now
  <2>5. PICK u : u = Tail(t) OBVIOUS
  <2>6. Follows(t, u, 0) BY <2>3, <2>4, <2>5, OnlyRest
  <2>7. task'[w] = Idle \/ task'[w] = u BY <1>6, <1>14, <2>1, <2>5 DEF Going, Done, Fail
  <2>8. Fits(w, task[w])'
    <3>1. CASE task'[w] = Idle BY <3>1, IdleFits
    <3>2. CASE task'[w] = u
      <4>1. Fits(w, t) BY <2>1 DEF RentInv
      <4>2. t[1].do # "rental" /\ Undone(t) = {} BY <2>4 DEF DeskKinds, Undone
      <4>3. \A r : MadeFor(r)' \subseteq MadeFor(r) \ Undone(t) BY <1>8, <4>2 DEF MadeFor
      <4>4. \A i \in 1 .. 0 : u[i].do = "device" \/ (u[i].do = "printer" /\ Agreed(u[i])') OBVIOUS
      <4>5. Fits(w, u)' BY <1>1, <1>5, <2>4, <2>6, <4>1, <4>2, <4>3, <4>4, RestFits
      <4> QED BY <3>2, <4>5
    <3> QED BY <2>7, <3>1, <3>2
  <2>9. OneHardware'
    <3>1. ASSUME NEW i \in DOMAIN u PROVE \E j \in DOMAIN t : t[j] = u[i]
      <4>1. i \notin 1 .. 0 OBVIOUS
      <4>2. PICK j \in 2 .. Len(t) : u[i] = t[j] /\ j \in DOMAIN t BY <2>6, <3>1, <4>1, ComesFrom
      <4> QED BY <4>2
    <3>2. \A v \in Workers : \A i \in DOMAIN task'[v] : \E j \in DOMAIN task[v] : task[v][j] = task'[v][i]
      BY <1>10, <2>1, <2>4, <2>7, <3>1
    <3> QED BY <1>1, <3>2, FewerLends DEF RentInv
  <2>10. \A x : ~ Marks(w, x) BY <1>14 DEF Going, Marks, At, DeskKinds
  <2> QED BY <1>9, <2>4, <2>8, <2>9, <2>10
<1> QED BY <1>1, <1>11, <1>12, <1>13, <1>14 DEF Aside

-----------------------------------------------------------------------------
(* Requests at the desk.  They only read, so the plan they leave has to be fit. *)

Kept(s) ==
  IF s.id \in DOMAIN rentals THEN s.row.hardware = rentals[s.id].hardware ELSE s.id \notin Ids(Known)

\* A rental that is read or written was drawn.
LEMMA LentDrawn == ASSUME DeskInv, NEW r, NEW h, Lends(r, h) PROVE r \in Ids(Known)
<1>1. CASE r \in DOMAIN rentals BY <1>1 DEF DeskInv, DeskTables, Table
<1>2. ASSUME NEW v \in Workers, NEW i \in DOMAIN task[v], task[v][i].do = "rental", task[v][i].id = r
      PROVE  r \in Ids(Known)
  <2>1. task[v][i].about \subseteq AboutOf(v) /\ task[v][i].about = {task[v][i].id, task[v][i].row.hardware}
    BY <1>2, SaysAbout DEF DeskKinds
  <2>2. AboutOf(v) \subseteq Ids(Known) BY AboutDrawn
  <2> QED BY <1>2, <2>1, <2>2
<1> QED BY <1>1, <1>2 DEF Lends

\* A fit plan that starts stays fit, and nothing else changes.
LEMMA StartRents ==
  ASSUME DeskInv, RentInv, NEW w \in Workers, NEW todo, Start(w, todo), UNCHANGED rental, Fits(w, todo),
         \A i \in DOMAIN todo : todo[i].do = "rental" => Kept(todo[i])
  PROVE  RentInv'
<1>1. DOMAIN task = Workers BY DEF DeskInv, RequestsOK
<1>2. task[w] = Idle /\ task'[w] = todo /\ \A v \in Workers \ {w} : task'[v] = task[v] BY <1>1 DEF Start, Ready
<1>3. UNCHANGED <<hardware, rentals, printers, desk>> BY DEF rental
<1>4. OneHardware'
  <2> DEFINE Writes(r, h) == \E i \in DOMAIN todo : todo[i].do = "rental" /\ todo[i].id = r /\ todo[i].row.hardware = h
  <2>1. ASSUME NEW r, NEW h, Lends(r, h)' PROVE Lends(r, h) \/ Writes(r, h)
    BY <1>2, <1>3, <2>1 DEF Lends
  <2>2. ASSUME NEW r, NEW h, Writes(r, h) PROVE Lends(r, h) \/ \A g : ~ Lends(r, g)
    <3>1. CASE r \in DOMAIN rentals BY <2>2, <3>1 DEF Kept, Lends
    <3>2. CASE r \notin DOMAIN rentals
      <4>1. r \notin Ids(Known) BY <2>2, <3>2 DEF Kept
      <4> QED BY <4>1, LentDrawn
    <3> QED BY <3>1, <3>2
  <2>3. ASSUME NEW r, NEW g, NEW h, Writes(r, g), Writes(r, h) PROVE g = h BY <2>3 DEF Fits
  <2> HIDE DEF Writes
  <2> SUFFICES ASSUME NEW r, NEW g, NEW h, Lends(r, g)', Lends(r, h)' PROVE g = h BY DEF OneHardware
  <2>4. \A a, b : Lends(r, a) /\ Lends(r, b) => a = b BY DEF RentInv, OneHardware
  <2> QED BY <2>1, <2>2, <2>3, <2>4
<1>5. /\ \A x : Deals(x)' = Deals(x) /\ (Vacant(w, x) => Vacant(w, x)')
      /\ \A s : (Agreed(s) => Agreed(s)') /\ (Renews(s) => Renews(s)') /\ (MoveFits(s) => MoveFits(s)')
      /\ \A x : MadeFor(x)' = MadeFor(x)
  <2>1. \A x : Deals(x)' = Deals(x) /\ MadeFor(x)' = MadeFor(x) BY <1>3 DEF Deals, MadeFor
  <2>2. \A x : Vacant(w, x) => Vacant(w, x)' BY <1>2, <2>1 DEF Vacant, Marks, At, Now
  <2>3. \A s : (Agreed(s) => Agreed(s)') /\ (Renews(s) => Renews(s)') BY <1>3 DEF Agreed, Lent, Renews
  <2> QED BY <2>1, <2>2, <2>3 DEF MoveFits
<1>6. Fits(w, todo)'
  <2>1. ASSUME NEW i \in DOMAIN todo PROVE StatementFits(w, todo, i)'
    <3>1. StatementFits(w, todo, i) BY DEF Fits
    <3>2. RentalFits(w, todo, i) => RentalFits(w, todo, i)' BY <1>3, <1>5 DEF RentalFits, Opens
    <3>3. EndFits(todo, i) => EndFits(todo, i)' BY <1>3, <1>5 DEF EndFits, Undone
    <3>4. SaveFits(w, todo[i]) => SaveFits(w, todo[i])' BY <1>3, <1>5 DEF SaveFits
    <3>5. FreeFits(todo, i) => FreeFits(todo, i)' BY <1>3, <1>5 DEF FreeFits, Ends
    <3> QED BY <1>3, <1>5, <3>1, <3>2, <3>3, <3>4, <3>5 DEF StatementFits
  <2> QED BY <2>1 DEF Fits
<1>7. \A v \in Workers : task'[v] = task[v] \/ Fits(v, task[v])' BY <1>2, <1>6
<1>8. \A v \in Workers : task'[v] = task[v] \/ \A x : Marks(v, x) => x \in desk'.loose BY <1>2 DEF Marks, At
<1> QED BY <1>3, <1>4, <1>7, <1>8, WorldStays

Plain(s) ==
  /\ s.do \notin {"rental", "hardware", "free", "dropHardware"}
  /\ (s.do = "printer" => Agreed(s)) /\ (s.do = "move" => MoveFits(s)) /\ (s.do = "sync" => s.about = {})

\* A plan that is about neither hardware nor rentals.
LEMMA PlainStarts ==
  ASSUME DeskInv, RentInv, NEW w \in Workers, NEW S, NEW todo \in Seq(S), \A s \in S : Plain(s),
         Start(w, todo), UNCHANGED rental
  PROVE  RentInv'
<1>1. \A i \in DOMAIN todo : Plain(todo[i]) OBVIOUS
<1>2. Fits(w, todo) BY <1>1 DEF Plain, Fits, StatementFits
<1>3. \A i \in DOMAIN todo : todo[i].do # "rental" BY <1>1 DEF Plain
<1> QED BY <1>2, <1>3, StartRents

\* One statement, or two.
LEMMA FewPlain ==
  ASSUME DeskInv, RentInv, NEW w \in Workers, NEW s, NEW t, Plain(s), Plain(t), UNCHANGED rental,
         Start(w, <<s>>) \/ Start(w, <<s, t>>)
  PROVE  RentInv'
<1>1. PICK S : S = {s, t} OBVIOUS
<1>2. <<s>> \in Seq(S) /\ <<s, t>> \in Seq(S) BY <1>1, FewStatements
<1>3. \A x \in S : Plain(x) BY <1>1
<1>4. PICK one : one = <<s>> OBVIOUS
<1>5. PICK two : two = <<s, t>> OBVIOUS
<1> QED BY <1>2, <1>3, <1>4, <1>5, PlainStarts

\* A request at the desk starts a plan.
LEMMA ServeStarts ==
  ASSUME NEW w, NEW todo, Serve(w, todo) PROVE Start(w, todo) /\ UNCHANGED rental /\ UNCHANGED fleet
BY DEF Serve, Call, Ask, Reply

\* Requests about printers.
LEMMA PrinterRequestRents == ASSUME DeskInv, RentInv, NEW w \in Workers, PrinterRequest(w) PROVE RentInv'
<1>1. ASSUME NEW p \in DOMAIN printers, NEW s, s.row.rental = printers[p].rental PROVE Agreed(s)
  BY <1>1 DEF RentInv, RentalPrinterHasRental, Agreed, Lent
<1>2. \A p \in DOMAIN printers : printers[p] \in PrinterRows(Known) BY DEF DeskInv, DeskTables, Table
<1>3. ASSUME NEW q, NEW row, row.rental = None \/ \E p \in DOMAIN printers : row.rental = printers[p].rental
      PROVE  Plain(SavePrinter(q, row))
  <2>1. PICK s : s = SavePrinter(q, row) OBVIOUS
  <2>2. s.do = "printer" /\ s.row = row BY <2>1 DEF SavePrinter
  <2>3. Agreed(s) BY <1>1, <1>3, <2>2 DEF Agreed
  <2> QED BY <2>1, <2>2, <2>3 DEF Plain
<1>4. ASSUME NEW d \in DOMAIN devices, NEW o \in DOMAIN organizations, AssignPrinterDevice(w, d, o) PROVE RentInv'
  <2>1. PICK taken : taken = SaveDevice(d, [devices[d] EXCEPT !.org = o, !.status = "verified"], "save") OBVIOUS
  <2>2. Plain(taken) BY <2>1 DEF Plain, SaveDevice
  <2>3. \/ Serve(w, <<SavePrinter(Token, Printer(o, d, None, None)), taken>>)
        \/ \E p \in DOMAIN printers : Serve(w, <<SavePrinter(p, [printers[p] EXCEPT !.org = o]), taken>>)
    BY <1>4, <2>1 DEF AssignPrinterDevice
  <2>4. \E s : Plain(s) /\ Serve(w, <<s, taken>>)
    <3>1. Plain(SavePrinter(Token, Printer(o, d, None, None))) BY <1>3 DEF Printer
    <3>2. \A p \in DOMAIN printers : Plain(SavePrinter(p, [printers[p] EXCEPT !.org = o]))
      <4> SUFFICES ASSUME NEW p \in DOMAIN printers PROVE Plain(SavePrinter(p, [printers[p] EXCEPT !.org = o])) OBVIOUS
      <4>1. [printers[p] EXCEPT !.org = o].rental = printers[p].rental BY <1>2 DEF PrinterRows
      <4> QED BY <1>3, <4>1
    <3> QED BY <2>3, <3>1, <3>2
  <2>5. PICK s : Plain(s) /\ Serve(w, <<s, taken>>) BY <2>4
  <2> QED BY <2>2, <2>5, ServeStarts, FewPlain
<1>5. ASSUME NEW d \in DOMAIN devices, DeleteDevice(w, d) PROVE RentInv'
  <2>1. PICK s : s = [do |-> "dropPrintersOf", id |-> d, about |-> {}] OBVIOUS
  <2>2. PICK t : t = [do |-> "dropDevice", id |-> d] OBVIOUS
  <2>3. Plain(s) /\ Plain(t) BY <2>1, <2>2 DEF Plain
  <2>4. Serve(w, <<s, t>>) BY <1>5, <2>1, <2>2 DEF DeleteDevice
  <2> QED BY <2>3, <2>4, ServeStarts, FewPlain
<1>6. ASSUME NEW d \in DOMAIN devices, NEW list \in Lists, SyncFromAgent(w, d, list) PROVE RentInv'
  <2> DEFINE s(i) == [do |-> "sync", id |-> d, org |-> devices[d].org, local |-> list[i], about |-> {}]
             plan == [i \in DOMAIN list |-> s(i)]
  <2>1. Serve(w, plan) BY <1>6 DEF SyncFromAgent
  <2>2. \A i : Plain(s(i)) BY DEF Plain
  <2>3. list \in Seq({list[i] : i \in DOMAIN list}) BY ListsAssumption
  <2>4. Len(list) \in Nat /\ DOMAIN list = 1 .. Len(list) BY <2>3
  <2>5. PICK S : S = {s(i) : i \in DOMAIN list} OBVIOUS
  <2>6. \A x \in S : Plain(x) BY <2>2, <2>5
  <2>7. \A i \in DOMAIN list : s(i) \in S BY <2>5
  <2> HIDE DEF s
  <2>8. plan \in Seq(S) BY <2>4, <2>7
  <2> HIDE DEF plan
  <2>9. PICK todo : todo = plan OBVIOUS
  <2> QED BY <2>1, <2>6, <2>8, <2>9, ServeStarts, PlainStarts
<1>7. ASSUME NEW p \in DOMAIN printers, UnassignPrinter(w, p) PROVE RentInv'
  <2>1. PICK s : s = [do |-> "unassign", id |-> p, about |-> {}] OBVIOUS
  <2>2. PICK t : t = Move(printers[p].device, None, <<>>, {}) OBVIOUS
  <2>3. Plain(s) BY <2>1 DEF Plain
  <2>4. Plain(t)
    <3>1. t.do = "move" /\ t.rest = <<>> BY <2>2 DEF Move
    <3>2. MoveFits(t) BY <3>1 DEF MoveFits
    <3> QED BY <3>1, <3>2 DEF Plain
  <2>5. PICK S : S = {s, t} OBVIOUS
  <2> DEFINE second == IF printers[p].device = None THEN <<>> ELSE <<t>>
  <2>6. Serve(w, <<s>> \o second) BY <1>7, <2>1, <2>2 DEF UnassignPrinter
  <2>7. <<s>> \in Seq(S) /\ second \in Seq(S) BY <2>5, FewStatements
  <2> HIDE DEF second
  <2>8. <<s>> \o second \in Seq(S) BY <2>7, ConcatProperties
  <2>9. PICK todo : todo = <<s>> \o second OBVIOUS
  <2>10. \A x \in S : Plain(x) BY <2>3, <2>4, <2>5
  <2> QED BY <2>6, <2>8, <2>9, <2>10, ServeStarts, PlainStarts
<1>8. ASSUME NEW p \in DOMAIN printers, NEW a \in Users, RemovePrinter(w, a, p) PROVE RentInv'
  <2>1. PICK s : s = DropPrinters({p}, {printers[p].rental} \ {None}) OBVIOUS
  <2>2. Plain(s) /\ Serve(w, <<s>>) BY <1>8, <2>1 DEF Plain, DropPrinters, RemovePrinter
  <2> QED BY <2>2, ServeStarts, FewPlain
<1>9. ASSUME NEW q, NEW row, row.rental = None \/ \E p \in DOMAIN printers : row.rental = printers[p].rental,
             Serve(w, <<SavePrinter(q, row)>>)
      PROVE  RentInv'
  <2>1. PICK s : s = SavePrinter(q, row) OBVIOUS
  <2>2. Plain(s) /\ Serve(w, <<s>>) BY <1>3, <1>9, <2>1
  <2> QED BY <2>2, ServeStarts, FewPlain
<1>10. ASSUME NEW p \in DOMAIN printers, UpdatePrinterAdmin(w, p) PROVE RentInv'
  BY <1>9, <1>10 DEF UpdatePrinterAdmin
<1>11. ASSUME NEW p \in DOMAIN printers, NEW a \in Users, NEW d \in DOMAIN devices \cup {None}, UpdatePrinter(w, a, p, d)
       PROVE  RentInv'
  <2>1. PICK row : row = [printers[p] EXCEPT !.device = d] OBVIOUS
  <2>2. row.rental = printers[p].rental BY <1>2, <2>1 DEF PrinterRows
  <2>3. Serve(w, <<SavePrinter(p, row)>>) BY <1>11, <2>1 DEF UpdatePrinter
  <2> QED BY <1>9, <2>2, <2>3
<1>12. ASSUME NEW a \in Users, NEW o \in DOMAIN organizations, NEW d \in DOMAIN devices \cup {None}, CreatePrinter(w, a, o, d)
       PROVE  RentInv'
  <2>1. PICK row : row = Printer(o, d, None, None) OBVIOUS
  <2>2. row.rental = None BY <2>1 DEF Printer
  <2>3. Serve(w, <<SavePrinter(Token, row)>>) BY <1>12, <2>1 DEF CreatePrinter
  <2> QED BY <1>9, <2>2, <2>3
<1> QED BY <1>4, <1>5, <1>6, <1>7, <1>8, <1>10, <1>11, <1>12 DEF PrinterRequest

\* Requests about hardware.
LEMMA HardwareRequestRents ==
  ASSUME DeskInv, RentInv, NEW w \in Workers, task[w] = Idle,
         \/ CreateRentalHardware(w)
         \/ \E h \in DOMAIN hardware :
              \/ \E status \in {hardware[h].status, "available", "maintenance"}, d \in {hardware[h].device} \cup DOMAIN devices :
                   UpdateRentalHardware(w, h, status, d)
              \/ DeleteRentalHardware(w, h)
              \/ \E o \in DOMAIN organizations : CreateRentalAssignment(w, h, o)
  PROVE  RentInv'
<1>1. Token \notin Ids(Known) /\ Token # None
  <2>1. Token \in Nat \ {0} /\ Ids(Known) = 1 .. (Token - 1) BY LaterFacts, DrawnIds
  <2>2. Token \in Ids(Later(1)) /\ None \notin Ids(Later(1)) BY DrawnIds, DeskRow
  <2> QED BY <2>1, <2>2
<1>2. /\ \A h \in DOMAIN hardware : hardware[h] \in HardwareRows(Known) /\ h \in Ids(Known)
      /\ \A r \in DOMAIN rentals : rentals[r].hardware \in DOMAIN hardware /\ r \in Ids(Known)
      /\ \A p \in DOMAIN printers : printers[p].rental \in Opt(Ids(Known))
  <2>1. \A p \in DOMAIN printers : printers[p] \in PrinterRows(Known) BY DEF DeskInv, DeskTables, Table
  <2>2. \A p \in DOMAIN printers : printers[p].rental \in Opt(Ids(Known)) BY <2>1 DEF PrinterRows
  <2> QED BY <2>2 DEF DeskInv, DeskTables, Table
<1>3. ASSUME NEW h \in DOMAIN hardware, hardware[h].status = "available" PROVE h \in desk.loose \/ Vacant(w, h)
  <2>1. \A v \in Workers : Marks(v, h) => v # w BY DEF Marks, At
  <2> QED BY <1>3, <2>1 DEF RentInv, Promised, Vacant
<1>4. ASSUME NEW s, s.do = "hardware", SaveFits(w, s), Serve(w, <<s>>) PROVE RentInv'
  <2>1. PICK todo : todo = <<s>> OBVIOUS
  <2>2. DOMAIN todo = {1} /\ todo[1] = s BY <2>1
  <2>3. Fits(w, todo) /\ \A i \in DOMAIN todo : todo[i].do # "rental" BY <1>4, <2>2 DEF Fits, StatementFits
  <2> QED BY <1>4, <2>1, <2>3, ServeStarts, StartRents
<1>5. CASE CreateRentalHardware(w)
  <2>1. PICK s : s = SaveHardware(Token, [status |-> "available", device |-> None]) OBVIOUS
  <2>2. s.do = "hardware" /\ s.id = Token /\ Serve(w, <<s>>) BY <1>5, <2>1 DEF CreateRentalHardware, SaveHardware
  <2>3. Deals(Token) = {} BY <1>1, <1>2 DEF Deals
  <2> QED BY <1>4, <2>2, <2>3 DEF SaveFits, Vacant
<1>6. ASSUME NEW h \in DOMAIN hardware, NEW status, NEW d, UpdateRentalHardware(w, h, status, d) PROVE RentInv'
  <2>1. PICK byHand : byHand = (status = "available" /\ hardware[h].status # "available") OBVIOUS
  <2>2. PICK s : s = [SaveHardware(h, [hardware[h] EXCEPT !.status = status, !.device = d]) EXCEPT !.byHand = byHand]
    OBVIOUS
  <2>3. s.do = "hardware" /\ s.id = h /\ s.byHand = byHand /\ s.row.status = status
    BY <1>2, <2>2 DEF SaveHardware, HardwareRows
  <2>4. SaveFits(w, s) BY <1>3, <2>1, <2>3 DEF SaveFits
  <2>5. Serve(w, <<s>>) BY <1>6, <2>1, <2>2 DEF UpdateRentalHardware
  <2> QED BY <1>4, <2>3, <2>4, <2>5
<1>7. ASSUME NEW h \in DOMAIN hardware, DeleteRentalHardware(w, h) PROVE RentInv'
  <2>1. PICK s : s = [do |-> "dropHardware", id |-> h, about |-> {h}] OBVIOUS
  <2>2. PICK todo : todo = <<s>> OBVIOUS
  <2>3. DOMAIN todo = {1} /\ todo[1] = s /\ Len(todo) = 1 /\ s.do = "dropHardware" /\ s.id = h BY <2>1, <2>2
  <2>4. Deals(h) = {} BY <1>7 DEF DeleteRentalHardware, Deals
  <2>5. Fits(w, todo) /\ \A i \in DOMAIN todo : todo[i].do # "rental" BY <2>3, <2>4 DEF Fits, StatementFits
  <2>6. Serve(w, todo) BY <1>7, <2>1, <2>2 DEF DeleteRentalHardware
  <2> QED BY <2>5, <2>6, ServeStarts, StartRents
<1>8. ASSUME NEW h \in DOMAIN hardware, NEW o \in DOMAIN organizations, CreateRentalAssignment(w, h, o) PROVE RentInv'
  <2>1. PICK s : s = SaveRental(Token, Rental(h, o)) OBVIOUS
  <2>2. PICK t : t = SaveHardware(h, [hardware[h] EXCEPT !.status = "rented"]) OBVIOUS
  <2>3. PICK todo : todo = <<s, t>> OBVIOUS
  <2>4. s.do = "rental" /\ s.id = Token /\ s.row.hardware = h /\ s.row.status = "pending"
    BY <2>1 DEF SaveRental, Rental
  <2>5. t.do = "hardware" /\ t.id = h /\ t.row.status = "rented" BY <1>2, <2>2 DEF SaveHardware, HardwareRows
  <2>6. DOMAIN todo = {1, 2} /\ Len(todo) = 2 /\ todo[1] = s /\ todo[2] = t BY <2>3
  <2>7. h \in desk.loose \/ Vacant(w, h) BY <1>3, <1>8 DEF CreateRentalAssignment
  <2>8. Token \notin DOMAIN rentals /\ MadeFor(Token) = {} BY <1>1, <1>2 DEF MadeFor, Opt
  <2>9. RentalFits(w, todo, 1) BY <2>4, <2>5, <2>6, <2>7, <2>8 DEF RentalFits, Opens
  <2>10. EndFits(todo, 1) BY <2>4, <2>5, <2>6, <2>8 DEF EndFits
  <2>11. SaveFits(w, t) BY <2>5 DEF SaveFits
  <2>12. Fits(w, todo) BY <2>4, <2>5, <2>6, <2>9, <2>10, <2>11 DEF Fits, StatementFits
  <2>13. \A i \in DOMAIN todo : todo[i].do = "rental" => Kept(todo[i]) BY <1>1, <2>4, <2>5, <2>6, <2>8 DEF Kept
  <2>14. Serve(w, todo) BY <1>8, <2>1, <2>2, <2>3 DEF CreateRentalAssignment, Offer
  <2> QED BY <2>12, <2>13, <2>14, ServeStarts, StartRents
<1> QED BY <1>5, <1>6, <1>7, <1>8

\* A rental that ends frees its hardware; its printers are gone, or there are none.
LEMMA EndRents ==
  ASSUME DeskInv, RentInv, NEW w \in Workers, NEW r \in DOMAIN rentals, NEW S, NEW pre \in Seq(S),
         \A s \in S : s.do \in {"dropPrinters", "release"}, NEW b, NEW f, NEW todo, todo = pre \o <<b, f>>,
         b.do = "rental", b.id = r, b.row.hardware = rentals[r].hardware, b.row.status \notin Live,
         f.do = "free", f.id = rentals[r].hardware, f.byHand \/ rentals[r].status \in Live,
         \/ r \in desk.loose \/ MadeFor(r) = {}
         \/ pre # <<>> /\ pre[1].do = "dropPrinters" /\ pre[1].gone = MadeFor(r),
         Start(w, todo), UNCHANGED rental
  PROVE  RentInv'
<1> DEFINE T == S \cup {b, f}
           last == <<b, f>>
           n == Len(pre)
<1>1. last \in Seq(T) /\ pre \in Seq(T) /\ Len(last) = 2 /\ last[1] = b /\ last[2] = f
  <2>1. S \subseteq T OBVIOUS
  <2>2. pre \in Seq(T) BY <2>1, SeqGrows
  <2> QED BY <2>2
<1>2. n \in Nat /\ DOMAIN pre = 1 .. n OBVIOUS
<1> HIDE DEF T, last
<1>3. /\ todo \in Seq(T) /\ Len(todo) = n + 2
      /\ \A i \in 1 .. (n + 2) : todo[i] = IF i <= n THEN pre[i] ELSE last[i - n]
  <2>1. todo = pre \o last BY DEF last
  <2> QED BY <1>1, <2>1, ConcatProperties
<1>4. DOMAIN todo = 1 .. (n + 2) BY <1>3, LenProperties
<1>5. \A i \in 1 .. n : todo[i] = pre[i] /\ todo[i].do \in {"dropPrinters", "release"}
  <2> SUFFICES ASSUME NEW i \in 1 .. n PROVE todo[i] = pre[i] /\ todo[i].do \in {"dropPrinters", "release"} OBVIOUS
  <2>1. todo[i] = pre[i] /\ pre[i] \in S BY <1>2, <1>3
  <2> QED BY <2>1
<1>6. todo[n + 1] = b /\ todo[n + 2] = f
  <2>1. (n + 1) - n = 1 /\ (n + 2) - n = 2 /\ n + 1 \in 1 .. (n + 2) /\ n + 2 \in 1 .. (n + 2) BY <1>2
  <2> QED BY <1>1, <1>2, <1>3, <2>1
<1>7. \A i \in DOMAIN todo : i \in 1 .. n \/ i = n + 1 \/ i = n + 2 BY <1>2, <1>4
<1> HIDE DEF n
<1>8. Renews(b) BY DEF Renews
<1>9. RentalFits(w, todo, n + 1) BY <1>6, <1>8 DEF RentalFits
<1>10. EndFits(todo, n + 1)
  <2>1. \A i \in DOMAIN todo : todo[i].do \notin {"printer", "move", "sync"} BY <1>5, <1>6, <1>7
  <2>2. CASE r \in desk.loose \/ MadeFor(r) = {} BY <1>6, <2>1, <2>2 DEF EndFits
  <2>3. CASE pre # <<>> /\ pre[1].do = "dropPrinters" /\ pre[1].gone = MadeFor(r)
    <3>1. 1 \in 1 .. n
      <4>1. n # 0 BY <2>3, EmptySeq DEF n
      <4> QED BY <1>2, <4>1
    <3>2. todo[1] = pre[1] BY <1>5, <3>1
    <3>3. Undone(todo) = MadeFor(r) BY <2>3, <3>2 DEF Undone
    <3> QED BY <1>6, <2>1, <3>3 DEF EndFits
  <2> QED BY <2>2, <2>3
<1>11. FreeFits(todo, n + 2)
  <2>1. CASE f.byHand \/ f.id \in desk.loose BY <1>3, <1>6, <2>1 DEF FreeFits
  <2>2. CASE f.id \notin desk.loose /\ rentals[r].status \in Live
    <3>1. f.id \in DOMAIN hardware BY DeskLinks
    <3>2. Promised(f.id) BY <2>2, <3>1 DEF RentInv
    <3>3. r \in Deals(f.id) BY <2>2 DEF Deals
    <3>4. \A q \in Deals(f.id) : q = r BY <3>2, <3>3 DEF Promised
    <3>5. n + 1 \in DOMAIN todo BY <1>2, <1>4 DEF n
    <3>6. Ends(todo, r) BY <1>6, <3>5 DEF Ends
    <3> QED BY <1>3, <1>6, <3>4, <3>6 DEF FreeFits
  <2> QED BY <2>1, <2>2
<1>12. Fits(w, todo)
  <2>1. ASSUME NEW i \in DOMAIN todo PROVE StatementFits(w, todo, i)
    <3>1. CASE i \in 1 .. n BY <1>5, <3>1 DEF StatementFits
    <3>2. CASE i = n + 1 BY <1>6, <1>9, <1>10, <3>2 DEF StatementFits
    <3>3. CASE i = n + 2 BY <1>6, <1>11, <3>3 DEF StatementFits
    <3> QED BY <1>7, <3>1, <3>2, <3>3
  <2>2. \A i \in DOMAIN todo : todo[i].do = "rental" => i = n + 1 BY <1>5, <1>6, <1>7
  <2> QED BY <2>1, <2>2 DEF Fits
<1>13. \A i \in DOMAIN todo : todo[i].do = "rental" => Kept(todo[i]) BY <1>5, <1>6, <1>7 DEF Kept
<1> QED BY <1>12, <1>13, StartRents

\* Requests about rentals.
LEMMA RentalRequestRents ==
  ASSUME DeskInv, RentInv, NEW w \in Workers, NEW r \in DOMAIN rentals,
         \/ ActivateRental(w, r) \/ ReturnRental(w, r)
         \/ \E a \in Users : ConfirmAssignment(w, a, r) \/ DeclineAssignment(w, a, r)
  PROVE  RentInv'
<1>1. PICK h : h = rentals[r].hardware OBVIOUS
<1>2. rentals[r] \in RentalRows(Known) /\ r # None
  <2>1. r \in Ids(Later(1)) /\ None \notin Ids(Later(1)) BY DrawnIds, DeskRow
  <2> QED BY <2>1 DEF DeskInv, DeskTables, Table
<1>3. ASSUME NEW status, NEW b, b = Become(r, status)
      PROVE  b.do = "rental" /\ b.id = r /\ b.row.hardware = rentals[r].hardware /\ b.row.status = status
  BY <1>2, <1>3 DEF Become, SaveRental, RentalRows
<1>4. ASSUME NEW n \in 1 .. 2, NEW todo, NEW b, b.do = "rental", b.id = r, b.row.hardware = rentals[r].hardware,
             b.row.status \in {"confirmed", "active"}, rentals[r].status \in Live, DOMAIN todo = 1 .. n, todo[n] = b,
             n = 2 => todo[1].do = "move" /\ MoveFits(todo[1]), Start(w, todo), UNCHANGED rental
      PROVE  RentInv'
  <2>1. Renews(b) BY <1>4 DEF Renews
  <2>2. \A i \in DOMAIN todo : (i = n /\ todo[i] = b) \/ (todo[i].do = "move" /\ MoveFits(todo[i])) BY <1>4
  <2>3. \A i, j \in DOMAIN todo : todo[i].do = "rental" /\ todo[j].do = "rental" => i = j BY <2>2
  <2>4. ASSUME NEW i \in DOMAIN todo PROVE StatementFits(w, todo, i)
    <3>1. CASE todo[i] = b
      <4>1. RentalFits(w, todo, i) /\ EndFits(todo, i) BY <1>4, <2>1, <3>1 DEF RentalFits, EndFits
      <4> QED BY <1>4, <3>1, <4>1 DEF StatementFits
    <3>2. CASE todo[i].do = "move" /\ MoveFits(todo[i]) BY <3>2 DEF StatementFits
    <3> QED BY <2>2, <3>1, <3>2
  <2>5. Fits(w, todo) BY <2>3, <2>4 DEF Fits
  <2>6. \A i \in DOMAIN todo : todo[i].do = "rental" => Kept(todo[i]) BY <1>4, <2>2 DEF Kept
  <2> QED BY <1>4, <2>5, <2>6, StartRents
<1>5. rentals[r].status = "pending" => r \in desk.loose \/ MadeFor(r) = {}
  BY <1>2 DEF RentInv, RentalPrinterHasRental, MadeFor
<1>6. ASSUME NEW a \in Users, ConfirmAssignment(w, a, r) PROVE RentInv'
  <2>1. PICK b : b = Become(r, "confirmed") OBVIOUS
  <2>2. PICK todo : todo = <<b>> OBVIOUS
  <2>3. Serve(w, todo) /\ rentals[r].status \in Live BY <1>6, <2>1, <2>2 DEF ConfirmAssignment, Live
  <2>4. /\ b.do = "rental" /\ b.id = r /\ b.row.hardware = rentals[r].hardware
        /\ b.row.status \in {"confirmed", "active"}
    BY <1>3, <2>1
  <2>5. 1 \in 1 .. 2 /\ 1 # 2 /\ DOMAIN todo = 1 .. 1 /\ todo[1] = b BY <2>2
  <2> QED BY <1>4, <2>3, <2>4, <2>5, ServeStarts
<1>7. ASSUME NEW a \in Users, DeclineAssignment(w, a, r) PROVE RentInv'
  <2>1. PICK b : b = Become(r, "cancelled") OBVIOUS
  <2>2. PICK f : f = Free(h, FALSE) OBVIOUS
  <2>3. /\ b.do = "rental" /\ b.id = r /\ b.row.hardware = rentals[r].hardware /\ b.row.status \notin Live
        /\ f.do = "free" /\ f.id = rentals[r].hardware
    BY <1>1, <1>3, <2>1, <2>2 DEF Free, Live
  <2>4. PICK todo : todo = <<>> \o <<b, f>> OBVIOUS
  <2>5. todo = <<b, f>>
    <3>1. PICK last : last = <<b, f>> OBVIOUS
    <3>2. last \in Seq({b, f}) BY <3>1
    <3> QED BY <2>4, <3>1, <3>2, ConcatEmptySeq
  <2>6. Serve(w, todo) /\ rentals[r].status = "pending" BY <1>1, <1>7, <2>1, <2>2, <2>5 DEF DeclineAssignment
  <2>7. PICK S : S = {} OBVIOUS
  <2>8. PICK pre : pre = <<>> OBVIOUS
  <2>9. pre \in Seq(S) /\ (\A s \in S : s.do \in {"dropPrinters", "release"}) /\ todo = pre \o <<b, f>>
    BY <2>4, <2>7, <2>8
  <2>10. rentals[r].status \in Live BY <2>6 DEF Live
  <2> QED BY <1>5, <2>3, <2>6, <2>9, <2>10, ServeStarts, EndRents
<1>8. CASE ActivateRental(w, r)
  <2>1. PICK b : b = Become(r, "active") OBVIOUS
  <2>2. PICK d : d = hardware[h].device OBVIOUS
  <2>3. PICK p : p = SavePrinter(Token, Printer(rentals[r].org, d, r, None)) OBVIOUS
  <2>4. PICK m : m = Move(d, rentals[r].org, <<p>>, {r, h}) OBVIOUS
  <2>5. rentals[r].status = "confirmed" BY <1>8 DEF ActivateRental
  <2>6. /\ b.do = "rental" /\ b.id = r /\ b.row.hardware = rentals[r].hardware
        /\ b.row.status \in {"confirmed", "active"} /\ rentals[r].status \in Live
    BY <1>3, <2>1, <2>5 DEF Live
  <2>7. Agreed(p) /\ p.row.rental = r BY <2>3, <2>5 DEF SavePrinter, Printer, Agreed, Lent
  <2>8. m.do = "move" /\ MoveFits(m)
    <3>1. m.do = "move" /\ m.rest = <<p>> /\ m.about = {r, h} BY <2>4 DEF Move
    <3>2. \A j \in DOMAIN m.rest : m.rest[j] = p BY <3>1
    <3> QED BY <2>7, <3>1, <3>2 DEF MoveFits
  <2>9. Serve(w, (IF d = None THEN <<>> ELSE <<m>>) \o <<b>>) BY <1>1, <1>8, <2>1, <2>2, <2>3, <2>4 DEF ActivateRental
  <2>10. PICK todo : todo = (IF d = None THEN <<>> ELSE <<m>>) \o <<b>> OBVIOUS
  <2>11. \E n \in 1 .. 2 : DOMAIN todo = 1 .. n /\ todo[n] = b /\ (n = 2 => todo[1] = m)
    <3>1. PICK one : one = <<b>> OBVIOUS
    <3>2. PICK move : move = <<m>> OBVIOUS
    <3>3. one \in Seq({m, b}) /\ Len(one) = 1 /\ one[1] = b BY <3>1
    <3>4. move \in Seq({m, b}) /\ Len(move) = 1 /\ move[1] = m BY <3>2
    <3>5. CASE d = None
      <4>1. todo = <<>> \o one BY <2>10, <3>1, <3>5
      <4>2. todo = one BY <3>3, <4>1, ConcatEmptySeq
      <4> QED BY <3>3, <4>2
    <3>6. CASE d # None
      <4>1. todo = move \o one BY <2>10, <3>1, <3>2, <3>6
      <4>2. /\ todo \in Seq({m, b}) /\ Len(todo) = 2
            /\ \A i \in 1 .. 2 : todo[i] = IF i <= 1 THEN move[i] ELSE one[i - 1]
        BY <3>3, <3>4, <4>1, ConcatProperties
      <4>3. DOMAIN todo = 1 .. 2 /\ todo[1] = m /\ todo[2] = b BY <3>3, <3>4, <4>2
      <4> QED BY <4>3
    <3> QED BY <3>5, <3>6
  <2>12. PICK n \in 1 .. 2 : DOMAIN todo = 1 .. n /\ todo[n] = b /\ (n = 2 => todo[1] = m) BY <2>11
  <2>13. Start(w, todo) /\ UNCHANGED rental BY <2>9, <2>10, ServeStarts
  <2> QED BY <1>4, <2>6, <2>8, <2>12, <2>13
<1>9. CASE ReturnRental(w, r)
  <2>1. PICK b : b = Become(r, "returned") OBVIOUS
  <2>2. PICK f : f = Free(h, rentals[r].status \notin Live) OBVIOUS
  <2>3. /\ b.do = "rental" /\ b.id = r /\ b.row.hardware = rentals[r].hardware /\ b.row.status \notin Live
        /\ f.do = "free" /\ f.id = rentals[r].hardware /\ (f.byHand \/ rentals[r].status \in Live)
    BY <1>1, <1>3, <2>1, <2>2 DEF Free, Live
  <2>4. PICK drop : drop = DropPrinters(MadeFor(r), {r, h}) OBVIOUS
  <2>5. PICK back : back = [do |-> "release", id |-> hardware[h].device, about |-> {r, h}] OBVIOUS
  <2>6. PICK S : S = {drop, back} OBVIOUS
  <2>7. PICK first : first = IF MadeFor(r) = {} THEN <<>> ELSE <<drop>> OBVIOUS
  <2>8. PICK second : second = IF hardware[h].device = None THEN <<>> ELSE <<back>> OBVIOUS
  <2>9. PICK last : last = <<b, f>> OBVIOUS
  <2>10. Serve(w, first \o (second \o last))
    BY <1>1, <1>9, <2>1, <2>2, <2>4, <2>5, <2>7, <2>8, <2>9 DEF ReturnRental, GiveBack
  <2>11. first \in Seq(S) /\ second \in Seq(S) BY <2>6, <2>7, <2>8, FewStatements
  <2>12. PICK pre : pre = first \o second OBVIOUS
  <2>13. pre \in Seq(S) BY <2>11, <2>12, ConcatProperties
  <2>14. first \o (second \o last) = pre \o last
    <3> DEFINE T == S \cup {b, f}
    <3>1. S \subseteq T /\ last \in Seq(T) BY <2>9
    <3> HIDE DEF T
    <3>2. first \in Seq(T) /\ second \in Seq(T) BY <2>11, <3>1, SeqGrows
    <3>3. (first \o second) \o last = first \o (second \o last) BY <3>1, <3>2, ConcatAssociative
    <3> QED BY <2>12, <3>3
  <2>15. MadeFor(r) = {} \/ (pre # <<>> /\ pre[1] = drop)
    <3> SUFFICES ASSUME MadeFor(r) # {} PROVE pre # <<>> /\ pre[1] = drop OBVIOUS
    <3>1. first = <<drop>> BY <2>7
    <3>2. Len(first) = 1 /\ first[1] = drop BY <3>1
    <3>3. Len(second) \in Nat BY <2>11, LenProperties
    <3>4. /\ Len(first \o second) = Len(first) + Len(second)
          /\ \A i \in 1 .. (Len(first) + Len(second)) :
               (first \o second)[i] = IF i <= Len(first) THEN first[i] ELSE second[i - Len(first)]
      BY <2>11, ConcatProperties
    <3>5. 1 \in 1 .. (Len(first) + Len(second)) /\ 1 <= Len(first) /\ Len(first) + Len(second) # 0 BY <3>2, <3>3
    <3>6. Len(pre) # 0 /\ pre[1] = drop BY <2>12, <3>2, <3>4, <3>5
    <3> QED BY <2>13, <3>6, EmptySeq
  <2>16. /\ drop.do = "dropPrinters" /\ drop.gone = MadeFor(r)
         /\ \A s \in S : s.do \in {"dropPrinters", "release"}
    BY <2>4, <2>5, <2>6 DEF DropPrinters
  <2>17. PICK todo : todo = pre \o <<b, f>> OBVIOUS
  <2>18. Serve(w, todo) BY <2>9, <2>10, <2>14, <2>17
  <2>19. Start(w, todo) /\ UNCHANGED rental BY <2>18, ServeStarts
  <2>20. \/ r \in desk.loose \/ MadeFor(r) = {}
         \/ pre # <<>> /\ pre[1].do = "dropPrinters" /\ pre[1].gone = MadeFor(r)
    BY <2>15, <2>16
  <2> QED BY <2>3, <2>13, <2>16, <2>17, <2>19, <2>20, EndRents
<1> QED BY <1>6, <1>7, <1>8, <1>9

-----------------------------------------------------------------------------
(* Every step, and what follows.                                                    *)

\* Every step keeps the promises.
LEMMA RentKeeps == ASSUME DeskInv, RentInv, [Next]_vars PROVE RentInv'
<1>1. CASE UNCHANGED vars
  <2>1. UNCHANGED <<task, hardware, rentals, printers, desk>> BY <1>1 DEF vars, requests, rental
  <2>2. OneHardware' BY <2>1, FewerLends DEF RentInv
  <2> QED BY <2>1, <2>2, WorldStays
<1>2. ASSUME NEW w \in Workers, Ready(w), DeskRequest(w) PROVE RentInv'
  <2>1. task[w] = Idle BY <1>2 DEF Ready
  <2>2. CASE \E r \in DOMAIN rentals :
               \/ ActivateRental(w, r) \/ ReturnRental(w, r)
               \/ \E a \in Users : ConfirmAssignment(w, a, r) \/ DeclineAssignment(w, a, r)
    BY <2>2, RentalRequestRents
  <2>3. CASE \/ CreateRentalHardware(w)
             \/ \E h \in DOMAIN hardware :
                  \/ \E status \in {hardware[h].status, "available", "maintenance"}, d \in {hardware[h].device} \cup DOMAIN devices :
                       UpdateRentalHardware(w, h, status, d)
                  \/ DeleteRentalHardware(w, h)
                  \/ \E o \in DOMAIN organizations : CreateRentalAssignment(w, h, o)
    BY <2>1, <2>3, HardwareRequestRents
  <2> QED BY <1>2, <2>2, <2>3 DEF DeskRequest
<1>3. ASSUME NEW w \in Workers, PrinterRequest(w) PROVE RentInv' BY <1>3, PrinterRequestRents
<1>4. ASSUME NEW w \in Workers, DeskStep(w) PROVE RentInv'
  BY <1>4, StoreHardwareRents, RentalRents, PrinterRents, RemovalRents, SyncRents, MoveRents DEF DeskStep
<1> QED BY <1>1, <1>2, <1>3, <1>4, ElsewhereRents DEF Next

\* In an empty database nothing is promised.
LEMMA NothingPromised == Init => RentInv
<1> SUFFICES ASSUME Init PROVE RentInv OBVIOUS
<1>1. DOMAIN rentals = {} /\ DOMAIN hardware = {} /\ DOMAIN printers = {} BY DEF Init, Empty
<1>2. \A w \in Workers : DOMAIN task[w] = {} BY DEF Init, RequestsInit, Idle
<1>3. OneHardware BY <1>1, <1>2 DEF OneHardware, Lends
<1>4. \A w \in Workers : Fits(w, task[w]) BY <1>2 DEF Fits
<1> QED BY <1>1, <1>3, <1>4 DEF RentInv, RentalPrinterHasRental

\* Hardware is promised to one organization at a time (RentedOnce): through offers,
\* refusals and returns at most one of its rentals is not over, for any number of
\* requests and stops, except for hardware whose requests overlapped or were cut short,
\* and hardware that was set free by hand, by an edit of its status or by a repeated
\* return of an old rental (createRentalAssignment goes by the status alone).
THEOREM PromisedOnce == Spec => []RentedOnce
<1>1. DeskInv /\ RentInv /\ [Next]_vars => RentInv' BY RentKeeps
<1>2. DeskInv /\ RentInv => RentedOnce
  <2> SUFFICES ASSUME DeskInv, RentInv, NEW q \in DOMAIN rentals, NEW r \in DOMAIN rentals,
                      rentals[q].status \in Live, rentals[r].status \in Live,
                      rentals[q].hardware = rentals[r].hardware, rentals[q].hardware \notin desk.loose
               PROVE  q = r
    BY DEF RentedOnce
  <2>1. rentals[q].hardware \in DOMAIN hardware BY DeskLinks
  <2>2. Promised(rentals[q].hardware) BY <2>1 DEF RentInv
  <2> QED BY <2>2 DEF Promised, Deals
<1> QED BY <1>1, <1>2, NothingPromised, DeskInOrder, PTL DEF Spec

\* A printer that was made for a rental is gone when the rental is over
\* (RentalPrinterHasRental), through any sequence of edits, synchronizations and
\* assignments, except for a rental whose requests overlapped or were cut short: then
\* one that read the printer before may save it after returnRental removed it.
THEOREM PrintersEndWithTheirRental == Spec => []RentalPrinterHasRental
<1>1. DeskInv /\ RentInv /\ [Next]_vars => RentInv' BY RentKeeps
<1>2. RentInv => RentalPrinterHasRental BY DEF RentInv
<1> QED BY <1>1, <1>2, NothingPromised, DeskInOrder, PTL DEF Spec
=============================================================================
