---------------------------- MODULE Memberships ----------------------------
(* Organizations, their members and invitations
   (src/src/modules/organizations), and the erasure of members and accounts,
   which must leave every organization an administrator.  One permission stands
   for the five of a member; platform administrators act only through the services
   that are theirs.                                                            *)
EXTENDS Accounts

CONSTANTS
  Orgs, Masked  \* a credential as it is shown

ASSUME MembershipsAssumption == Masked \notin Nat \cup {None}

VARIABLES
  organizations, \* [live, credential]: the SumUp key of the settings
  members,       \* [user, org, admin, permitted, pin]
  invitations,   \* [org, email, admin, accepted]
  staffing       \* organizations whose administrators two requests changed at a time
                 \* or lost by another's hand; memberships an invitation was good for

company == <<organizations, members, invitations, staffing>>

MembershipsOK ==
  /\ DOMAIN organizations \subseteq Orgs
  /\ \A o \in DOMAIN organizations : /\ organizations[o].live \in BOOLEAN
                                     /\ organizations[o].credential \in Nat \cup {None, Masked}
  /\ \A m \in DOMAIN members : members[m].user \in DOMAIN users /\ members[m].org \in DOMAIN organizations
  /\ \A i \in DOMAIN invitations : invitations[i].org \in Orgs /\ invitations[i].email \in Emails
  /\ staffing.raced \cup staffing.demoted \subseteq Orgs

Member(u, o, admin, permitted) ==
  [user |-> u, org |-> o, admin |-> admin, permitted |-> permitted /\ ~admin, pin |-> None]

Of(o) == {m \in DOMAIN members : members[m].org = o}
Admins(o) == {m \in Of(o) : members[m].admin}
IsMember(u, o) == \E m \in Of(o) : members[m].user = u

(* checkRole(ADMIN), checkPermission.  *)
IsAdmin(u, o) == SignedIn(u) /\ \E m \in Admins(o) : members[m].user = u
May(u, o) == SignedIn(u) /\ \E m \in Of(o) : members[m].user = u /\ (members[m].admin \/ members[m].permitted)

Ask(w, todo) == Reply(w, todo) /\ UNCHANGED company
SaveMember(id, row, change) == [do |-> "member", id |-> id, row |-> row, org |-> row.org, change |-> change]

----------------------------------------------------------------------------
(* Organizations.  *)

CreateOrganization(w, u, o) ==
  /\ SignedIn(u) /\ o \notin DOMAIN organizations
  /\ Draw(1) /\ Ask(w, <<[do |-> "found", org |-> o, id |-> Token, user |-> u, row |-> users[u]]>>)

(* register with the name of an organization: one transaction.  *)
RegisterWithOrganization(w, u, email, o) ==
  /\ New(u) /\ ~Taken(email) /\ o \notin DOMAIN organizations
  /\ Draw(2) /\ Ask(w, <<[do |-> "found", org |-> o, id |-> Token, user |-> u,
                          row |-> [NewUser(email) EXCEPT !.verification = Token + 1]]>>)

FoundOrganization(w) ==
  LET o == Now(w).org
      u == Now(w).user
      new == u \notin DOMAIN users
  IN  /\ At(w, "found")
      /\ IF o \in DOMAIN organizations \/ (new /\ Taken(Now(w).row.email)) THEN Fail(w) /\ UNCHANGED <<users, organizations, members>>
         ELSE /\ organizations' = With(organizations, o, [live |-> TRUE, credential |-> None])
              /\ members' = With(members, Now(w).id, Member(u, o, TRUE, FALSE))
              /\ users' = IF new THEN With(users, u, Now(w).row) ELSE users
              /\ Done(w)
      /\ UNCHANGED <<sessions, otps, trusted, tokens, erasure, invitations, staffing>>

(* The row is read with its credential masked and with its members.  Only a
   credential that comes with the request replaces the masked one: a new one, or
   for its mask the one that is stored.  *)
UpdateOrganization(w, a, o, sent) ==
  LET stored == organizations[o].credential
      shown == IF stored = None THEN None ELSE Masked
      credential == CASE sent = "none" -> shown
                      [] sent = "mask" -> IF stored # None THEN stored ELSE Masked
                      [] OTHER -> Token
  IN  /\ organizations[o].live /\ IsAdmin(a, o)
      /\ Draw(IF sent = "new" THEN 1 ELSE 0)
      /\ Ask(w, <<[do |-> "organization", org |-> o, row |-> [organizations[o] EXCEPT !.credential = credential],
                   members |-> Of(o)]>>)

(* updateOrganization, setDiscount and removeDiscount of the platform: a row without
   its members is read and saved whole.  *)
EditTerms(w, o) ==
  /\ organizations[o].live
  /\ Draw(0) /\ Ask(w, <<[do |-> "organization", org |-> o, row |-> organizations[o], members |-> 1..MaxTokens]>>)

RemoveOrganization(w, a, o) ==
  /\ organizations[o].live /\ IsAdmin(a, o)
  /\ Draw(0) /\ Ask(w, <<[do |-> "close", org |-> o]>>)

(* The members that were read are saved with it: one who joined meanwhile would
   lose the organization, which the table refuses.  *)
StoreOrganization(w) ==
  /\ \/ /\ At(w, "organization")
        /\ IF Of(Now(w).org) \subseteq Now(w).members
           THEN organizations' = With(organizations, Now(w).org, Now(w).row) /\ Done(w)
           ELSE Fail(w) /\ UNCHANGED organizations
     \/ /\ At(w, "close")
        /\ organizations' = [organizations EXCEPT ![Now(w).org].live = FALSE] /\ Done(w)
  /\ UNCHANGED <<accounts, members, invitations, staffing>>

----------------------------------------------------------------------------
(* Members.  *)

AddMember(w, a, o, u, admin, permitted) ==
  /\ May(a, o) /\ u \in DOMAIN users /\ ~IsMember(u, o)
  /\ Draw(1) /\ Ask(w, <<SaveMember(Token, Member(u, o, admin, permitted), "add")>>)

(* Only who demotes himself must leave another administrator.  *)
UpdateMember(w, a, m, admin, permitted) ==
  LET o == members[m].org
      loses == members[m].admin /\ ~admin
      row == [members[m] EXCEPT !.admin = admin, !.permitted = permitted /\ ~admin]
  IN  /\ May(a, o) /\ (members[m].user = a /\ ~admin => Cardinality(Admins(o)) > 1)
      /\ Draw(0)
      /\ Ask(w, <<SaveMember(m, row, IF loses /\ members[m].user # a THEN "demote" ELSE "update")>>)

(* Mutant: an administrator may always leave.  *)
RemoveAnyMember(w, a, m) ==
  /\ May(a, members[m].org)
  /\ Draw(0) /\ Ask(w, <<[do |-> "dropMember", id |-> m, org |-> members[m].org]>>)

RemoveMember(w, a, m) ==
  LET o == members[m].org
  IN  /\ May(a, o) /\ (members[m].admin => Cardinality(Admins(o)) > 1)
      /\ Draw(0) /\ Ask(w, <<[do |-> "dropMember", id |-> m, org |-> o]>>)

(* assertNotLastOrgAdmin: in none of his organizations the only one.  *)
NotLastAdmin(u) == \A m \in DOMAIN members : members[m].user = u /\ members[m].admin => Cardinality(Admins(members[m].org)) > 1

(* Mutant: the address that was asked for stays.  *)
KeepPending(u) == <<[SaveUser(u, [Anonymized EXCEPT !.pending = users[u].pending, !.change = users[u].change]) EXCEPT !.erase = TRUE], RevokeAll(u)>>

AnonymizeUser(u) == <<[SaveUser(u, Anonymized) EXCEPT !.erase = TRUE], RevokeAll(u)>>

(* The membership stays.  *)
AnonymizeMember(w, a, o, u) ==
  /\ IsAdmin(a, o) /\ IsMember(u, o) /\ NotLastAdmin(u)
  /\ Draw(0) /\ Ask(w, AnonymizeUser(u))

DeleteAccount(w, u) ==
  /\ SignedIn(u) /\ NotLastAdmin(u)
  /\ Draw(0) /\ Ask(w, AnonymizeUser(u))

----------------------------------------------------------------------------
(* Invitations.  *)

(* One that was accepted blocks another until its time is over.  *)
CreateInvitation(w, a, o, email, admin) ==
  /\ May(a, o)
  /\ \A u \in DOMAIN users : users[u].email = email => ~IsMember(u, o)
  /\ LET earlier == {i \in DOMAIN invitations : invitations[i].org = o /\ invitations[i].email = email}
     IN  earlier = {} \/ \E i \in earlier : i \in tokens.expired
  /\ Draw(1)
  /\ Ask(w, <<[do |-> "invite", id |-> Token,
               row |-> [org |-> o, email |-> email, admin |-> admin, accepted |-> FALSE]]>>)

CancelInvitation(w, a, i) ==
  /\ May(a, invitations[i].org)
  /\ Draw(0) /\ Ask(w, <<[do |-> "uninvite", id |-> i]>>)

(* Mutant: only the time of an invitation is looked at.  *)
OpenAgain(u, i) == SignedIn(u) /\ Fresh(i) /\ invitations[i].email = users[u].email

(* getInvitationByToken, for the address it was made out to.  *)
Open(u, i) == SignedIn(u) /\ Fresh(i) /\ ~invitations[i].accepted /\ invitations[i].email = users[u].email

AcceptInvitation(w, u, i) ==
  LET row == invitations[i]
  IN  /\ Open(u, i) /\ ~IsMember(u, row.org)
      /\ Draw(1)
      /\ Ask(w, <<[do |-> "accept", id |-> Token, row |-> Member(u, row.org, row.admin, TRUE), org |-> row.org,
                   invitation |-> i, as |-> [row EXCEPT !.accepted = TRUE]]>>)

DeclineInvitation(w, u, i) ==
  /\ Open(u, i) /\ Draw(0) /\ Ask(w, <<[do |-> "uninvite", id |-> i]>>)

----------------------------------------------------------------------------
(* Statements.  *)

Clash(id, row) == \E m \in DOMAIN members \ {id} : members[m].user = row.user /\ members[m].org = row.org

Changes(v, o) == \E i \in DOMAIN task[v] : task[v][i].do \in {"member", "dropMember", "accept"} /\ task[v][i].org = o
Staffed(w, o, demoted) ==
  [staffing EXCEPT !.raced = @ \cup (IF \E v \in Busy \ {w} : Changes(v, o) THEN {o} ELSE {}),
                   !.demoted = @ \cup (IF demoted THEN {o} ELSE {})]

(* Saving a row that is gone inserts it again.  *)
StoreMember(w) ==
  LET id == Now(w).id
      row == Now(w).row
  IN  /\ \/ At(w, "member") /\ UNCHANGED invitations
         \/ At(w, "accept")
      /\ IF Clash(id, row) THEN Fail(w) /\ UNCHANGED <<members, invitations, staffing>>
         ELSE /\ members' = With(members, id, row)
              /\ IF Now(w).do = "accept"
                 THEN /\ invitations' = With(invitations, Now(w).invitation, Now(w).as)
                      /\ staffing' = [Staffed(w, row.org, FALSE) EXCEPT !.accepted = Append(@, Now(w).invitation)]
                 ELSE staffing' = Staffed(w, row.org, Now(w).change = "demote")
              /\ Done(w)
      /\ UNCHANGED <<accounts, organizations>>

DropMember(w) ==
  /\ At(w, "dropMember")
  /\ members' = Without(members, Now(w).id) /\ staffing' = Staffed(w, Now(w).org, FALSE)
  /\ Done(w) /\ UNCHANGED <<accounts, organizations, invitations>>

StoreInvitation(w) ==
  /\ \/ At(w, "invite") /\ invitations' = With(invitations, Now(w).id, Now(w).row)
     \/ At(w, "uninvite") /\ invitations' = Without(invitations, Now(w).id)
  /\ Done(w) /\ UNCHANGED <<accounts, organizations, members, staffing>>

CompanyRequest(w, a) ==
  \/ \E o \in Orgs : CreateOrganization(w, a, o)
  \/ \E o \in Orgs, email \in Emails : RegisterWithOrganization(w, a, email, o)
  \/ \E o \in DOMAIN organizations :
       \/ \E sent \in {"none", "mask", "new"} : UpdateOrganization(w, a, o, sent)
       \/ RemoveOrganization(w, a, o) \/ EditTerms(w, o)
       \/ \E u \in DOMAIN users : AnonymizeMember(w, a, o, u)
       \/ \E u \in DOMAIN users, admin, permitted \in BOOLEAN : AddMember(w, a, o, u, admin, permitted)
       \/ \E email \in Emails, admin \in BOOLEAN : CreateInvitation(w, a, o, email, admin)
  \/ \E m \in DOMAIN members :
       \/ \E admin, permitted \in BOOLEAN : UpdateMember(w, a, m, admin, permitted)
       \/ RemoveMember(w, a, m)
  \/ DeleteAccount(w, a)
  \/ \E i \in DOMAIN invitations : CancelInvitation(w, a, i) \/ AcceptInvitation(w, a, i) \/ DeclineInvitation(w, a, i)

CompanyStep(w) ==
  FoundOrganization(w) \/ StoreOrganization(w) \/ StoreMember(w) \/ DropMember(w) \/ StoreInvitation(w)

MembershipsNext ==
  \/ AccountsNext /\ UNCHANGED company
  \/ \E w \in Workers : (Ready(w) /\ \E a \in Users : CompanyRequest(w, a)) \/ CompanyStep(w)

----------------------------------------------------------------------------
Settled == DOMAIN organizations \ (staffing.raced \cup staffing.demoted)
Working(o) == {m \in Admins(o) : users[members[m].user].active}
Left(o) == {m \in Admins(o) : members[m].user \in erasure.done}

(* An organization keeps an administrator whose account works, through removals,
   demotions, erasures and stale saves, unless another member demoted the last one,
   two changes of its members overlapped, or one of its administrators is an account
   that was erased, which keeps the membership and is counted (removeMember,
   updateMember, assertNotLastOrgAdmin).  *)
AnAdminRemains == \A o \in Settled : Working(o) # {} \/ Left(o) # {}

(* The same without the last exception, as assertNotLastOrgAdmin has it: an
   organization without any administrator is unmanageable.  Not so: erased accounts
   are counted, and the one of two that is left may go.  *)
SomeoneManages == \A o \in Settled : Working(o) # {}

(* An invitation is good for one membership: not again for one who was removed
   since, or who took over the address, unless changes of the members overlapped
   (acceptInvitation, getInvitationByToken).  *)
AcceptedOnce ==
  \A j, k \in DOMAIN staffing.accepted :
    staffing.accepted[j] = staffing.accepted[k] /\ j # k => staffing.raced # {}
=============================================================================
