---------------------------- MODULE DeviceFleet ----------------------------
(* The devices of the organizations (src/src/modules/devices): tills, displays and
   printer agents register themselves and wait for an administrator, who links or
   verifies them by the code they show, blocks them and lets them in again; a
   server signs in at a till with a PIN.  Types and settings are left out, but for
   the client a till has at the fiscal device.                                *)
EXTENDS Memberships

CONSTANTS Names, Pins

VARIABLES
  devices,  \* [org, name, status, code, active, client, server]
  blocked   \* devices that are blocked; those another request saved meanwhile

fleet == <<devices, blocked>>

Status == {"pending", "verified", "blocked"}
FleetOK ==
  /\ \A d \in DOMAIN devices :
       /\ devices[d].org \in Orgs \cup {None} /\ devices[d].name \in Names /\ devices[d].status \in Status
       /\ devices[d].code \in 1..MaxTokens \cup {None} /\ devices[d].active \in BOOLEAN
       /\ devices[d].client \in 1..MaxTokens \cup {None} /\ devices[d].server \in Users \cup {None}
  /\ blocked.now \cup blocked.raced \subseteq 1..MaxTokens

Device(o, name, code) ==
  [org |-> o, name |-> name, status |-> "pending", code |-> code, active |-> TRUE, client |-> None, server |-> None]

Call(w, todo) == Ask(w, todo) /\ UNCHANGED fleet
SaveDevice(d, row, as) == [do |-> "device", id |-> d, row |-> row, as |-> as]

(* findOne: a device of the organization.  *)
DeviceOf(d, o) == d \in DOMAIN devices /\ devices[d].org = o

(* Mutant: any device that there is.  *)
AnyDevice(a, d) == d \in DOMAIN devices /\ SignedIn(a)

Manages(a, d) == d \in DOMAIN devices /\ \E o \in DOMAIN organizations : DeviceOf(d, o) /\ May(a, o)

----------------------------------------------------------------------------
(* Devices that make themselves known.  *)

(* initDevice, without an organization; registerDevice names one that is there.  *)
InitDevice(w, name) ==
  /\ Draw(2) /\ Call(w, <<SaveDevice(Token, Device(None, name, Token + 1), "save")>>)
RegisterDevice(w, o, name) ==
  /\ organizations[o].live /\ Draw(2) /\ Call(w, <<SaveDevice(Token, Device(o, name, Token + 1), "save")>>)

LogoutDevice(w, d) ==
  /\ d \in DOMAIN devices
  /\ Draw(0) /\ Call(w, <<SaveDevice(d, [devices[d] EXCEPT !.active = FALSE], "save")>>)

(* DeviceAuthGuard *)
Admitted(d) == d \in DOMAIN devices /\ devices[d].active /\ devices[d].status = "verified"

(* The PIN finds the member it belongs to, in any order of the rows.  *)
VerifyPin(w, d, pin) ==
  /\ Admitted(d)
  /\ \E m \in Of(devices[d].org) :
       members[m].pin = pin /\ Draw(0) /\ Call(w, <<[do |-> "couple", id |-> d, server |-> members[m].user]>>)
ClearActiveUser(w, d) ==
  /\ Admitted(d) /\ Draw(0) /\ Call(w, <<[do |-> "couple", id |-> d, server |-> None]>>)

(* The first sale of a till gives it a client of its own (resolveClientId of the
   fiscal device): only the settings are read and saved.  *)
ResolveClient(w, d) ==
  /\ Admitted(d) /\ devices[d].client = None
  /\ Draw(0) /\ Call(w, <<[do |-> "client", id |-> d]>>)

----------------------------------------------------------------------------
(* What an administrator does with them.  *)

(* create: no code, so that nothing but unblocking ever verifies it.  *)
CreateDevice(w, a, o, name) ==
  /\ May(a, o) /\ Draw(1) /\ Call(w, <<SaveDevice(Token, Device(o, name, None), "save")>>)

(* A device that waits with this code, of whatever organization; the client of an
   earlier device with its name is taken over, the newest first.  *)
LinkDevice(w, a, o, d, name) ==
  LET sameName == {e \in DOMAIN devices : DeviceOf(e, o) /\ devices[e].name = name /\ e # d /\ devices[e].client # None}
      clients == IF sameName = {} THEN {devices[d].client}
                 ELSE {devices[e].client : e \in {f \in sameName : \A g \in sameName : g <= f}}
  IN  /\ May(a, o) /\ d \in DOMAIN devices /\ devices[d].status = "pending" /\ devices[d].code # None
      /\ Draw(0)
      /\ \E client \in clients :
           Call(w, <<SaveDevice(d, [devices[d] EXCEPT !.org = o, !.name = name, !.status = "verified", !.code = None,
                                                       !.client = client], "save")>>)

(* Mutant: a device that is verified is switched on.  *)
VerifyAndAdmit(w, a, d) ==
  /\ Manages(a, d) /\ devices[d].status # "verified" /\ devices[d].code # None
  /\ Draw(0) /\ Call(w, <<SaveDevice(d, [devices[d] EXCEPT !.status = "verified", !.code = None, !.active = TRUE], "save")>>)

VerifyDevice(w, a, d) ==
  /\ Manages(a, d) /\ devices[d].status # "verified" /\ devices[d].code # None
  /\ Draw(0) /\ Call(w, <<SaveDevice(d, [devices[d] EXCEPT !.status = "verified", !.code = None], "save")>>)

(* New settings come without the client; a device is switched on, off or neither.  *)
UpdateDevice(w, a, d, name, settings, active) ==
  /\ Manages(a, d)
  /\ Draw(0)
  /\ Call(w, <<SaveDevice(d, [devices[d] EXCEPT !.name = name, !.client = IF settings THEN None ELSE @,
                                !.active = active], IF active THEN "admit" ELSE "save")>>)
RemoveDevice(w, a, d) ==
  /\ Manages(a, d) /\ Draw(0) /\ Call(w, <<[do |-> "dropDevice", id |-> d]>>)
RegenerateToken(w, a, d) ==
  /\ Manages(a, d) /\ Draw(0) /\ Call(w, <<SaveDevice(d, devices[d], "save")>>)

BlockDevice(w, a, d) ==
  /\ Manages(a, d)
  /\ Draw(0) /\ Call(w, <<SaveDevice(d, [devices[d] EXCEPT !.status = "blocked", !.active = FALSE], "block")>>)
UnblockDevice(w, a, d) ==
  /\ Manages(a, d)
  /\ Draw(0) /\ Call(w, <<SaveDevice(d, [devices[d] EXCEPT !.status = "verified", !.active = TRUE], "admit")>>)
ClearActiveUserAsAdmin(w, a, d) ==
  /\ Manages(a, d) /\ Draw(0) /\ Call(w, <<[do |-> "couple", id |-> d, server |-> None]>>)

(* A PIN no other member has.  *)
SetMemberPin(w, a, m, pin) ==
  LET o == members[m].org
  IN  /\ May(a, o) /\ \A n \in Of(o) \ {m} : members[n].pin # pin
      /\ Draw(0) /\ Call(w, <<SaveMember(m, [members[m] EXCEPT !.pin = pin], "update")>>)
RemoveMemberPin(w, a, m) ==
  /\ May(a, members[m].org)
  /\ Draw(0) /\ Call(w, <<SaveMember(m, [members[m] EXCEPT !.pin = None], "update")>>)

----------------------------------------------------------------------------
(* Statements.  *)

Saves(v, d) == \E i \in DOMAIN task[v] : task[v][i].do \in {"device", "dropDevice"} /\ task[v][i].id = d

StoreDevice(w) ==
  LET d == Now(w).id
      raced == IF \E v \in Busy \ {w} : Saves(v, d) THEN {d} ELSE {}
  IN  /\ At(w, "device")
      /\ devices' = With(devices, d, Now(w).row)
      /\ blocked' = [now |-> CASE Now(w).as = "block" -> blocked.now \cup {d}
                               [] Now(w).as = "admit" -> blocked.now \ {d}
                               [] OTHER -> blocked.now,
                     raced |-> blocked.raced \cup raced]
      /\ Done(w) /\ UNCHANGED <<accounts, company>>

(* An update of single columns finds a row or none.  *)
SetColumns(w) ==
  LET d == Now(w).id
      set(row) == IF d \in DOMAIN devices THEN With(devices, d, row) ELSE devices
  IN  /\ \/ At(w, "couple") /\ devices' = set([devices[d] EXCEPT !.server = Now(w).server])
         \/ At(w, "client") /\ devices' = set([devices[d] EXCEPT !.client = d])
      /\ Done(w) /\ UNCHANGED <<accounts, company, blocked>>

DropDevice(w) ==
  /\ At(w, "dropDevice") /\ devices' = Without(devices, Now(w).id)
  /\ blocked' = [blocked EXCEPT !.now = @ \ {Now(w).id}]
  /\ Done(w) /\ UNCHANGED <<accounts, company>>

DeviceRequest(w, d) ==
  \/ LogoutDevice(w, d) \/ ClearActiveUser(w, d) \/ ResolveClient(w, d) \/ \E pin \in Pins : VerifyPin(w, d, pin)
  \/ \E a \in Users :
       \/ \E o \in DOMAIN organizations, name \in Names : LinkDevice(w, a, o, d, name)
       \/ \E name \in Names, settings \in BOOLEAN, active \in {devices[d].active, TRUE, FALSE} :
            UpdateDevice(w, a, d, name, settings, active)
       \/ VerifyDevice(w, a, d) \/ RemoveDevice(w, a, d) \/ RegenerateToken(w, a, d) \/ BlockDevice(w, a, d)
       \/ UnblockDevice(w, a, d) \/ ClearActiveUserAsAdmin(w, a, d)

FleetRequest(w) ==
  \/ \E name \in Names : \/ InitDevice(w, name)
                         \/ \E o \in DOMAIN organizations : RegisterDevice(w, o, name)
                         \/ \E a \in Users, o \in DOMAIN organizations : CreateDevice(w, a, o, name)
  \/ \E d \in DOMAIN devices : DeviceRequest(w, d)
  \/ \E a \in Users, m \in DOMAIN members : RemoveMemberPin(w, a, m) \/ \E pin \in Pins : SetMemberPin(w, a, m, pin)

FleetNext ==
  \/ MembershipsNext /\ UNCHANGED fleet
  \/ \E w \in Workers : (Ready(w) /\ FleetRequest(w)) \/ StoreDevice(w) \/ SetColumns(w) \/ DropDevice(w)
=============================================================================
