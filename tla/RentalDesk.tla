----------------------------- MODULE RentalDesk -----------------------------
(* The rental desk of the platform and the printers (src/src/modules/admin,
   src/src/modules/rentals, src/src/modules/printers): hardware is offered to an
   organization, confirmed or declined by it, activated and returned.  Hardware
   that is linked to a device is a printer: its rental lends the device and makes a
   row for the printer.  Devices stand for printer agents; socket rooms are left
   out, as a print job goes to the room of its device.  So is the event of a rental,
   and with it the refusal of a second active box of an event (ActivateRental).  *)
EXTENDS DeviceFleet

CONSTANT Lists  \* what an agent reports: sequences of local names of its printers

ASSUME ListsAssumption == \A list \in Lists : list \in Seq({list[i] : i \in DOMAIN list})

VARIABLES
  hardware, \* [status, device]
  rentals,  \* [hardware, org, status]
  printers, \* [org, device, rental, local]
  desk      \* hardware and rentals whose requests overlapped or were cut short, that
            \* were set free by hand, or whose hardware went while it was one of these;
            \* devices whose organization was taken away

rental == <<hardware, rentals, printers, desk>>
vars == <<requests, accounts, company, fleet, rental>>

Locals == UNION {{list[i] : i \in DOMAIN list} : list \in Lists}
Id == 1..MaxTokens
Live == {"pending", "confirmed", "active"}

(* Rows are well formed; a membership names a user and an organization there are, a
   rental its hardware, a printer and a piece of hardware their device.  *)
TypeOK ==
  /\ AccountsOK /\ MembershipsOK /\ FleetOK
  /\ \A h \in DOMAIN hardware : /\ hardware[h].status \in {"available", "rented", "maintenance", "retired"}
                                /\ hardware[h].device \in DOMAIN devices \cup {None}
  /\ \A r \in DOMAIN rentals : /\ rentals[r].hardware \in DOMAIN hardware /\ rentals[r].org \in Orgs
                               /\ rentals[r].status \in Live \cup {"returned", "cancelled"}
  /\ \A p \in DOMAIN printers : /\ printers[p].org \in Orgs \cup {None} /\ printers[p].device \in DOMAIN devices \cup {None}
                                /\ printers[p].rental \in Id \cup {None} /\ printers[p].local \in Locals \cup {None}
  /\ desk.loose \cup desk.released \subseteq Id

Printer(o, d, r, local) == [org |-> o, device |-> d, rental |-> r, local |-> local]

(* Statements name what they are about: hardware and rentals.  *)
Serve(w, todo) == Call(w, todo) /\ UNCHANGED rental
SaveHardware(h, row) == [do |-> "hardware", id |-> h, row |-> row, byHand |-> FALSE, about |-> {h}]
SaveRental(r, row) == [do |-> "rental", id |-> r, row |-> row, about |-> {r, row.hardware}]
SavePrinter(p, row) == [do |-> "printer", id |-> p, row |-> row, about |-> {row.rental} \ {None}]
DropPrinters(gone, about) == [do |-> "dropPrinters", gone |-> gone, about |-> about]
Free(h, byHand) == [do |-> "free", id |-> h, byHand |-> byHand, about |-> {h}]

(* The device is read, if there is one, and goes to the organization; then the rest.  *)
Move(d, o, rest, about) == [do |-> "move", id |-> d, org |-> o, rest |-> rest, about |-> about]

----------------------------------------------------------------------------
(* Hardware.  *)

CreateRentalHardware(w) ==
  /\ Draw(1) /\ Serve(w, <<SaveHardware(Token, [status |-> "available", device |-> None])>>)

UpdateRentalHardware(w, h, status, d) ==
  LET row == [hardware[h] EXCEPT !.status = status, !.device = d]
      byHand == status = "available" /\ hardware[h].status # "available"
  IN  Draw(0) /\ Serve(w, <<[SaveHardware(h, row) EXCEPT !.byHand = byHand]>>)

DeleteRentalHardware(w, h) ==
  /\ \A r \in DOMAIN rentals : rentals[r].hardware = h => rentals[r].status \notin Live
  /\ Draw(0) /\ Serve(w, <<[do |-> "dropHardware", id |-> h, about |-> {h}]>>)

----------------------------------------------------------------------------
(* Rentals.  *)

Rental(h, o) == [hardware |-> h, org |-> o, status |-> "pending"]
Offer(h, o) == <<SaveRental(Token, Rental(h, o)), SaveHardware(h, [hardware[h] EXCEPT !.status = "rented"])>>

(* Mutant: whatever the hardware is used for.  *)
AssignAnyHardware(w, h, o) == Draw(1) /\ Serve(w, Offer(h, o))

CreateRentalAssignment(w, h, o) ==
  /\ hardware[h].status = "available"
  /\ Draw(1) /\ Serve(w, Offer(h, o))

Become(r, status) == SaveRental(r, [rentals[r] EXCEPT !.status = status])

ConfirmAssignment(w, a, r) ==
  /\ IsAdmin(a, rentals[r].org) /\ rentals[r].status = "pending"
  /\ Draw(0) /\ Serve(w, <<Become(r, "confirmed")>>)

DeclineAssignment(w, a, r) ==
  /\ IsAdmin(a, rentals[r].org) /\ rentals[r].status = "pending"
  /\ Draw(0) /\ Serve(w, <<Become(r, "cancelled"), Free(rentals[r].hardware, FALSE)>>)

ActivateRental(w, r) ==
  LET o == rentals[r].org
      h == rentals[r].hardware
      d == hardware[h].device
      printer == SavePrinter(Token, Printer(o, d, r, None))
  IN  /\ rentals[r].status = "confirmed"
      /\ Draw(1)
      /\ Serve(w, (IF d = None THEN <<>> ELSE <<Move(d, o, <<printer>>, {r, h})>>) \o <<Become(r, "active")>>)

MadeFor(r) == {p \in DOMAIN printers : printers[p].rental = r}
GiveBack(r) ==
  LET h == rentals[r].hardware
      d == hardware[h].device
  IN  (IF d = None THEN <<>> ELSE <<[do |-> "release", id |-> d, about |-> {r, h}]>>) \o
      <<Become(r, "returned"), Free(h, rentals[r].status \notin Live)>>

(* Mutant: the printers that were made for the rental stay.  *)
ReturnWithoutPrinters(w, r) == Draw(0) /\ Serve(w, GiveBack(r))

(* A rental may be returned in any status, one that is over also.  *)
ReturnRental(w, r) ==
  /\ Draw(0)
  /\ Serve(w, (IF MadeFor(r) = {} THEN <<>> ELSE <<DropPrinters(MadeFor(r), {r, rentals[r].hardware})>>) \o GiveBack(r))

----------------------------------------------------------------------------
(* Printers.  *)

(* A device without an organization; a printer it had before is taken up again.  *)
AssignPrinterDevice(w, d, o) ==
  LET known == {p \in DOMAIN printers : printers[p].device = d}
      taken == SaveDevice(d, [devices[d] EXCEPT !.org = o, !.status = "verified"], "save")
  IN  /\ devices[d].org = None /\ organizations[o].live
      /\ Draw(IF known = {} THEN 1 ELSE 0)
      /\ \/ known = {} /\ Serve(w, <<SavePrinter(Token, Printer(o, d, None, None)), taken>>)
         \/ \E p \in known : Serve(w, <<SavePrinter(p, [printers[p] EXCEPT !.org = o]), taken>>)

UnassignPrinter(w, p) ==
  LET d == printers[p].device
  IN  /\ Draw(0)
      /\ Serve(w, <<[do |-> "unassign", id |-> p, about |-> {}]>> \o (IF d = None THEN <<>> ELSE <<Move(d, None, <<>>, {})>>))

DeleteDevice(w, d) ==
  /\ Draw(0) /\ Serve(w, <<[do |-> "dropPrintersOf", id |-> d, about |-> {}], [do |-> "dropDevice", id |-> d]>>)

OwnDevice(o, d) == d = None \/ DeviceOf(d, o)
CreatePrinter(w, a, o, d) ==
  /\ May(a, o) /\ OwnDevice(o, d)
  /\ Draw(1) /\ Serve(w, <<SavePrinter(Token, Printer(o, d, None, None))>>)

UpdatePrinter(w, a, p, d) ==
  LET o == printers[p].org
  IN  /\ o # None /\ May(a, o) /\ (d # printers[p].device => OwnDevice(o, d))
      /\ Draw(0) /\ Serve(w, <<SavePrinter(p, [printers[p] EXCEPT !.device = d])>>)
UpdatePrinterAdmin(w, p) == Draw(0) /\ Serve(w, <<SavePrinter(p, printers[p])>>)

RemovePrinter(w, a, p) ==
  /\ printers[p].org # None /\ May(a, printers[p].org)
  /\ Draw(0) /\ Serve(w, <<DropPrinters({p}, {printers[p].rental} \ {None})>>)

(* The agent is admitted once, then its printers are looked for one by one.  *)
SyncFromAgent(w, d, list) ==
  /\ Admitted(d)
  /\ Draw(0)
  /\ Serve(w, [i \in DOMAIN list |-> [do |-> "sync", id |-> d, org |-> devices[d].org, local |-> list[i], about |-> {}]])

----------------------------------------------------------------------------
(* Statements.  A step notes what it is about when another request still has to do
   with it, and what a request that fails leaves undone.  *)

DeskKinds == {"hardware", "free", "dropHardware", "rental", "printer", "dropPrinters", "dropPrintersOf",
              "move", "release", "unassign", "sync"}
AboutOf(v) == UNION {task[v][i].about : i \in {k \in DOMAIN task[v] : task[v][k].do \in DeskKinds}}
Noted(w, byHand, released) ==
  [loose |-> desk.loose \cup byHand \cup (Now(w).about \cap UNION {AboutOf(v) : v \in Busy \ {w}}),
   released |-> desk.released \cup released]
Notes(w, byHand, released) == desk' = Noted(w, byHand, released)
CutShort(w) == Fail(w) /\ desk' = [desk EXCEPT !.loose = @ \cup AboutOf(w)]

(* Device and hardware must be there.  *)
StoreHardware(w) ==
  LET h == Now(w).id
      byHand == IF At(w, "dropHardware") \/ ~Now(w).byHand THEN {} ELSE {h}
      lost == {r \in DOMAIN rentals : rentals[r].hardware = h}
      noted == Noted(w, {}, {})
  IN  /\ \/ /\ At(w, "hardware") /\ UNCHANGED rentals
            /\ IF Now(w).row.device \in DOMAIN devices \cup {None}
               THEN hardware' = With(hardware, h, Now(w).row) /\ Done(w) /\ Notes(w, byHand, {})
               ELSE CutShort(w) /\ UNCHANGED hardware
         \/ /\ At(w, "free") /\ UNCHANGED rentals /\ Done(w) /\ Notes(w, byHand, {})
            /\ hardware' = IF h \in DOMAIN hardware THEN With(hardware, h, [hardware[h] EXCEPT !.status = "available"])
                           ELSE hardware
         \/ /\ At(w, "dropHardware") /\ Done(w)
            /\ hardware' = Without(hardware, h)
            /\ rentals' = [r \in DOMAIN rentals \ lost |-> rentals[r]]
            /\ desk' = IF h \in noted.loose THEN [noted EXCEPT !.loose = @ \cup lost] ELSE noted
      /\ UNCHANGED <<accounts, company, fleet, printers>>

StoreRental(w) ==
  /\ At(w, "rental")
  /\ IF Now(w).row.hardware \in DOMAIN hardware
     THEN rentals' = With(rentals, Now(w).id, Now(w).row) /\ Done(w) /\ Notes(w, {}, {})
     ELSE CutShort(w) /\ UNCHANGED rentals
  /\ UNCHANGED <<accounts, company, fleet, hardware, printers>>

StorePrinter(w) ==
  LET p == Now(w).id
  IN  /\ \/ /\ At(w, "printer")
            /\ IF Now(w).row.device \in DOMAIN devices \cup {None}
               THEN printers' = With(printers, p, Now(w).row) /\ Done(w) /\ Notes(w, {}, {})
               ELSE CutShort(w) /\ UNCHANGED printers
         \/ /\ At(w, "unassign") /\ Done(w) /\ Notes(w, {}, {})
            /\ printers' = IF p \in DOMAIN printers THEN With(printers, p, [printers[p] EXCEPT !.org = None]) ELSE printers
      /\ UNCHANGED <<accounts, company, fleet, hardware, rentals>>

RemovePrinters(w) ==
  /\ \/ At(w, "dropPrinters") /\ printers' = [p \in DOMAIN printers \ Now(w).gone |-> printers[p]]
     \/ /\ At(w, "dropPrintersOf")
        /\ printers' = [p \in {q \in DOMAIN printers : printers[q].device # Now(w).id} |-> printers[p]]
  /\ Done(w) /\ Notes(w, {}, {}) /\ UNCHANGED <<accounts, company, fleet, hardware, rentals>>

(* The row of that name, else any without a name, else a new one.  *)
SyncPrinter(w) ==
  LET d == Now(w).id
      named(local) == {p \in DOMAIN printers : printers[p].device = d /\ printers[p].local = local}
      found == IF named(Now(w).local) # {} THEN named(Now(w).local) ELSE named(None)
  IN  /\ At(w, "sync")
      /\ Draw(IF found = {} THEN 1 ELSE 0)
      /\ \/ found = {} /\ Then(w, <<SavePrinter(Token, Printer(Now(w).org, d, None, Now(w).local))>>)
         \/ \E p \in found : Then(w, <<SavePrinter(p, [printers[p] EXCEPT !.local = Now(w).local])>>)
      /\ UNCHANGED <<users, sessions, otps, trusted, erasure, company, fleet, rental>>

MoveDevice(w) ==
  LET d == Now(w).id
  IN  /\ \/ /\ At(w, "move") /\ UNCHANGED fleet
            /\ Then(w, IF d \in DOMAIN devices
                       THEN <<SaveDevice(d, [devices[d] EXCEPT !.org = Now(w).org], "save")>> \o Now(w).rest
                       ELSE <<>>)
         \/ /\ At(w, "release") /\ Done(w) /\ UNCHANGED blocked
            /\ devices' = IF d \in DOMAIN devices THEN With(devices, d, [devices[d] EXCEPT !.org = None]) ELSE devices
      /\ Notes(w, {}, IF Now(w).do = "release" \/ Now(w).org = None THEN {d} ELSE {})
      /\ UNCHANGED <<accounts, company, hardware, rentals, printers>>

DeskRequest(w) ==
  \/ CreateRentalHardware(w)
  \/ \E h \in DOMAIN hardware :
       \/ \E status \in {hardware[h].status, "available", "maintenance"}, d \in {hardware[h].device} \cup DOMAIN devices :
            UpdateRentalHardware(w, h, status, d)
       \/ DeleteRentalHardware(w, h)
       \/ \E o \in DOMAIN organizations : CreateRentalAssignment(w, h, o)
  \/ \E r \in DOMAIN rentals :
       \/ ActivateRental(w, r) \/ ReturnRental(w, r)
       \/ \E a \in Users : ConfirmAssignment(w, a, r) \/ DeclineAssignment(w, a, r)

PrinterRequest(w) ==
  \/ \E d \in DOMAIN devices :
       \/ \E o \in DOMAIN organizations : AssignPrinterDevice(w, d, o)
       \/ DeleteDevice(w, d) \/ \E list \in Lists : SyncFromAgent(w, d, list)
  \/ \E p \in DOMAIN printers :
       \/ UnassignPrinter(w, p) \/ UpdatePrinterAdmin(w, p)
       \/ \E a \in Users : RemovePrinter(w, a, p) \/ \E d \in DOMAIN devices \cup {None} : UpdatePrinter(w, a, p, d)
  \/ \E a \in Users, o \in DOMAIN organizations, d \in DOMAIN devices \cup {None} : CreatePrinter(w, a, o, d)

DeskStep(w) ==
  \/ StoreHardware(w) \/ StoreRental(w) \/ StorePrinter(w) \/ RemovePrinters(w) \/ SyncPrinter(w) \/ MoveDevice(w)

(* A device that is gone leaves what was linked to it; a stop cuts requests short.  *)
Unlink(table) == [k \in DOMAIN table |-> IF table[k].device \in DOMAIN devices' THEN table[k] ELSE [table[k] EXCEPT !.device = None]]
Elsewhere ==
  /\ FleetNext
  /\ hardware' = Unlink(hardware) /\ printers' = Unlink(printers)
  /\ desk' = IF load'.crashes = load.crashes THEN desk
             ELSE [desk EXCEPT !.loose = @ \cup UNION {AboutOf(v) : v \in Busy}]
  /\ UNCHANGED rentals

(* An empty database.  *)
Init ==
  /\ RequestsInit
  /\ users = Empty /\ sessions = Empty /\ otps = Empty /\ trusted = {}
  /\ tokens = [next |-> 1, expired |-> {}] /\ erasure = [done |-> {}, raced |-> {}]
  /\ organizations = Empty /\ members = Empty /\ invitations = Empty
  /\ staffing = [raced |-> {}, demoted |-> {}, accepted |-> <<>>]
  /\ devices = Empty /\ blocked = [now |-> {}, raced |-> {}]
  /\ hardware = Empty /\ rentals = Empty /\ printers = Empty /\ desk = [loose |-> {}, released |-> {}]

Next ==
  \/ Elsewhere
  \/ \E w \in Workers : (Ready(w) /\ (DeskRequest(w) \/ PrinterRequest(w))) \/ DeskStep(w)

Spec == Init /\ [][Next]_vars

----------------------------------------------------------------------------
(* Who is let in belongs there (DeviceAuthGuard takes status and organization from one
   row), however linking, logging out, lending and blocking overlap, with two
   exceptions.  A verified device has an organization, unless the desk took it away,
   which leaves the device verified; and a blocked one stays out until it is unblocked
   or switched on again, whatever code it still has, unless another request that had
   read it before saved it meanwhile.  *)
AdmittedBelongs ==
  \A d \in DOMAIN devices :
    /\ devices[d].status = "verified" => devices[d].org \in DOMAIN organizations \/ d \in desk.released
    /\ Admitted(d) => d \notin blocked.now \ blocked.raced

(* Hardware is promised to one organization at a time: through offers, refusals and
   returns at most one of its rentals is not over, with two exceptions: requests for
   it overlapped or were cut short; or, one after the other, it was set free by hand,
   by an edit of its status or by returning once more a rental that was over already
   (createRentalAssignment goes by the status of the hardware alone, and returnRental
   frees it whatever it is promised to by then).  *)
RentedOnce ==
  \A q, r \in DOMAIN rentals :
    rentals[q].status \in Live /\ rentals[r].status \in Live /\ rentals[q].hardware = rentals[r].hardware
      => q = r \/ rentals[q].hardware \in desk.loose

(* A printer that was made for a rental goes with it (returnRental removes the printers
   first), through any sequence of edits, synchronizations and assignments, unless
   requests for the rental overlapped or were cut short: one that read the printer
   before saves it again after it was removed.  *)
RentalPrinterHasRental ==
  \A p \in DOMAIN printers :
    LET r == printers[p].rental
    IN  r = None \/ r \in desk.loose \/ (r \in DOMAIN rentals /\ rentals[r].status \in {"confirmed", "active"})

(* Once a rental was returned, the printers that were made for it are deleted, as the
   comment in returnRental says.  *)
PrintersAreDeleted ==
  \A p \in DOMAIN printers :
    LET r == printers[p].rental
    IN  r \in DOMAIN rentals => rentals[r].status # "returned"
=============================================================================
