---------------------------- MODULE MCRentalDesk ----------------------------
EXTENDS RentalDesk, TLC

CONSTANTS anna, ben, cleo, club, band, mail1, mail2, mail3, till

MCLists == {<<1>>, <<1, 2>>}

(* An organization with one administrator.  The other user is its second one with
   a display that was blocked; a member with the permission, a second factor by
   mail and a display to be linked; a guest with an invitation and a factor by app;
   or a former member who had accepted one, while the first moves to a third
   address, which has no user yet.  Or there is no other user, and a printer that was
   rented before is offered, agreed on, lent or free.                              *)
Roles == {"admin", "member", "guest", "former", "offered", "agreed", "lent", "returned"}
Renting == {"offered", "agreed", "lent", "returned"}
Seed(role, at, row) == IF role = at THEN row ELSE Empty

MCUser(email) == [NewUser(email) EXCEPT !.verified = TRUE]
Anna(role) == IF role = "former" THEN [MCUser(mail1) EXCEPT !.pending = mail3, !.change = 3] ELSE MCUser(mail1)
Ben(role) ==
  CASE role = "admin" -> [MCUser(mail2) EXCEPT !.reset = 2]
    [] role = "member" -> [MCUser(mail2) EXCEPT !.enabled = TRUE, !.method = "email", !.codes = 1]
    [] role = "guest" -> [MCUser(mail2) EXCEPT !.enabled = TRUE, !.method = "totp", !.secret = TRUE, !.failed = 1]
    [] OTHER -> [NewUser(mail2) EXCEPT !.verification = 2]

Stage(role) == CASE role = "offered" -> "pending" [] role = "agreed" -> "confirmed" [] OTHER -> "active"
Desk(role) ==
  IF role \notin Renting
  THEN [hardware |-> Empty, rentals |-> Empty, printers |-> Empty]
  ELSE [hardware |-> 2 :> [status |-> IF role = "returned" THEN "available" ELSE "rented", device |-> 5],
        rentals |-> (3 :> [Rental(2, club) EXCEPT !.status = "returned"]) @@
                    (IF role = "returned" THEN Empty ELSE 4 :> [Rental(2, club) EXCEPT !.status = Stage(role)]),
        printers |-> CASE role = "lent" -> 6 :> Printer(club, 5, 4, None)
                       [] role = "returned" -> 6 :> Printer(None, 5, None, 1)
                       [] OTHER -> Empty]

MCInit ==
  \E role \in Roles :
    /\ RequestsInit
    /\ users = (anna :> Anna(role)) @@ (IF role \in Renting THEN Empty ELSE ben :> Ben(role))
    /\ sessions = Seed(role, "admin", 3 :> [user |-> ben, revoked |-> FALSE])
    /\ otps = Seed(role, "member", 3 :> [user |-> ben, purpose |-> "login", used |-> FALSE, attempts |-> 0])
    /\ trusted = IF role = "member" THEN {ben} ELSE {}
    /\ tokens = [next |-> 7, expired |-> IF role \in Renting THEN {1} ELSE {}]
    /\ erasure = [done |-> {}, raced |-> {}]
    /\ organizations = club :> [live |-> TRUE, credential |-> 4]
    /\ members = (1 :> Member(anna, club, TRUE, FALSE)) @@
                 (IF role \in {"admin", "member"} THEN 2 :> Member(ben, club, role = "admin", TRUE) ELSE Empty)
    /\ invitations = IF role \in {"guest", "former"}
                     THEN 5 :> [org |-> club, email |-> mail2, admin |-> TRUE, accepted |-> role = "former"]
                     ELSE Empty
    /\ staffing = [raced |-> {}, demoted |-> {}, accepted |-> IF role = "former" THEN <<5>> ELSE <<>>]
    /\ devices = CASE role = "admin" -> 5 :> [Device(club, till, 6) EXCEPT !.status = "blocked", !.active = FALSE]
                   [] role = "member" -> 5 :> Device(None, till, 6)
                   [] role = "guest" -> 2 :> [Device(club, till, None) EXCEPT !.status = "verified", !.client = 2]
                   [] role \in Renting -> 5 :> [Device(IF role = "lent" THEN club ELSE None, till, None) EXCEPT !.status = "verified"]
                   [] OTHER -> Empty
    /\ blocked = [now |-> IF role = "admin" THEN {5} ELSE {}, raced |-> {}]
    /\ hardware = Desk(role).hardware /\ rentals = Desk(role).rentals /\ printers = Desk(role).printers
    /\ desk = [loose |-> {}, released |-> IF role \in Renting THEN {5} ELSE {}]

WorkerSymmetry == Permutations(Workers)

MCSpec == MCInit /\ [][Next]_vars
=============================================================================
