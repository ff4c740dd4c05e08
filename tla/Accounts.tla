------------------------------ MODULE Accounts ------------------------------
(* User accounts (src/src/modules/auth, src/src/modules/users): registration,
   sign-in, refresh tokens, passwords, the second factor and the erasure of an
   account.  A row of the users table is read whole and saved whole.

   What a user types is right or wrong.  Tokens that are mailed or handed out are
   numbers that are drawn once; that its time is over is a property of a token.
   Texts, mails and the access tokens, which no table holds, are left out.      *)
EXTENDS Requests

CONSTANTS
  Users, Emails,
  MaxLoginAttempts, \* MAX_LOGIN_ATTEMPTS
  MaxOtpAttempts,
  RecoveryCodes,    \* RECOVERY_CODES_COUNT
  MaxTokens,        \* tokens and row ids ever drawn
  MaxExpired,       \* tokens whose time is over
  None

ASSUME AccountsAssumption ==
  /\ {MaxLoginAttempts, MaxOtpAttempts, RecoveryCodes, MaxTokens} \subseteq Nat \ {0}
  /\ None \notin Nat \cup Emails \cup {"totp", "email"}

VARIABLES
  users,
  sessions,  \* refresh tokens: [user, revoked]
  otps,      \* codes by mail: [user, purpose, used, attempts]
  trusted,   \* users with a trusted browser
  tokens,    \* the next number to draw, and the expired ones
  erasure    \* accounts that were erased, and those a request was still using then

accounts == <<users, sessions, otps, trusted, tokens, erasure>>

Empty == [k \in {} |-> None]

Token == tokens.next
Draw(n) == Token + n - 1 <= MaxTokens /\ tokens' = [tokens EXCEPT !.next = @ + n]
Fresh(t) == t # None /\ t \notin tokens.expired

UserRow(row) ==
  /\ row.email \in Emails \cup {None} /\ row.pending \in Emails \cup {None}
  /\ {row.named, row.active, row.verified, row.password, row.sso, row.enabled, row.secret} \subseteq BOOLEAN
  /\ {row.verification, row.lock, row.reset, row.change} \subseteq 1..MaxTokens \cup {None}
  /\ row.failed \in 0..(MaxLoginAttempts + MaxRequests) /\ row.method \in {None, "totp", "email"}
  /\ row.codes \in 0..RecoveryCodes
Purposes == {"setup", "login"}

AccountsOK ==
  /\ RequestsOK
  /\ DOMAIN users \subseteq Users /\ \A u \in DOMAIN users : UserRow(users[u])
  /\ \A s \in DOMAIN sessions : sessions[s] \in [user : Users, revoked : BOOLEAN]
  /\ \A c \in DOMAIN otps : otps[c] \in [user : Users, purpose : Purposes, used : BOOLEAN, attempts : 0..MaxOtpAttempts]
  /\ trusted \subseteq Users
  /\ tokens \in [next : 1..(MaxTokens + 1), expired : SUBSET (1..MaxTokens)]
  /\ erasure \in [done : SUBSET Users, raced : SUBSET Users]

NewUser(email) ==
  [email |-> email, named |-> TRUE, active |-> TRUE, verified |-> FALSE, password |-> TRUE, sso |-> FALSE,
   verification |-> None, failed |-> 0, lock |-> None, reset |-> None, pending |-> None, change |-> None,
   method |-> None, secret |-> FALSE, enabled |-> FALSE, codes |-> 0]

(* anonymizeUser.  The address is made of the id and is nobody's; None stands for
   the one that is written then, and who knows the id can name it in a request.  *)
Anonymized ==
  [NewUser(None) EXCEPT !.named = FALSE, !.active = FALSE, !.password = FALSE]

(* Every request that names a signed-in user reads the row first (JwtStrategy).  *)
Unlocked(row) == row.lock = None \/ row.lock \in tokens.expired
SignedIn(u) == u \in DOMAIN users /\ users[u].active /\ Unlocked(users[u])
Taken(email) == \E u \in DOMAIN users : users[u].email = email

SaveUser(u, row) == [do |-> "user", user |-> u, row |-> row, erase |-> FALSE]
NewSession(u) == [do |-> "session", user |-> u]
RevokeAll(u) == [do |-> "revokeAll", user |-> u]
Reply(w, todo) == Start(w, todo) /\ UNCHANGED <<users, sessions, otps, trusted, erasure>>

----------------------------------------------------------------------------
(* Registration and the address.  *)

(* What a request still has to do with an account.  *)
Holds(v, u, kinds) == \E i \in DOMAIN task[v] : task[v][i].do \in kinds /\ task[v][i].user = u
New(u) == u \notin DOMAIN users /\ \A v \in Busy : ~Holds(v, u, {"user", "found"})

Register(w, u, email) ==
  /\ New(u) /\ ~Taken(email)
  /\ Draw(1) /\ Reply(w, <<SaveUser(u, [NewUser(email) EXCEPT !.verification = Token])>>)

VerifyEmail(w, u) ==
  /\ u \in DOMAIN users /\ Fresh(users[u].verification)
  /\ Draw(0) /\ Reply(w, <<SaveUser(u, [users[u] EXCEPT !.verified = TRUE, !.verification = None])>>)

ResendVerificationEmail(w, u) ==
  /\ u \in DOMAIN users /\ ~users[u].verified
  /\ Draw(1) /\ Reply(w, <<SaveUser(u, [users[u] EXCEPT !.verification = Token])>>)

RequestEmailChange(w, u, email) ==
  /\ SignedIn(u) /\ users[u].password /\ \A v \in DOMAIN users \ {u} : users[v].email # email
  /\ Draw(1) /\ Reply(w, <<SaveUser(u, [users[u] EXCEPT !.pending = email, !.change = Token])>>)

VerifyEmailChange(w, u) ==
  /\ u \in DOMAIN users /\ Fresh(users[u].change) /\ users[u].pending # None
  /\ Draw(0)
  /\ Reply(w, <<SaveUser(u, [users[u] EXCEPT !.email = users[u].pending, !.pending = None, !.change = None])>>)

(* updateProfile, updateAvatar, deleteAvatar and updatePreferences.  *)
UpdateProfile(w, u) ==
  /\ SignedIn(u) /\ Draw(0) /\ Reply(w, <<SaveUser(u, [users[u] EXCEPT !.named = TRUE])>>)

----------------------------------------------------------------------------
(* Sign-in.  *)

(* validateUser and login.  *)
Login(w, u) ==
  LET row == [users[u] EXCEPT !.failed = 0, !.lock = IF users[u].failed > 0 THEN None ELSE @]
  IN  /\ SignedIn(u) /\ users[u].password /\ users[u].verified
      /\ Draw(0)
      /\ Reply(w, (IF users[u].failed > 0 THEN <<SaveUser(u, row)>> ELSE <<>>) \o <<SaveUser(u, row), NewSession(u)>>)

HandleFailedLogin(w, u) ==
  LET failed == users[u].failed + 1
      locks == failed >= MaxLoginAttempts
  IN  /\ SignedIn(u) /\ users[u].password
      /\ Draw(IF locks THEN 1 ELSE 0)
      /\ Reply(w, <<SaveUser(u, [users[u] EXCEPT !.failed = failed, !.lock = IF locks THEN Token ELSE @])>>)

(* unlockUser, by a platform administrator.  *)
UnlockUser(w, u) ==
  /\ u \in DOMAIN users
  /\ Draw(0) /\ Reply(w, <<SaveUser(u, [users[u] EXCEPT !.failed = 0, !.lock = None])>>)

(* An account that is linked, one with the same address, or a new one.  *)
LoginWithSsoProfile(w, u, email, confirmed) ==
  LET linked == u \in DOMAIN users /\ users[u].sso
      known == u \in DOMAIN users /\ users[u].email = email
      row == IF linked THEN users[u]
             ELSE IF known THEN [users[u] EXCEPT !.sso = TRUE, !.verified = @ \/ confirmed]
             ELSE [NewUser(email) EXCEPT !.password = FALSE, !.sso = TRUE, !.verified = confirmed]
      signIn == IF row.active /\ Unlocked(row) THEN <<SaveUser(u, row), NewSession(u)>> ELSE <<>>
  IN  /\ linked \/ known \/ (New(u) /\ ~Taken(email))
      /\ Draw(0) /\ Reply(w, (IF linked THEN <<>> ELSE <<SaveUser(u, row)>>) \o signIn)

(* The refresh token is used up for a new one.  *)
RefreshTokens(w, s) ==
  /\ s \in DOMAIN sessions /\ s \notin tokens.expired /\ ~sessions[s].revoked
  /\ users[sessions[s].user].active
  /\ Draw(0) /\ Reply(w, <<[do |-> "revoke", session |-> s], NewSession(sessions[s].user)>>)

RefreshExpired(w, s) ==
  /\ s \in DOMAIN sessions \cap tokens.expired
  /\ Draw(0) /\ Reply(w, <<[do |-> "forget", session |-> s]>>)

(* logout, revokeSession and revokeAllOtherSessions: of one session, of all, or of
   all but one.  *)
Logout(w, u, s) ==
  /\ SignedIn(u) /\ s \in DOMAIN sessions /\ sessions[s].user = u
  /\ Draw(0) /\ Reply(w, <<[do |-> "revoke", session |-> s]>>)
LogoutAll(w, u) ==
  /\ SignedIn(u) /\ Draw(0) /\ Reply(w, <<RevokeAll(u)>>)
RevokeAllOtherSessions(w, u, s) ==
  /\ SignedIn(u) /\ s \in DOMAIN sessions /\ sessions[s].user = u
  /\ Draw(0) /\ Reply(w, <<[do |-> "revokeOthers", user |-> u, but |-> s]>>)

ForgotPassword(w, u) ==
  /\ u \in DOMAIN users
  /\ Draw(1) /\ Reply(w, <<SaveUser(u, [users[u] EXCEPT !.reset = Token])>>)

ResetPassword(w, u) ==
  /\ u \in DOMAIN users /\ Fresh(users[u].reset)
  /\ Draw(0)
  /\ Reply(w, <<SaveUser(u, [users[u] EXCEPT !.password = TRUE, !.reset = None, !.failed = 0, !.lock = None]),
                RevokeAll(u)>>)

ChangePassword(w, u) ==
  /\ SignedIn(u) /\ users[u].password /\ Draw(0) /\ Reply(w, <<SaveUser(u, users[u])>>)

----------------------------------------------------------------------------
(* The second factor.  *)

SetupTotp(w, u) ==
  /\ SignedIn(u) /\ ~users[u].enabled
  /\ Draw(0) /\ Reply(w, <<SaveUser(u, [users[u] EXCEPT !.secret = TRUE, !.method = "totp"])>>)

Enabled(row, method) == [row EXCEPT !.enabled = TRUE, !.method = method, !.codes = RecoveryCodes]

(* Mutant: the set-up need not have been started.  *)
VerifyTotpUnprepared(w, u) ==
  /\ SignedIn(u) /\ ~users[u].enabled
  /\ Draw(0) /\ Reply(w, <<SaveUser(u, Enabled(users[u], "totp"))>>)

VerifyTotpSetup(w, u) ==
  /\ SignedIn(u) /\ ~users[u].enabled /\ users[u].secret
  /\ Draw(0) /\ Reply(w, <<SaveUser(u, Enabled(users[u], "totp"))>>)

SendOtp(u, purpose) ==
  <<[do |-> "useOtps", user |-> u, purpose |-> purpose], [do |-> "otp", user |-> u, purpose |-> purpose]>>

SetupEmailOtp(w, u) ==
  /\ SignedIn(u) /\ ~users[u].enabled
  /\ Draw(0) /\ Reply(w, SendOtp(u, "setup") \o <<SaveUser(u, [users[u] EXCEPT !.method = "email"])>>)

SendLoginOtp(w, u) ==
  /\ SignedIn(u) /\ users[u].enabled /\ users[u].method = "email"
  /\ Draw(0) /\ Reply(w, SendOtp(u, "login"))

(* verifyEmailOtp: the newest code that is not used, its time and its attempts.  *)
Pending(u, purpose) == {c \in DOMAIN otps : otps[c].user = u /\ otps[c].purpose = purpose /\ ~otps[c].used}
(* Mutant: a code may be tried at will.  *)
Untried(u, purpose) == {c \in Pending(u, purpose) : c \notin tokens.expired}

Usable(u, purpose) ==
  {c \in Pending(u, purpose) : /\ \A d \in Pending(u, purpose) : d <= c
                               /\ c \notin tokens.expired /\ otps[c].attempts < MaxOtpAttempts}
UseOtp(c) == [do |-> "saveOtp", code |-> c, row |-> [otps[c] EXCEPT !.used = TRUE]]
MissOtp(c) == [do |-> "saveOtp", code |-> c, row |-> [otps[c] EXCEPT !.attempts = @ + 1]]

VerifyEmailOtpSetup(w, u, right) ==
  /\ SignedIn(u) /\ ~users[u].enabled
  /\ \E c \in Usable(u, "setup") :
       Draw(0) /\ Reply(w, IF right THEN <<UseOtp(c), SaveUser(u, Enabled(users[u], "email"))>> ELSE <<MissOtp(c)>>)

(* verify2FA: the code of the method, or else a recovery code.  *)
Trust(u, trust) == IF trust THEN <<[do |-> "trust", user |-> u]>> ELSE <<>>
Verify2FA(w, u, right, recovery, trust) ==
  LET mailed == IF users[u].method = "email" THEN Usable(u, "login") ELSE {}
      tried == {IF right THEN UseOtp(c) ELSE MissOtp(c) : c \in mailed}
      byCode == right /\ (users[u].method = "totp" \/ mailed # {})
      byRecovery == ~byCode /\ recovery /\ users[u].codes > 0
  IN  /\ SignedIn(u) /\ users[u].enabled
      /\ Draw(0)
      /\ \E first \in {<<>>} \cup {<<t>> : t \in tried} :
           /\ mailed # {} => first # <<>>
           /\ Reply(w, first \o (IF byRecovery THEN <<SaveUser(u, [users[u] EXCEPT !.codes = @ - 1])>> ELSE <<>>)
                            \o (IF byCode \/ byRecovery THEN Trust(u, trust) ELSE <<>>))

Disable2FA(w, u) ==
  /\ SignedIn(u) /\ users[u].enabled /\ Draw(0)
  /\ Reply(w, <<SaveUser(u, [users[u] EXCEPT !.enabled = FALSE, !.method = None, !.secret = FALSE, !.codes = 0]),
                [do |-> "untrust", user |-> u]>>)

RegenerateRecoveryCodes(w, u) ==
  /\ SignedIn(u) /\ users[u].enabled
  /\ Draw(0) /\ Reply(w, <<SaveUser(u, [users[u] EXCEPT !.codes = RecoveryCodes])>>)

RemoveTrustedDevice(w, u) ==
  /\ SignedIn(u) /\ u \in trusted /\ Draw(0) /\ Reply(w, <<[do |-> "untrust", user |-> u]>>)

----------------------------------------------------------------------------
(* Statements.  *)

(* The whole row; addresses are unique.  *)
StoreUser(w) ==
  LET u == Now(w).user
      row == Now(w).row
      clash == row.email # None /\ \E v \in DOMAIN users \ {u} : users[v].email = row.email
      raced == \E v \in Busy \ {w} : Holds(v, u, {"user", "session"})
  IN  /\ At(w, "user")
      /\ IF clash THEN Fail(w) /\ UNCHANGED <<users, erasure>>
         ELSE /\ users' = With(users, u, row) /\ Done(w)
              /\ erasure' = IF Now(w).erase
                            THEN [done |-> erasure.done \cup {u}, raced |-> erasure.raced \cup (IF raced THEN {u} ELSE {})]
                            ELSE erasure
      /\ UNCHANGED <<sessions, otps, trusted, tokens>>

StoreSession(w) ==
  /\ At(w, "session") /\ Draw(1)
  /\ sessions' = With(sessions, Token, [user |-> Now(w).user, revoked |-> FALSE])
  /\ Done(w) /\ UNCHANGED <<users, otps, trusted, erasure>>

Revoked(which) == [s \in DOMAIN sessions |-> [sessions[s] EXCEPT !.revoked = @ \/ s \in which]]
SessionsOf(u) == {s \in DOMAIN sessions : sessions[s].user = u}

RevokeSessions(w) ==
  /\ \/ At(w, "revoke") /\ sessions' = Revoked({Now(w).session})
     \/ At(w, "revokeAll") /\ sessions' = Revoked(SessionsOf(Now(w).user))
     \/ At(w, "revokeOthers") /\ sessions' = Revoked(SessionsOf(Now(w).user) \ {Now(w).but})
     \/ At(w, "forget") /\ sessions' = Without(sessions, Now(w).session)
  /\ Done(w) /\ UNCHANGED <<users, otps, trusted, tokens, erasure>>

StoreOtp(w) ==
  /\ \/ /\ At(w, "useOtps") /\ Draw(0)
        /\ otps' = [c \in DOMAIN otps |-> IF c \in Pending(Now(w).user, Now(w).purpose)
                                          THEN [otps[c] EXCEPT !.used = TRUE] ELSE otps[c]]
     \/ /\ At(w, "otp") /\ Draw(1)
        /\ otps' = With(otps, Token, [user |-> Now(w).user, purpose |-> Now(w).purpose, used |-> FALSE, attempts |-> 0])
     \/ At(w, "saveOtp") /\ Draw(0) /\ otps' = With(otps, Now(w).code, Now(w).row)
  /\ Done(w) /\ UNCHANGED <<users, sessions, trusted, erasure>>

StoreTrust(w) ==
  /\ \/ At(w, "trust") /\ trusted' = trusted \cup {Now(w).user}
     \/ At(w, "untrust") /\ trusted' = trusted \ {Now(w).user}
  /\ Done(w) /\ UNCHANGED <<users, sessions, otps, tokens, erasure>>

(* A stop of the process may fall between the two statements of an erasure.  *)
Stop ==
  /\ Crash
  /\ erasure' = [erasure EXCEPT !.raced = @ \cup {u \in erasure.done : \E w \in Busy : Holds(w, u, {"revokeAll"})}]
  /\ UNCHANGED <<users, sessions, otps, trusted, tokens>>

(* The time of a token is over.  *)
Expire(t) ==
  /\ t < Token /\ t \notin tokens.expired /\ Cardinality(tokens.expired) < MaxExpired
  /\ tokens' = [tokens EXCEPT !.expired = @ \cup {t}]
  /\ UNCHANGED <<requests, users, sessions, otps, trusted, erasure>>

AccountRequest(w, u) ==
  \/ \E email \in Emails : Register(w, u, email) \/ RequestEmailChange(w, u, email)
  \/ \E email \in Emails, confirmed \in BOOLEAN : LoginWithSsoProfile(w, u, email, confirmed)
  \/ VerifyEmail(w, u) \/ ResendVerificationEmail(w, u) \/ VerifyEmailChange(w, u) \/ UpdateProfile(w, u)
  \/ Login(w, u) \/ HandleFailedLogin(w, u) \/ UnlockUser(w, u) \/ LogoutAll(w, u)
  \/ \E s \in DOMAIN sessions : Logout(w, u, s) \/ RevokeAllOtherSessions(w, u, s)
  \/ ForgotPassword(w, u) \/ ResetPassword(w, u) \/ ChangePassword(w, u)

FactorRequest(w, u) ==
  \/ SetupTotp(w, u) \/ VerifyTotpSetup(w, u) \/ SetupEmailOtp(w, u) \/ SendLoginOtp(w, u)
  \/ \E right \in BOOLEAN : VerifyEmailOtpSetup(w, u, right)
  \/ \E right, recovery, trust \in BOOLEAN : Verify2FA(w, u, right, recovery, trust)
  \/ Disable2FA(w, u) \/ RegenerateRecoveryCodes(w, u) \/ RemoveTrustedDevice(w, u)

AccountStep(w) == StoreUser(w) \/ StoreSession(w) \/ RevokeSessions(w) \/ StoreOtp(w) \/ StoreTrust(w)

AccountsNext ==
  \/ \E w \in Workers : \/ /\ Ready(w)
                           /\ \/ \E u \in Users : AccountRequest(w, u) \/ FactorRequest(w, u)
                              \/ \E s \in DOMAIN sessions : RefreshTokens(w, s) \/ RefreshExpired(w, s)
                        \/ AccountStep(w)
  \/ \E t \in 1..MaxTokens : Expire(t)
  \/ Stop

----------------------------------------------------------------------------
(* A second factor that is switched on can be passed, however its set-up by app,
   its set-up by mail and its removal overlap (TwoFactorService: rows are saved
   whole, so they are as one request read and meant them).  *)
TwoFactorUsable ==
  \A u \in DOMAIN users : users[u].enabled => users[u].method = "email" \/ (users[u].method = "totp" /\ users[u].secret)

(* An erased row may still get links, be confirmed by one and get a password by the
   other: both are asked for by its address.  *)
Anonymous(row) == [row EXCEPT !.verification = None, !.reset = None, !.verified = FALSE, !.password = FALSE] = Anonymized

(* An erased account stays erased: no token, link or refresh token, handed out before
   or asked for by the address that is left, brings back a name, an address, a second
   factor or a link to a provider or switches the account on, and no session stays
   valid, unless a request was using the account, or the process stopped, while it was
   erased (anonymizeUser).  A password and a confirmation it can get.  *)
ErasedStaysErased ==
  \A u \in erasure.done \ erasure.raced :
    /\ Anonymous(users[u])
    /\ (\A v \in Busy : ~Holds(v, u, {"revokeAll"})) => \A s \in SessionsOf(u) : sessions[s].revoked
=============================================================================
