------------------------------ MODULE Accounts ------------------------------
(***************************************************************************)
(* A local account of the portal (management/broker/accounts.py, auth.py,  *)
(* local_auth.py): sign-in, enrollment through a link, and what an         *)
(* administrator does to the account.  A password takes long to verify or  *)
(* to hash, so sign-in and enrollment read the account in one transaction, *)
(* work outside any, and write in another; the administrator's changes     *)
(* fall in between.  Every such change raises the account's generation.    *)
(*                                                                         *)
(* Passwords and authenticator factors are version numbers, 0 for none.    *)
(* The hourly counts of failures and the lifetimes of links and sessions   *)
(* are left out: they only refuse more.                                    *)
(***************************************************************************)
EXTENDS Naturals, FiniteSets

CONSTANTS Visitor,        \* requests to sign in or to enroll
          MaxChanges,     \* changes of generation
          MaxFailures,    \* the failures one window allows
          MaxGuesses      \* sign-ins in one behaviour

ASSUME AccountConstants == {MaxChanges, MaxFailures, MaxGuesses} \subseteq Nat

Purposes == {"invite", "password-reset", "totp-reset"}
NoLink == [id |-> 0, gen |-> 0, purpose |-> "none"]

VARIABLES
  acct,      \* the rows of users and local_accounts
  sessions,  \* live sessions: generation, role and the credentials they were opened with
  link,      \* the account's link, if it has one
  enrolled,  \* enrollments in progress
  redeemed,  \* how often each link was consumed
  visit,     \* the requests
  window,    \* the failure windows of this name and address: the current and the past one
  guesses

accountVars == <<acct, sessions, link, enrolled, redeemed, visit, window, guesses>>

Nobody == [role |-> "owner", enabled |-> FALSE, status |-> "pending", gen |-> 0,
           pw |-> 0, totp |-> 0, made |-> 0]
Away == [at |-> "idle", acct |-> Nobody, guess |-> 0, link |-> NoLink, win |-> "now"]
Quiet == [failures |-> 0, pending |-> 0]

\* An account just created, with its link, or one that has enrolled.
AccountInit ==
  /\ \/ /\ acct \in [role: {"owner", "admin"}, enabled: {TRUE}, status: {"pending"}, gen: {1},
                     pw: {0}, totp: {0}, made: {0}]
        /\ link = [id |-> 1, gen |-> 1, purpose |-> "invite"]
     \/ /\ acct \in [role: {"owner", "admin"}, enabled: {TRUE}, status: {"active"}, gen: {1},
                     pw: {1}, totp: {0, 1}, made: {1}]
        /\ acct.role = "admin" => acct.totp = 1
        /\ link = NoLink
  /\ sessions = {}
  /\ enrolled = {}
  /\ redeemed = [i \in 1..MaxChanges |-> 0]
  /\ visit = [v \in Visitor |-> Away]
  /\ window = [now |-> Quiet, past |-> Quiet]
  /\ guesses = 0

Gone(v) == visit' = [visit EXCEPT ![v] = Away]
Active(a) == a.enabled /\ a.status = "active"

-----------------------------------------------------------------------------
(* Sign-in.                                                                *)

\* FailureLimits.reserve: failures still possible count as failures.
Reserve(w) == w.failures + w.pending < MaxFailures

\* authenticate: the account as it is, and a reservation; a blocked account or an unknown
\* name runs the same way and fails.
LoginRead(v, guess) ==
  /\ visit[v].at = "idle"
  /\ guesses < MaxGuesses
  /\ Reserve(window.now)
  /\ guesses' = guesses + 1
  /\ window' = [window EXCEPT !.now.pending = @ + 1]
  /\ visit' = [visit EXCEPT ![v] = [Away EXCEPT !.at = "verify", !.acct = acct, !.guess = guess]]
  /\ UNCHANGED <<acct, sessions, link, enrolled, redeemed>>

\* finish: the outcome goes to the window the reservation was made in; a sign-in that
\* found no room to hash is neither.
Finish(v, outcome) ==
  window' = [window EXCEPT ![visit[v].win] =
               [pending |-> @.pending - 1,
                failures |-> CASE outcome = "failed" -> @.failures + 1
                               [] outcome = "succeeded" -> 0
                               [] outcome = "busy" -> @.failures]]

\* The password was verified against the hash read before; now the account is read again,
\* and the code is checked against the factor of this moment.
Verified(v, code) ==
  LET read == visit[v].acct IN
  /\ Active(read) /\ read.pw # 0
  /\ Active(acct) /\ acct.pw = read.pw
  /\ acct.gen = read.gen
  /\ visit[v].guess = read.pw
  /\ acct.totp # 0 => code
  /\ acct.role = "admin" => acct.totp # 0

LoginVerify(v, code) ==
  /\ visit[v].at = "verify"
  /\ Finish(v, IF Verified(v, code) THEN "succeeded" ELSE "failed")
  /\ IF Verified(v, code) THEN visit' = [visit EXCEPT ![v].at = "mint", ![v].acct = acct]
                          ELSE Gone(v)
  /\ UNCHANGED <<acct, sessions, link, enrolled, redeemed, guesses>>

\* HashCapacityError.
LoginBusy(v) ==
  /\ visit[v].at = "verify"
  /\ Finish(v, "busy")
  /\ Gone(v)
  /\ UNCHANGED <<acct, sessions, link, enrolled, redeemed, guesses>>

Session(a, pw, totp) == [gen |-> a.gen, role |-> a.role, pw |-> pw, totp |-> totp]

LoginMintLoose(v) ==
  /\ visit[v].at = "mint"
  /\ sessions' = IF Active(acct)
                 THEN sessions \cup {Session(acct, visit[v].acct.pw, visit[v].acct.totp)}
                 ELSE sessions
  /\ Gone(v)
  /\ UNCHANGED <<acct, link, enrolled, redeemed, window, guesses>>

\* login: the session is opened in a third transaction, for the generation verified.
LoginMint(v) ==
  /\ visit[v].at = "mint"
  /\ sessions' = IF Active(acct) /\ acct.gen = visit[v].acct.gen
                 THEN sessions \cup {Session(acct, visit[v].acct.pw, visit[v].acct.totp)}
                 ELSE sessions
  /\ Gone(v)
  /\ UNCHANGED <<acct, link, enrolled, redeemed, window, guesses>>

\* session_row.
Usable(s) ==
  /\ s.gen = acct.gen /\ s.role = acct.role
  /\ Active(acct)
  /\ s.role = "admin" => acct.totp # 0

Logout(s) ==
  /\ s \in sessions
  /\ sessions' = sessions \ {s}
  /\ UNCHANGED <<acct, link, enrolled, redeemed, visit, window, guesses>>

\* The minute is over: what is still pending belongs to the past window.
NextWindow ==
  /\ window.now # Quiet /\ window.past.pending = 0
  /\ window' = [now |-> Quiet, past |-> window.now]
  /\ visit' = [v \in Visitor |->
                 IF visit[v].at = "verify" THEN [visit[v] EXCEPT !.win = "past"] ELSE visit[v]]
  /\ UNCHANGED <<acct, sessions, link, enrolled, redeemed, guesses>>

-----------------------------------------------------------------------------
(* Enrollment.                                                             *)

\* resolve_token: the link the visitor holds is the account's and of its generation.
Resolves(k) == k # NoLink /\ k = link /\ k.gen = acct.gen

\* Does enrolling ask for a new factor?  An administrator always; others may choose; not
\* if a password reset finds one confirmed.
NewFactor(k, a) ==
  IF k.purpose = "totp-reset" THEN {TRUE}
  ELSE IF k.purpose = "password-reset" /\ a.totp # 0 THEN {FALSE}
  ELSE IF a.role = "admin" THEN {TRUE} ELSE BOOLEAN

\* enroll, first transaction.  A password reset shows a code of the confirmed factor; a
\* later code makes the check of the earlier one fail in its second transaction.
EnrollRead(v) ==
  LET mine == [Away EXCEPT !.at = "hash", !.acct = acct, !.link = link]
      code == link.purpose = "password-reset" /\ acct.totp # 0
  IN
  /\ visit[v].at = "idle"
  /\ Resolves(link)
  /\ visit' = [w \in Visitor |->
                 IF w = v THEN mine
                 ELSE IF code /\ visit[w].link = link THEN [visit[w] EXCEPT !.link = NoLink]
                 ELSE visit[w]]
  /\ UNCHANGED <<acct, sessions, link, enrolled, redeemed, window, guesses>>

Enroll(v, k) ==
  /\ \E factor \in NewFactor(k, visit[v].acct):
       enrolled' = enrolled \cup {[gen |-> acct.gen, purpose |-> k.purpose, factor |-> factor]}
  /\ redeemed' = [redeemed EXCEPT ![k.id] = @ + 1]
  /\ link' = NoLink

\* enroll, second transaction: the link is resolved again and consumed.
EnrollWrite(v) ==
  /\ visit[v].at = "hash"
  /\ \/ Resolves(visit[v].link) /\ Enroll(v, visit[v].link)
     \/ ~Resolves(visit[v].link) /\ UNCHANGED <<enrolled, redeemed, link>>
  /\ Gone(v)
  /\ UNCHANGED <<acct, sessions, window, guesses>>

\* security_change: a new generation without sessions, links or enrollments.
security_change(a, key) ==
  /\ acct' = [a EXCEPT !.gen = @ + 1]
  /\ link' = IF key = "none" THEN NoLink ELSE [id |-> a.gen + 1, gen |-> a.gen + 1, purpose |-> key]
  /\ enrolled' = {}

\* finish: the code of the new factor, or of the old one; then the credentials of the
\* enrollment, a new generation and, as a rule, a session.
FinishEnrollment(e) ==
  LET pw == IF e.purpose = "totp-reset" THEN acct.pw ELSE acct.made + 1
      totp == IF e.factor THEN acct.made + 1 ELSE acct.totp
      after == [acct EXCEPT !.pw = pw, !.totp = totp, !.made = @ + 1, !.status = "active"]
  IN
  /\ e \in enrolled
  /\ e.gen = acct.gen
  /\ acct.gen < MaxChanges
  /\ acct.role = "admin" /\ e.purpose # "password-reset" => e.factor \/ acct.totp # 0
  /\ security_change(after, "none")
  /\ sessions' = IF e.purpose = "totp-reset" \/ ~acct.enabled THEN {}
                 ELSE {Session(acct', pw, totp)}
  /\ UNCHANGED <<redeemed, visit, window, guesses>>

-----------------------------------------------------------------------------
(* The administrator (Accounts.change).                                    *)

\* An administrator without a confirmed factor must enroll.
needEnrollment(a) == a.role = "admin" /\ a.totp = 0

change_account(a, action) ==
  LET pending == [a EXCEPT !.status = IF needEnrollment(a) THEN "pending" ELSE @]
      key == IF action \in Purposes THEN action
             ELSE IF needEnrollment(a) /\ a.pw = 0 THEN "invite"
             ELSE IF needEnrollment(a) THEN "totp-reset" ELSE "none"
  IN
  /\ acct.gen < MaxChanges
  /\ security_change(pending, key)
  /\ sessions' = {}
  /\ UNCHANGED <<redeemed, visit, window, guesses>>

ChangeRole(r) == change_account([acct EXCEPT !.role = r], "role")
ChangeEnabled(b) == change_account([acct EXCEPT !.enabled = b], "enabled")
RevokeSessions == change_account(acct, "revoke-sessions")
ResetPassword == change_account([acct EXCEPT !.pw = 0, !.status = "pending"], "password-reset")
ResetFactor == change_account([acct EXCEPT !.totp = 0, !.status = "pending"], "totp-reset")
InviteAgain == acct.status = "pending" /\ change_account(acct, "invite")

AccountNext ==
  \/ \E v \in Visitor: \/ \E g \in 0..acct.made: LoginRead(v, g)
                       \/ \E code \in BOOLEAN: LoginVerify(v, code)
                       \/ LoginBusy(v) \/ LoginMint(v)
                       \/ EnrollRead(v) \/ EnrollWrite(v)
  \/ \E s \in sessions: Logout(s)
  \/ NextWindow
  \/ \E e \in enrolled: FinishEnrollment(e)
  \/ \E r \in {"owner", "admin"}: ChangeRole(r)
  \/ \E b \in BOOLEAN: ChangeEnabled(b)
  \/ RevokeSessions \/ ResetPassword \/ ResetFactor \/ InviteAgain

AccountSpec == AccountInit /\ [][AccountNext]_accountVars

-----------------------------------------------------------------------------
\* Every variable has its type.
AccountTypeOK ==
  /\ acct.gen \in 1..MaxChanges /\ acct.status \in {"pending", "active"}
  /\ acct.pw \in 0..acct.made /\ acct.totp \in 0..acct.made
  /\ link.gen \in {0, acct.gen} /\ link.purpose \in Purposes \cup {"none"}
  /\ \A e \in enrolled: e.gen = acct.gen
  /\ \A v \in Visitor: visit[v].at \in {"idle", "verify", "mint", "hash"}

\* A session that works was opened with the password and the factor the account has now:
\* a reset or a role change that falls between verifying and opening leaves no session of
\* the old credentials (auth.py login, accounts.py security_change).
SessionsCurrent ==
  \A s \in sessions: Usable(s) => s.pw = acct.pw /\ s.totp = acct.totp

\* An active administrator has a confirmed factor, through role changes, resets and
\* enrollments that were under way (accounts.py change, finish).
AdminHasFactor == acct.role = "admin" /\ acct.status = "active" => acct.totp # 0

\* A link enrolls once, although two browsers may both have passed its first check
\* (accounts.py enroll, used_tokens).
LinkOnce == \A i \in DOMAIN redeemed: redeemed[i] <= 1

\* A window admits no more failures than its limit, however many sign-ins are in flight
\* when it fills (auth.py FailureLimits).
FailuresBounded == window.now.failures <= MaxFailures /\ window.past.failures <= MaxFailures

\* Every state of a local account, its sessions, links and sign-in windows.
AccountsSafe ==
  AccountTypeOK /\ SessionsCurrent /\ AdminHasFactor /\ LinkOnce /\ FailuresBounded
=============================================================================
