------------------------------- MODULE Accounts -------------------------------
(***************************************************************************)
(* Accounts and the codes that confirm them: UserService, EmailingService, *)
(* EmailVerificationService and GoogleService.                             *)
(*                                                                         *)
(* Every operation is a chain of awaited MongoDB calls and one request to  *)
(* the mail provider.  Chains of several requests interleave, each link    *)
(* may fail, and the process may exit between two links.                   *)
(***************************************************************************)
EXTENDS Naturals, FiniteSets

CONSTANTS
    Call,        \* one id per request
    Registered,  \* ids of the accounts there are at the start
    Email, Nickname, Password,
    Absent,      \* no document, or a field that was not given
    Offered,     \* the operations that clients call
    MaxFields,   \* bound: how many fields an updateMe replaces
    MaxFaults    \* bound: how many awaited operations fail and processes exit

Operation == {"signup", "google", "resend", "forgot", "verify", "reset", "update"}

\* An account made by request c has the UUID c.  Its password may be the one
\* that GoogleService derives from that id: it is written as the id itself.
Id == Call \cup Registered
Secret == Password \cup Id

ASSUME AccountConstants ==
    /\ Call \cap Registered = {}
    /\ Password \cap Id = {}
    /\ Absent \notin Id \cup Email \cup Nickname \cup Secret
    /\ Offered \subseteq Operation
    /\ MaxFields \in Nat
    /\ MaxFaults \in Nat

UserDoc == [email: Email, nickname: Nickname \cup Email, password: Secret,
            emailVerified: BOOLEAN]

ASSUME AbsentIsNone == Absent \notin UserDoc \cup Operation

\* An EmailVerification.  A code is ten random characters: no two requests
\* make the same, so it is named after the request that made it.
Verification == [code: Id, email: Email, userId: Id]

\* What a mail's link or its addressee supplies.
Mail == [code: Id, email: Email]

Ended == {"done", "refused", "failed", "lost"}
Stage == {"idle", "findUser", "checkEmail", "checkNickname", "insert", "createCode", "post",
          "signIn", "findCode", "apply", "touch", "deleteCode", "checkPassword", "update"}
         \cup Ended

Opt(S) == S \cup {Absent}

\* target: the account the request acts on, once it knows it.
CallState == [op: Opt(Operation), stage: Stage, email: Opt(Email),
              nickname: Opt(Nickname \cup Email), password: Opt(Secret),
              current: Opt(Password), code: Opt(Id), target: Opt(Id)]

NewCall == [op |-> Absent, stage |-> "idle", email |-> Absent, nickname |-> Absent,
            password |-> Absent, current |-> Absent, code |-> Absent, target |-> Absent]

VARIABLES
    users,         \* Id -> the account's document
    verifications, \* the stored EmailVerification documents
    mails,         \* mails that the provider accepted
    calls,         \* Call -> where that request stands
    faults,        \* failed operations and exits so far
    issued,        \* ghost: every EmailVerification ever stored
    effective,     \* ghost: codes that verified an account or set a password
    edited         \* ghost: accounts whose email or password was replaced

vars == <<users, verifications, mails, calls, faults, issued, effective, edited>>

Existing == {u \in Id : users[u] # Absent}
WithEmail(e) == {u \in Existing : users[u].email = e}

-----------------------------------------------------------------------------
(* Initial states: accounts that signed up before, whose code is unused or   *)
(* was used.                                                                 *)

Init ==
    /\ \E docs \in [Registered -> [email: Email, nickname: Nickname \cup Email,
                                    password: Password, emailVerified: BOOLEAN]] :
          users = [u \in Id |-> IF u \in Registered THEN docs[u] ELSE Absent]
    /\ \A r, q \in Registered : r # q => users[r].email # users[q].email
    /\ issued = {[code |-> r, email |-> users[r].email, userId |-> r] : r \in Registered}
    /\ verifications = {v \in issued : ~users[v.userId].emailVerified}
    /\ mails = {[code |-> v.code, email |-> v.email] : v \in issued}
    /\ effective = {v.code : v \in issued \ verifications}
    /\ calls = [c \in Call |-> NewCall]
    /\ faults = 0
    /\ edited = {}

Goes(c, stage) == calls' = [calls EXCEPT ![c].stage = stage]

-----------------------------------------------------------------------------
(* Requests arrive. *)

Arrive(c, op, state) ==
    /\ calls[c].stage = "idle"
    /\ op \in Offered
    /\ calls' = [calls EXCEPT ![c] = [state EXCEPT !.op = op]]
    /\ UNCHANGED <<users, verifications, mails, faults, issued, effective, edited>>

\* signup: the new account's id is made first.
SignUp(c) ==
    \E e \in Email, n \in Nickname, p \in Password :
       Arrive(c, "signup", [NewCall EXCEPT !.stage = "checkEmail", !.email = e,
                                           !.nickname = n, !.password = p])

\* loginGoogleUser, once Google has named the owner of the token.
Google(c) ==
    \E e \in Email :
       Arrive(c, "google", [NewCall EXCEPT !.stage = "findUser", !.email = e])

\* resentEmail of the emailing resolver, and forgotPassword.
AskForCode(c) ==
    \E e \in Email, op \in {"resend", "forgot"} :
       Arrive(c, op, [NewCall EXCEPT !.stage = "findUser", !.email = e])

\* The link of a mail is followed: verify, or changePassword with a password.
UseCode(c) ==
    \E m \in mails :
       \/ Arrive(c, "verify", [NewCall EXCEPT !.stage = "findCode", !.email = m.email,
                                              !.code = m.code])
       \/ \E p \in Password :
             Arrive(c, "reset", [NewCall EXCEPT !.stage = "findCode", !.email = m.email,
                                                !.code = m.code, !.password = p])

\* updateMe.  A new password without the current one is refused at once.
UpdateMe(c) ==
    \E u \in Existing, e \in Opt(Email), n \in Opt(Nickname), p, cur \in Opt(Password) :
       /\ p # Absent => cur # Absent
       /\ Cardinality({i \in 1..3 : <<e, n, p>>[i] # Absent}) \in 1..MaxFields
       /\ Arrive(c, "update",
                 [NewCall EXCEPT !.stage = IF cur = Absent THEN "update" ELSE "checkPassword",
                                 !.email = e, !.nickname = n, !.password = p,
                                 !.current = cur, !.target = u])

-----------------------------------------------------------------------------
(* createWithCompleteInfo *)

CheckEmail(c) ==
    /\ calls[c].stage = "checkEmail"
    /\ Goes(c, IF WithEmail(calls[c].email) = {} THEN "checkNickname" ELSE "refused")
    /\ UNCHANGED <<users, verifications, mails, faults, issued, effective, edited>>

CheckNickname(c) ==
    /\ calls[c].stage = "checkNickname"
    /\ Goes(c, IF \E u \in Existing : users[u].nickname = calls[c].nickname
               THEN "refused" ELSE "insert")
    /\ UNCHANGED <<users, verifications, mails, faults, issued, effective, edited>>

\* Mutant: the email has no unique index.
AnyEmail(e, u) == TRUE

\* The unique index on email: account u may hold e.
EmailFree(e, u) == WithEmail(e) \subseteq {u}

\* model.create: the index refuses an email that was taken meanwhile.
Insert(c) ==
    /\ calls[c].stage = "insert"
    /\ IF EmailFree(calls[c].email, c)
       THEN /\ users' = [users EXCEPT ![c] =
                  [email |-> calls[c].email, nickname |-> calls[c].nickname,
                   password |-> calls[c].password, emailVerified |-> FALSE]]
            /\ calls' = [calls EXCEPT ![c].stage = "createCode", ![c].target = c]
       ELSE /\ Goes(c, "refused")
            /\ UNCHANGED users
    /\ UNCHANGED <<verifications, mails, faults, issued, effective, edited>>

-----------------------------------------------------------------------------
(* EmailingService.resentEmail *)

CreateCode(c) ==
    LET v == [code |-> c, email |-> calls[c].email, userId |-> calls[c].target] IN
    /\ calls[c].stage = "createCode"
    /\ verifications' = verifications \cup {v}
    /\ issued' = issued \cup {v}
    /\ Goes(c, "post")
    /\ UNCHANGED <<users, mails, faults, effective, edited>>

\* Mutant: what the mail provider answers is not looked at.
PostUnchecked(c) ==
    /\ calls[c].stage = "post"
    /\ mails' \in {mails, mails \cup {[code |-> c, email |-> calls[c].email]}}
    /\ Goes(c, IF calls[c].op = "google" THEN "signIn" ELSE "done")
    /\ UNCHANGED <<users, verifications, faults, issued, effective, edited>>

Post(c) ==
    /\ calls[c].stage = "post"
    /\ mails' = mails \cup {[code |-> c, email |-> calls[c].email]}
    /\ Goes(c, IF calls[c].op = "google" THEN "signIn" ELSE "done")
    /\ UNCHANGED <<users, verifications, faults, issued, effective, edited>>

-----------------------------------------------------------------------------
(* getByEmail, and what its callers make of the answer. *)

FindUser(c) ==
    LET found == WithEmail(calls[c].email)
        call  == calls[c] IN
    /\ call.stage = "findUser"
    /\ \/ /\ found = {}
          /\ calls' = [calls EXCEPT ![c] =
               CASE call.op = "google" -> [call EXCEPT !.stage = "checkEmail",
                                             !.nickname = call.email, !.password = c]
                 [] call.op = "resend" -> [call EXCEPT !.stage = "done"]
                 [] call.op = "forgot" -> [call EXCEPT !.stage = "refused"]]
       \/ \E u \in found :
            calls' = [calls EXCEPT ![c] =
               CASE call.op = "google" -> [call EXCEPT !.target = u, !.stage = "signIn"]
                 [] call.op = "resend" -> [call EXCEPT !.target = u, !.stage = "createCode"]
                 [] call.op = "forgot" -> [call EXCEPT !.target = u, !.stage =
                      IF users[u].emailVerified THEN "createCode" ELSE "refused"]]
    /\ UNCHANGED <<users, verifications, mails, faults, issued, effective, edited>>

\* Mutant: the password is derived from the id that this request made.
FreshSecret(c) == c

\* The password of a Google account, derived from the account's id.
GoogleSecret(c) == calls[c].target

\* authService.signIn looks the account up by its email and this password.
SignIn(c) ==
    /\ calls[c].stage = "signIn"
    /\ Goes(c, IF \E u \in WithEmail(calls[c].email) : users[u].password = GoogleSecret(c)
               THEN "done" ELSE "refused")
    /\ UNCHANGED <<users, verifications, mails, faults, issued, effective, edited>>

-----------------------------------------------------------------------------
(* verifyEmail and reinitializePassword *)

\* Mutant: the code acts on whoever has the email now.
HolderOfEmail(v) ==
    IF WithEmail(v.email) = {} THEN v.userId ELSE CHOOSE u \in WithEmail(v.email) : TRUE

\* The account that a code acts on.
Owner(v) == v.userId

\* getByEmail takes one document of that email, whichever MongoDB meets first.
FindCode(c) ==
    LET found == {v \in verifications : v.email = calls[c].email} IN
    /\ calls[c].stage = "findCode"
    /\ \/ /\ found = {} \/ \E v \in found : v.code # calls[c].code
          /\ Goes(c, "refused")
       \/ \E v \in found :
            /\ v.code = calls[c].code
            /\ calls' = [calls EXCEPT ![c].stage = "apply", ![c].target = Owner(v)]
    /\ UNCHANGED <<users, verifications, mails, faults, issued, effective, edited>>

Apply(c) ==
    LET u == calls[c].target IN
    /\ calls[c].stage = "apply"
    /\ effective' = effective \cup {calls[c].code}
    /\ IF calls[c].op = "verify"
       THEN /\ users' = [users EXCEPT ![u].emailVerified = TRUE]
            /\ Goes(c, "deleteCode")
            /\ UNCHANGED edited
       ELSE /\ users' = [users EXCEPT ![u].password = calls[c].password]
            /\ Goes(c, "touch")
            /\ edited' = edited \cup {u}
    /\ UNCHANGED <<verifications, mails, faults, issued>>

\* reinitializePassword awaits updateLastestActivity.
Touch(c) ==
    /\ calls[c].stage = "touch"
    /\ Goes(c, "deleteCode")
    /\ UNCHANGED <<users, verifications, mails, faults, issued, effective, edited>>

\* Mutant: the code may be deleted before it has acted.
DeleteCodeEarly(c) ==
    /\ calls[c].stage \in {"apply", "deleteCode"}
    /\ verifications' = {v \in verifications : v.code # calls[c].code}
    /\ Goes(c, IF calls[c].stage = "apply" THEN "apply" ELSE "done")
    /\ UNCHANGED <<users, mails, faults, issued, effective, edited>>

DeleteCode(c) ==
    /\ calls[c].stage = "deleteCode"
    /\ verifications' = {v \in verifications : v.code # calls[c].code}
    /\ Goes(c, "done")
    /\ UNCHANGED <<users, mails, faults, issued, effective, edited>>

-----------------------------------------------------------------------------
(* updateUser *)

CheckPassword(c) ==
    /\ calls[c].stage = "checkPassword"
    /\ Goes(c, IF users[calls[c].target].password = calls[c].current
               THEN "update" ELSE "refused")
    /\ UNCHANGED <<users, verifications, mails, faults, issued, effective, edited>>

\* Mutant: a field that was not given is overwritten all the same.
Overwritten(value, old) == value

\* What was given replaces the field; what was not given stays.
Given(value, old) == IF value = Absent THEN old ELSE value

\* findOneAndUpdate; the index refuses the email of another account.
Update(c) ==
    LET u == calls[c].target IN
    /\ calls[c].stage = "update"
    /\ IF EmailFree(Given(calls[c].email, users[u].email), u)
       THEN /\ users' = [users EXCEPT
                  ![u].email = Given(calls[c].email, @),
                  ![u].nickname = Given(calls[c].nickname, @),
                  ![u].password = Given(calls[c].password, @)]
            /\ edited' = IF calls[c].email = Absent /\ calls[c].password = Absent
                         THEN edited ELSE edited \cup {u}
            /\ Goes(c, "done")
       ELSE /\ Goes(c, "refused")
            /\ UNCHANGED <<users, edited>>
    /\ UNCHANGED <<verifications, mails, faults, issued, effective>>

-----------------------------------------------------------------------------
(* What may go wrong at any await. *)

Running(c) == calls[c].stage \notin {"idle"} \cup Ended

\* MongoDB or the mail provider refuses: the error goes up to the client, and
\* what the request did before stays done.
Fail(c) ==
    /\ Running(c)
    /\ faults < MaxFaults
    /\ faults' = faults + 1
    /\ Goes(c, "failed")
    /\ UNCHANGED <<users, verifications, mails, issued, effective, edited>>

Exit ==
    /\ faults < MaxFaults
    /\ faults' = faults + 1
    /\ calls' = [c \in Call |-> IF Running(c) THEN [calls[c] EXCEPT !.stage = "lost"]
                                              ELSE calls[c]]
    /\ UNCHANGED <<users, verifications, mails, issued, effective, edited>>

Client(c) == SignUp(c) \/ Google(c) \/ AskForCode(c) \/ UseCode(c) \/ UpdateMe(c)

Serve(c) ==
    \/ CheckEmail(c) \/ CheckNickname(c) \/ Insert(c) \/ CreateCode(c) \/ Post(c)
    \/ FindUser(c) \/ SignIn(c)
    \/ FindCode(c) \/ Apply(c) \/ Touch(c) \/ DeleteCode(c)
    \/ CheckPassword(c) \/ Update(c)

Next ==
    \/ \E c \in Call : Client(c) \/ Serve(c) \/ Fail(c)
    \/ Exit

Spec == Init /\ [][Next]_vars

-----------------------------------------------------------------------------
(* Properties *)

TypeOK ==
    /\ users \in [Id -> UserDoc \cup {Absent}]
    /\ issued \subseteq Verification
    /\ verifications \subseteq issued
    /\ mails \subseteq Mail
    /\ calls \in [Call -> CallState]
    /\ effective \subseteq Id
    /\ edited \subseteq Id
    /\ faults \in Nat

\* An email leads to one account, whatever signs up or changes its email in
\* between the check and the insert.
EmailsDistinct ==
    \A e \in Email : Cardinality(WithEmail(e)) <= 1

\* A mailed code that is no longer stored has done its work: no failure or
\* exit spends a code without verifying the account or setting the password.
SpentCodeTookEffect ==
    \A m \in mails :
       \/ \E v \in verifications : v.code = m.code
       \/ m.code \in effective

\* An account is verified by a code that was made for it, though its email
\* may meanwhile have passed to another account.
VerifiedByOwnCode ==
    \A u \in Existing :
       users[u].emailVerified =>
          \E v \in issued : v.userId = u /\ v.code \in effective

\* A request that was to mail a code and ended well has mailed it: no failure
\* on the way is hidden from the client.
DoneMeansMailed ==
    \A c \in Call :
       /\ \/ calls[c].op \in {"signup", "forgot"}
          \/ calls[c].op = "google" /\ calls[c].target = c
          \/ calls[c].op = "resend" /\ calls[c].target # Absent
       /\ calls[c].stage = "done"
       => [code |-> c, email |-> calls[c].email] \in mails

\* Google lets the owner of an account it made in again, as long as nobody
\* gave the account another email or password.
GoogleReturns ==
    \A c \in Call :
       LET u == calls[c].target IN
       /\ calls[c].op = "google" /\ calls[c].stage = "refused" /\ u \in Call
       /\ calls[u].op = "google"
       => u \in edited

\* What the check of createWithCompleteInfo is for: no two accounts have the
\* same nickname.
NicknamesDistinct ==
    \A u, w \in Existing : users[u].nickname = users[w].nickname => u = w
=============================================================================
