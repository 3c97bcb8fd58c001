---------------------------- MODULE AccountsProofs ----------------------------
(***************************************************************************)
(* The account properties for every set of requests, accounts, emails,     *)
(* nicknames and passwords, and every number of failures and exits.        *)
(***************************************************************************)
EXTENDS Accounts, FiniteSetTheorems, TLAPS

-----------------------------------------------------------------------------
(* What a request holds at each stage. *)

\* The stages each operation goes through.
OnItsWay(s) ==
    \/ s.stage \in Ended
    \/ s.op = "signup" /\ s.stage \in {"checkEmail", "checkNickname", "insert", "createCode",
                                       "post"}
    \/ s.op = "google" /\ s.stage \in {"findUser", "checkEmail", "checkNickname", "insert",
                                       "createCode", "post", "signIn"}
    \/ s.op \in {"resend", "forgot"} /\ s.stage \in {"findUser", "createCode", "post"}
    \/ s.op \in {"verify", "reset"} /\ s.stage \in {"findCode", "apply", "touch", "deleteCode"}
    \/ s.op = "update" /\ s.stage \in {"checkPassword", "update"}

\* Request c in state s has what its next step reads.
Shape(c, s) ==
    /\ s.stage = "idle" => s = NewCall
    /\ s.stage # "idle" => s.op \in Operation /\ OnItsWay(s)
    /\ s.stage \in {"findUser", "checkEmail", "checkNickname", "insert", "createCode", "post",
                    "signIn", "findCode"} => s.email \in Email
    /\ s.stage \in {"checkEmail", "checkNickname", "insert"} =>
          /\ s.nickname \in Nickname \cup Email
          /\ s.password \in Secret
          /\ s.op = "google" => s.password = c
    /\ s.stage \in {"findUser", "checkEmail", "checkNickname", "insert"} => s.target = Absent
    /\ s.stage \in {"findCode", "apply", "touch", "deleteCode"} =>
          /\ s.code \in Id
          /\ s.op = "reset" => s.password \in Secret
    /\ s.stage \in {"createCode", "post", "signIn", "apply", "checkPassword", "update"} =>
          s.target \in Id

CallShape == \A c \in Call : Shape(c, calls[c])

\* Whatever a request acts on, and whatever a code is for, is stored.
TargetsExist ==
    /\ \A c \in Call : calls[c].target # Absent => calls[c].target \in Existing
    /\ \A v \in issued : v.userId \in Existing

Typed == TypeOK /\ CallShape /\ TargetsExist


\* A stored document is not Absent.
LEMMA ExistingHasDoc ==
    ASSUME users \in [Id -> UserDoc \cup {Absent}], NEW u \in Id
    PROVE  u \in Existing <=> users[u] \in UserDoc
BY AbsentIsNone DEF Existing

\* Request c goes to state s, and the others stay where they are.
StepTo(c, s) == calls' = [calls EXCEPT ![c] = s]

LEMMA StepFacts ==
    ASSUME Typed, NEW c \in Call, NEW s \in CallState, StepTo(c, s)
    PROVE  /\ calls' \in [Call -> CallState]
           /\ calls'[c] = s
           /\ \A d \in Call \ {c} : calls'[d] = calls[d]
BY DEF Typed, TypeOK, StepTo

\* A request that only moves on keeps what it holds.
LEMMA GoesFacts ==
    ASSUME Typed, NEW c \in Call, NEW st \in Stage, Goes(c, st)
    PROVE  /\ StepTo(c, [calls[c] EXCEPT !.stage = st])
           /\ [calls[c] EXCEPT !.stage = st] \in CallState
<1>1. calls[c] \in CallState /\ calls \in [Call -> CallState]
  BY DEF Typed, TypeOK
<1> QED
  BY <1>1 DEF Goes, StepTo, CallState

\* A step of one request keeps the types when its state does and the
\* collections do.
LEMMA TypedMove ==
    ASSUME Typed, NEW c \in Call, NEW s \in CallState, StepTo(c, s), Shape(c, s),
           s.target # Absent => s.target \in Existing',
           Existing \subseteq Existing',
           users' \in [Id -> UserDoc \cup {Absent}],
           issued' \subseteq Verification,
           \A v \in issued' : v.userId \in Existing',
           verifications' \subseteq issued', mails' \subseteq Mail,
           effective' \subseteq Id, edited' \subseteq Id, faults' \in Nat
    PROVE  Typed'
<1>1. /\ calls' \in [Call -> CallState]
      /\ calls'[c] = s
      /\ \A d \in Call \ {c} : calls'[d] = calls[d]
  BY StepFacts
<1>2. TypeOK'
  BY <1>1 DEF TypeOK
<1>3. CallShape'
  <2>1. \A d \in Call : Shape(d, calls[d])
    BY DEF Typed, CallShape
  <2>2. \A d \in Call : Shape(d, calls'[d])
    BY <1>1, <2>1
  <2> QED
    BY <2>2 DEF CallShape
<1>4. TargetsExist'
  BY <1>1 DEF Typed, TargetsExist
<1> QED
  BY <1>2, <1>3, <1>4 DEF Typed

\* The same where the collections stay as they are.
LEMMA TypedQuiet ==
    ASSUME Typed, NEW c \in Call, NEW s \in CallState, StepTo(c, s), Shape(c, s),
           s.target # Absent => s.target \in Existing,
           UNCHANGED <<users, verifications, mails, issued, effective, edited>>,
           faults' \in Nat
    PROVE  Typed'
<1>1. Existing' = Existing
  BY DEF Existing
<1> QED
  BY <1>1, TypedMove DEF Typed, TypeOK, TargetsExist

LEMMA TypedInit ==
    ASSUME Init
    PROVE  Typed
<1>1. NewCall \in CallState
  BY DEF NewCall, CallState, Stage, Ended, Opt
<1>2. PICK docs \in [Registered -> [email: Email, nickname: Nickname \cup Email,
                                    password: Password, emailVerified: BOOLEAN]] :
        users = [u \in Id |-> IF u \in Registered THEN docs[u] ELSE Absent]
  BY DEF Init
<1>3. \A r \in Registered : users[r] \in UserDoc /\ r \in Id
  BY <1>2 DEF Id, UserDoc, Secret
<1>4. users \in [Id -> UserDoc \cup {Absent}]
  BY <1>2, <1>3 DEF UserDoc, Secret, Id
<1>5. Registered \subseteq Existing
  BY <1>3, <1>4, ExistingHasDoc
<1>6. issued \subseteq Verification /\ \A v \in issued : v.userId \in Registered /\ v.code \in Registered
  BY <1>3 DEF Init, Verification, UserDoc
<1>7. verifications \subseteq issued /\ mails \subseteq Mail /\ effective \subseteq Id
  <2>1. \A v \in issued : v.code \in Id /\ v.email \in Email
    BY <1>6 DEF Verification
  <2>2. verifications \subseteq issued
    BY DEF Init
  <2>3. mails \subseteq Mail
    BY <2>1 DEF Init, Mail
  <2>4. effective \subseteq Id
    <3>1. effective = {v.code : v \in issued \ verifications}
      BY DEF Init
    <3> QED
      BY <2>1, <3>1
  <2> QED
    BY <2>2, <2>3, <2>4
<1>8. TypeOK
  BY <1>1, <1>4, <1>6, <1>7 DEF Init, TypeOK
<1>9. CallShape
  BY DEF Init, CallShape, Shape, NewCall, Ended
<1>10. TargetsExist
  BY <1>5, <1>6 DEF Init, TargetsExist, NewCall
<1> QED
  BY <1>8, <1>9, <1>10 DEF Typed

\* Request c arrives with s.
Arrived(c, s) ==
    /\ s \in CallState /\ StepTo(c, s) /\ Shape(c, s)
    /\ calls[c].stage = "idle"
    /\ s.stage \in {"checkEmail", "findUser", "findCode", "update", "checkPassword"}
    /\ s.target # Absent => s.op = "update" /\ s.target \in Existing
    /\ UNCHANGED <<users, verifications, mails, faults, issued, effective, edited>>

\* Every way to arrive brings what the first step reads.
LEMMA ArrivalShape ==
    ASSUME Typed, NEW c \in Call, Client(c)
    PROVE  \E s : Arrived(c, s)
<1>0. UpdateMe(c) =>
        \E u \in Existing, e \in Opt(Email), n \in Opt(Nickname), p \in Opt(Password),
           cur \in Opt(Password) :
          Arrive(c, "update",
                 [NewCall EXCEPT !.stage = IF cur = Absent THEN "update" ELSE "checkPassword",
                                 !.email = e, !.nickname = n, !.password = p,
                                 !.current = cur, !.target = u])
  BY Zenon DEF UpdateMe
<1> USE DEF Arrive, StepTo, NewCall
<1>2. CASE SignUp(c)
  <2>1. PICK e \in Email, n \in Nickname, p \in Password :
          Arrive(c, "signup", [NewCall EXCEPT !.stage = "checkEmail", !.email = e,
                                           !.nickname = n, !.password = p])
    BY <1>2 DEF SignUp
  <2> DEFINE s == [NewCall EXCEPT !.op = "signup", !.stage = "checkEmail", !.email = e,
                                  !.nickname = n, !.password = p]
  <2>2. StepTo(c, s) /\ calls[c].stage = "idle"
        /\ UNCHANGED <<users, verifications, mails, faults, issued, effective, edited>>
    BY <2>1
  <2>3. s \in CallState
    BY DEF CallState, Stage, Ended, Opt, Operation, Secret
  <2>4. Shape(c, s) /\ s.target = Absent
    BY DEF Shape, OnItsWay, Operation, Secret, Ended
  <2> QED
    BY <2>2, <2>3, <2>4 DEF Arrived
<1>3. CASE Google(c)
  <2>1. PICK e \in Email :
          Arrive(c, "google", [NewCall EXCEPT !.stage = "findUser", !.email = e])
    BY <1>3 DEF Google
  <2> DEFINE s == [NewCall EXCEPT !.op = "google", !.stage = "findUser", !.email = e]
  <2>2. StepTo(c, s) /\ calls[c].stage = "idle"
        /\ UNCHANGED <<users, verifications, mails, faults, issued, effective, edited>>
    BY <2>1
  <2>3. s \in CallState
    BY DEF CallState, Stage, Ended, Opt, Operation
  <2>4. Shape(c, s) /\ s.target = Absent
    BY DEF Shape, OnItsWay, Operation, Ended
  <2> QED
    BY <2>2, <2>3, <2>4 DEF Arrived
<1>4. CASE AskForCode(c)
  <2>1. PICK e \in Email, op \in {"resend", "forgot"} :
          Arrive(c, op, [NewCall EXCEPT !.stage = "findUser", !.email = e])
    BY <1>4 DEF AskForCode
  <2> DEFINE s == [NewCall EXCEPT !.op = op, !.stage = "findUser", !.email = e]
  <2>2. StepTo(c, s) /\ calls[c].stage = "idle"
        /\ UNCHANGED <<users, verifications, mails, faults, issued, effective, edited>>
    BY <2>1
  <2>3. s \in CallState
    BY DEF CallState, Stage, Ended, Opt, Operation
  <2>4. Shape(c, s) /\ s.target = Absent
    BY DEF Shape, OnItsWay, Operation, Ended
  <2> QED
    BY <2>2, <2>3, <2>4 DEF Arrived
<1>5. CASE UseCode(c)
  <2>1. PICK m \in mails :
          \/ Arrive(c, "verify", [NewCall EXCEPT !.stage = "findCode", !.email = m.email,
                                                 !.code = m.code])
          \/ \E p \in Password :
                Arrive(c, "reset", [NewCall EXCEPT !.stage = "findCode", !.email = m.email,
                                                   !.code = m.code, !.password = p])
    BY <1>5 DEF UseCode
  <2>2. m.code \in Id /\ m.email \in Email
    BY DEF Typed, TypeOK, Mail
  <2>3. ASSUME Arrive(c, "verify", [NewCall EXCEPT !.stage = "findCode", !.email = m.email,
                                                   !.code = m.code])
        PROVE  \E s : Arrived(c, s)
    <3> DEFINE s == [NewCall EXCEPT !.op = "verify", !.stage = "findCode",
                                    !.email = m.email, !.code = m.code]
    <3>1. StepTo(c, s) /\ calls[c].stage = "idle"
          /\ UNCHANGED <<users, verifications, mails, faults, issued, effective, edited>>
      BY <2>3
    <3>2. s \in CallState
      BY <2>2 DEF CallState, Stage, Ended, Opt, Operation
    <3>3. Shape(c, s) /\ s.target = Absent
      BY <2>2 DEF Shape, OnItsWay, Operation, Ended
    <3> QED
      BY <3>1, <3>2, <3>3 DEF Arrived
  <2>4. ASSUME NEW p \in Password,
               Arrive(c, "reset", [NewCall EXCEPT !.stage = "findCode", !.email = m.email,
                                                  !.code = m.code, !.password = p])
        PROVE  \E s : Arrived(c, s)
    <3> DEFINE s == [NewCall EXCEPT !.op = "reset", !.stage = "findCode",
                                    !.email = m.email, !.code = m.code, !.password = p]
    <3>1. StepTo(c, s) /\ calls[c].stage = "idle"
          /\ UNCHANGED <<users, verifications, mails, faults, issued, effective, edited>>
      BY <2>4
    <3>2. s \in CallState
      BY <2>2 DEF CallState, Stage, Ended, Opt, Operation, Secret
    <3>3. Shape(c, s) /\ s.target = Absent
      BY <2>2 DEF Shape, OnItsWay, Operation, Ended, Secret
    <3> QED
      BY <3>1, <3>2, <3>3 DEF Arrived
  <2> QED
    BY <2>1, <2>3, <2>4
<1>6. CASE UpdateMe(c)
  <2>1. PICK u \in Existing, e \in Opt(Email), n \in Opt(Nickname), p \in Opt(Password),
             cur \in Opt(Password) :
          Arrive(c, "update",
                 [NewCall EXCEPT !.stage = IF cur = Absent THEN "update" ELSE "checkPassword",
                                 !.email = e, !.nickname = n, !.password = p,
                                 !.current = cur, !.target = u])
    BY <1>0, <1>6
  <2>2. PICK st \in {"update", "checkPassword"} :
          Arrive(c, "update", [NewCall EXCEPT !.stage = st, !.email = e, !.nickname = n,
                                              !.password = p, !.current = cur, !.target = u])
    <3>1. CASE cur = Absent
      BY <2>1, <3>1
    <3>2. CASE cur # Absent
      BY <2>1, <3>2
    <3> QED
      BY <3>1, <3>2
  <2> DEFINE s == [NewCall EXCEPT !.op = "update", !.stage = st, !.email = e, !.nickname = n,
                                  !.password = p, !.current = cur, !.target = u]
  <2>3. StepTo(c, s) /\ calls[c].stage = "idle"
        /\ UNCHANGED <<users, verifications, mails, faults, issued, effective, edited>>
    BY <2>2
  <2>4. u \in Id
    BY DEF Existing
  <2>5. s \in CallState
    BY <2>4 DEF CallState, Stage, Ended, Opt, Operation, Secret
  <2>6. Shape(c, s) /\ s.target = u
    BY <2>4 DEF Shape, OnItsWay, Operation, Ended
  <2> QED
    BY <2>3, <2>5, <2>6 DEF Arrived
<1> QED
  BY <1>2, <1>3, <1>4, <1>5, <1>6 DEF Client

LEMMA TypedArrival ==
    ASSUME Typed, NEW c \in Call, Client(c)
    PROVE  Typed'
<1>1. PICK s : Arrived(c, s)
  BY ArrivalShape
<1>2. faults \in Nat
  BY DEF Typed, TypeOK
<1> QED
  BY <1>1, <1>2, TypedQuiet DEF Arrived

\* A request that moves on, or ends, without writing keeps the types.
LEMMA TypedGoes ==
    ASSUME Typed, NEW c \in Call, NEW st \in Stage, Goes(c, st),
           Shape(c, [calls[c] EXCEPT !.stage = st]),
           UNCHANGED <<users, verifications, mails, issued, effective, edited>>,
           faults' \in Nat
    PROVE  Typed'
<1>1. StepTo(c, [calls[c] EXCEPT !.stage = st]) /\ [calls[c] EXCEPT !.stage = st] \in CallState
  BY GoesFacts
<1>2. calls[c] \in CallState /\ (calls[c].target # Absent => calls[c].target \in Existing)
  BY DEF Typed, TypeOK, TargetsExist
<1>3. [calls[c] EXCEPT !.stage = st].target = calls[c].target
  BY <1>2 DEF CallState
<1> QED
  BY <1>1, <1>2, <1>3, TypedQuiet

\* The checks and the lookups, and an error at any await.
LEMMA TypedChecks ==
    ASSUME Typed, NEW c \in Call,
           \/ CheckEmail(c) \/ CheckNickname(c) \/ SignIn(c) \/ Touch(c)
           \/ CheckPassword(c) \/ Fail(c)
    PROVE  Typed'
<1>1. calls[c] \in CallState /\ Shape(c, calls[c]) /\ faults \in Nat
  BY DEF Typed, TypeOK, CallShape
<1>2. ASSUME CheckEmail(c) PROVE Typed'
  <2>1. PICK st \in {"checkNickname", "refused"} : Goes(c, st)
    BY <1>2 DEF CheckEmail
  <2>2. Shape(c, [calls[c] EXCEPT !.stage = st]) /\ st \in Stage
    BY <1>1, <1>2 DEF CheckEmail, Shape, CallState, OnItsWay, Ended, Stage
  <2> QED
    BY <1>1, <1>2, <2>1, <2>2, TypedGoes DEF CheckEmail
<1>3. ASSUME CheckNickname(c) PROVE Typed'
  <2>1. PICK st \in {"insert", "refused"} : Goes(c, st)
    BY <1>3 DEF CheckNickname
  <2>2. Shape(c, [calls[c] EXCEPT !.stage = st]) /\ st \in Stage
    BY <1>1, <1>3 DEF CheckNickname, Shape, CallState, OnItsWay, Ended, Stage
  <2> QED
    BY <1>1, <1>3, <2>1, <2>2, TypedGoes DEF CheckNickname
<1>4. ASSUME SignIn(c) PROVE Typed'
  <2>1. PICK st \in {"done", "refused"} : Goes(c, st)
    BY <1>4 DEF SignIn
  <2>2. Shape(c, [calls[c] EXCEPT !.stage = st]) /\ st \in Stage
    BY <1>1, <1>4 DEF SignIn, Shape, CallState, OnItsWay, Ended, Stage
  <2> QED
    BY <1>1, <1>4, <2>1, <2>2, TypedGoes DEF SignIn
<1>5. ASSUME Touch(c) PROVE Typed'
  <2>1. Shape(c, [calls[c] EXCEPT !.stage = "deleteCode"]) /\ "deleteCode" \in Stage
    BY <1>1, <1>5 DEF Touch, Shape, CallState, OnItsWay, Ended, Stage
  <2> QED
    BY <1>1, <1>5, <2>1, TypedGoes DEF Touch
<1>6. ASSUME CheckPassword(c) PROVE Typed'
  <2>1. PICK st \in {"update", "refused"} : Goes(c, st)
    BY <1>6 DEF CheckPassword
  <2>2. Shape(c, [calls[c] EXCEPT !.stage = st]) /\ st \in Stage
    BY <1>1, <1>6 DEF CheckPassword, Shape, CallState, OnItsWay, Ended, Stage
  <2> QED
    BY <1>1, <1>6, <2>1, <2>2, TypedGoes DEF CheckPassword
<1>7. ASSUME Fail(c) PROVE Typed'
  <2>1. Shape(c, [calls[c] EXCEPT !.stage = "failed"]) /\ "failed" \in Stage
    BY <1>1, <1>7 DEF Fail, Running, Shape, CallState, OnItsWay, Ended, Stage
  <2>2. faults' \in Nat
    BY <1>1, <1>7 DEF Fail
  <2> QED
    BY <1>7, <2>1, <2>2, TypedGoes DEF Fail
<1> QED
  BY <1>2, <1>3, <1>4, <1>5, <1>6, <1>7

\* What a lookup adds to a request keeps its type.
LEMMA RequestGains ==
    ASSUME NEW s \in CallState, NEW st \in Stage
    PROVE  /\ \A u \in Id : [s EXCEPT !.target = u, !.stage = st] \in CallState
           /\ \A u \in Id : [s EXCEPT !.stage = st, !.target = u] \in CallState
           /\ \A n \in Email, p \in Secret :
                [s EXCEPT !.stage = st, !.nickname = n, !.password = p] \in CallState
BY DEF CallState, Opt

\* What the callers of getByEmail make of its answer.
FoundNobody(c) ==
    /\ calls[c].op = "google"
    /\ StepTo(c, [calls[c] EXCEPT !.stage = "checkEmail", !.nickname = calls[c].email,
                                  !.password = c])

FoundUser(c, u, st) ==
    /\ st = "signIn" => calls[c].op = "google"
    /\ st # "signIn" => calls[c].op # "google"
    /\ StepTo(c, [calls[c] EXCEPT !.target = u, !.stage = st])

\* getByEmail names an account that is there.
LEMMA FindUserShape ==
    ASSUME Typed, NEW c \in Call, FindUser(c)
    PROVE  /\ calls[c] \in CallState /\ Shape(c, calls[c]) /\ faults \in Nat
           /\ calls[c].stage = "findUser" /\ calls[c].email \in Email /\ c \in Id
           /\ calls[c].op \in {"google", "resend", "forgot"} /\ calls[c].target = Absent
           /\ UNCHANGED <<users, verifications, mails, faults, issued, effective, edited>>
           /\ \/ FoundNobody(c)
              \/ Goes(c, "done") /\ calls[c].op = "resend"
              \/ Goes(c, "refused")
              \/ \E u \in WithEmail(calls[c].email), st \in {"signIn", "createCode", "refused"} :
                    FoundUser(c, u, st)
<1> DEFINE call == calls[c]
<1>1. /\ calls[c] \in CallState /\ Shape(c, calls[c]) /\ faults \in Nat
      /\ calls[c].stage = "findUser" /\ calls[c].email \in Email /\ c \in Id
      /\ calls[c].op \in {"google", "resend", "forgot"} /\ calls[c].target = Absent
  BY DEF Typed, TypeOK, CallShape, FindUser, Shape, OnItsWay, Ended, Id
<1>2. UNCHANGED <<users, verifications, mails, faults, issued, effective, edited>>
  BY DEF FindUser
<1>3. CASE WithEmail(call.email) = {}
  <2>1. calls' = [calls EXCEPT ![c] =
             CASE call.op = "google" -> [call EXCEPT !.stage = "checkEmail",
                                           !.nickname = call.email, !.password = c]
               [] call.op = "resend" -> [call EXCEPT !.stage = "done"]
               [] call.op = "forgot" -> [call EXCEPT !.stage = "refused"]]
    BY <1>3 DEF FindUser
  <2>2. CASE call.op = "google"
    BY <1>1, <1>2, <2>1, <2>2 DEF StepTo, FoundNobody
  <2>3. CASE call.op = "resend"
    BY <1>1, <1>2, <2>1, <2>3 DEF Goes
  <2>4. CASE call.op = "forgot"
    BY <1>1, <1>2, <2>1, <2>4 DEF Goes
  <2> QED
    BY <1>1, <1>2, <2>2, <2>3, <2>4
<1>4. CASE WithEmail(call.email) # {}
  <2>1. PICK u \in WithEmail(call.email) :
          calls' = [calls EXCEPT ![c] =
             CASE call.op = "google" -> [call EXCEPT !.target = u, !.stage = "signIn"]
               [] call.op = "resend" -> [call EXCEPT !.target = u, !.stage = "createCode"]
               [] call.op = "forgot" -> [call EXCEPT !.target = u, !.stage =
                    IF users[u].emailVerified THEN "createCode" ELSE "refused"]]
    BY <1>4 DEF FindUser
  <2>2. CASE call.op = "google"
    <3>1. FoundUser(c, u, "signIn")
      BY <2>1, <2>2 DEF StepTo, FoundUser
    <3> QED
      BY <1>1, <1>2, <3>1
  <2>3. CASE call.op = "resend"
    <3>1. FoundUser(c, u, "createCode")
      BY <2>1, <2>3 DEF StepTo, FoundUser
    <3> QED
      BY <1>1, <1>2, <3>1
  <2>4. CASE call.op = "forgot" /\ users[u].emailVerified
    <3>1. FoundUser(c, u, "createCode")
      BY <2>1, <2>4 DEF StepTo, FoundUser
    <3> QED
      BY <1>1, <1>2, <3>1
  <2>5. CASE call.op = "forgot" /\ ~users[u].emailVerified
    <3>1. FoundUser(c, u, "refused")
      BY <2>1, <2>5 DEF StepTo, FoundUser
    <3> QED
      BY <1>1, <1>2, <3>1
  <2> QED
    BY <1>1, <2>2, <2>3, <2>4, <2>5
<1> QED
  BY <1>3, <1>4

LEMMA TypedFindUser ==
    ASSUME Typed, NEW c \in Call, FindUser(c)
    PROVE  Typed'
<1> DEFINE call == calls[c]
<1>1. /\ call \in CallState /\ Shape(c, call) /\ faults \in Nat
      /\ call.stage = "findUser" /\ call.email \in Email /\ c \in Id
      /\ call.op \in {"google", "resend", "forgot"} /\ call.target = Absent
      /\ UNCHANGED <<users, verifications, mails, faults, issued, effective, edited>>
  BY FindUserShape
<1>2. CASE FoundNobody(c)
  <2> DEFINE s == [call EXCEPT !.stage = "checkEmail", !.nickname = call.email, !.password = c]
  <2>1. s \in CallState
    <3>1. c \in Secret /\ "checkEmail" \in Stage
      BY <1>1 DEF Secret, Stage
    <3> QED
      BY <1>1, <3>1, RequestGains
  <2>2. Shape(c, s) /\ s.target = Absent
    BY <1>1, <1>2 DEF CallState, Shape, OnItsWay, Operation, Ended, Secret, FoundNobody
  <2>3. StepTo(c, s)
    BY <1>2 DEF FoundNobody
  <2> QED
    BY <1>1, <2>1, <2>2, <2>3, TypedQuiet
<1>3. ASSUME NEW st \in {"done", "refused"}, Goes(c, st)
      PROVE  Typed'
  <2>1. Shape(c, [calls[c] EXCEPT !.stage = st]) /\ st \in Stage
    BY <1>1 DEF Shape, CallState, OnItsWay, Ended, Stage
  <2> QED
    BY <1>1, <1>3, <2>1, TypedGoes
<1>4. ASSUME NEW u \in WithEmail(call.email), NEW st \in {"signIn", "createCode", "refused"},
             FoundUser(c, u, st)
      PROVE  Typed'
  <2> DEFINE s == [call EXCEPT !.target = u, !.stage = st]
  <2>1. u \in Id /\ u \in Existing
    BY DEF WithEmail, Existing
  <2>2. s \in CallState
    <3>1. st \in Stage
      BY DEF Stage, Ended
    <3> QED
      BY <1>1, <2>1, <3>1, RequestGains
  <2>3. Shape(c, s) /\ s.target = u
    BY <1>1, <1>4, <2>1 DEF CallState, Shape, OnItsWay, Operation, Ended, FoundUser
  <2>4. StepTo(c, s)
    BY <1>4 DEF FoundUser
  <2> QED
    BY <1>1, <2>1, <2>2, <2>3, <2>4, TypedQuiet
<1> QED
  BY <1>2, <1>3, <1>4, FindUserShape

\* Replacing one document by another keeps the others and their ids.
LEMMA DocReplaced ==
    ASSUME users \in [Id -> UserDoc \cup {Absent}], NEW u \in Id, NEW d \in UserDoc,
           users' = [users EXCEPT ![u] = d]
    PROVE  /\ users' \in [Id -> UserDoc \cup {Absent}]
           /\ users'[u] = d
           /\ \A w \in Id \ {u} : users'[w] = users[w]
           /\ Existing' = Existing \cup {u}
BY AbsentIsNone DEF Existing

\* The account is stored with the fields of the request.
LEMMA TypedInsert ==
    ASSUME Typed, NEW c \in Call, Insert(c)
    PROVE  Typed'
<1>1. /\ calls[c] \in CallState /\ Shape(c, calls[c]) /\ faults \in Nat
      /\ calls[c].stage = "insert" /\ c \in Id
      /\ calls[c].email \in Email /\ calls[c].nickname \in Nickname \cup Email
      /\ calls[c].password \in Secret /\ calls[c].op \in {"signup", "google"}
  BY DEF Typed, TypeOK, CallShape, Insert, Shape, OnItsWay, Ended, Id
<1>2. UNCHANGED <<verifications, mails, faults, issued, effective, edited>>
  BY DEF Insert
<1>3. CASE EmailFree(calls[c].email, c)
  <2> DEFINE d == [email |-> calls[c].email, nickname |-> calls[c].nickname,
                   password |-> calls[c].password, emailVerified |-> FALSE]
             s == [calls[c] EXCEPT !.stage = "createCode", !.target = c]
  <2>1. users' = [users EXCEPT ![c] = d]
    BY <1>3 DEF Insert
  <2>2. d \in UserDoc
    BY <1>1 DEF UserDoc
  <2>3. users' \in [Id -> UserDoc \cup {Absent}] /\ Existing' = Existing \cup {c}
    BY <1>1, <2>1, <2>2, DocReplaced DEF Typed, TypeOK
  <2>4. StepTo(c, s)
    <3>1. calls' = [calls EXCEPT ![c].stage = "createCode", ![c].target = c]
      BY <1>3 DEF Insert
    <3> QED
      BY <1>1, <3>1 DEF StepTo, Typed, TypeOK
  <2>5. s \in CallState
    <3>1. "createCode" \in Stage
      BY DEF Stage
    <3> QED
      BY <1>1, <3>1, RequestGains
  <2>6. Shape(c, s) /\ s.target = c
    BY <1>1 DEF CallState, Shape, OnItsWay, Operation, Ended
  <2> QED
    <3>1. c \in Existing' /\ Existing \subseteq Existing' /\ faults' \in Nat
      BY <1>1, <1>2, <2>3
    <3>2. /\ issued' \subseteq Verification /\ verifications' \subseteq issued'
          /\ mails' \subseteq Mail /\ effective' \subseteq Id /\ edited' \subseteq Id
          /\ \A v \in issued' : v.userId \in Existing'
      BY <1>2, <3>1 DEF Typed, TypeOK, TargetsExist
    <3> HIDE DEF s
    <3> QED
      BY <2>3, <2>4, <2>5, <2>6, <3>1, <3>2, TypedMove
<1>4. CASE ~EmailFree(calls[c].email, c)
  <2>1. Goes(c, "refused") /\ UNCHANGED users
    BY <1>4 DEF Insert
  <2>2. Shape(c, [calls[c] EXCEPT !.stage = "refused"]) /\ "refused" \in Stage
    BY <1>1 DEF Shape, CallState, OnItsWay, Ended, Stage
  <2> QED
    BY <1>1, <1>2, <2>1, <2>2, TypedGoes
<1> QED
  BY <1>3, <1>4

\* A step that goes on, and writes documents of the right type.
LEMMA TypedWrites ==
    ASSUME Typed, NEW c \in Call, NEW st \in Stage, Goes(c, st),
           Shape(c, [calls[c] EXCEPT !.stage = st]),
           Existing \subseteq Existing',
           users' \in [Id -> UserDoc \cup {Absent}],
           issued' \subseteq Verification,
           \A v \in issued' : v.userId \in Existing',
           verifications' \subseteq issued', mails' \subseteq Mail,
           effective' \subseteq Id, edited' \subseteq Id, UNCHANGED faults
    PROVE  Typed'
<1>1. StepTo(c, [calls[c] EXCEPT !.stage = st]) /\ [calls[c] EXCEPT !.stage = st] \in CallState
  BY GoesFacts
<1>2. calls[c] \in CallState /\ (calls[c].target # Absent => calls[c].target \in Existing)
      /\ faults \in Nat
  BY DEF Typed, TypeOK, TargetsExist
<1>3. [calls[c] EXCEPT !.stage = st].target = calls[c].target
  BY <1>2 DEF CallState
<1> QED
  BY <1>1, <1>2, <1>3, TypedMove

\* Codes are made, mailed and deleted; the accounts stay.
LEMMA TypedCodes ==
    ASSUME Typed, NEW c \in Call, CreateCode(c) \/ Post(c) \/ DeleteCode(c)
    PROVE  Typed'
<1>1. calls[c] \in CallState /\ Shape(c, calls[c]) /\ c \in Id
  BY DEF Typed, TypeOK, CallShape, Id
<1>2. UNCHANGED <<users, faults, effective, edited>> /\ Existing' = Existing
  BY DEF CreateCode, Post, DeleteCode, Existing
<1>3. ASSUME CreateCode(c) PROVE Typed'
  <2> DEFINE v == [code |-> c, email |-> calls[c].email, userId |-> calls[c].target]
  <2>1. calls[c].email \in Email /\ calls[c].target \in Id
    BY <1>1, <1>3 DEF CreateCode, Shape
  <2>2. calls[c].target \in Existing
    BY <2>1, AccountConstants DEF Typed, TargetsExist
  <2>3. v \in Verification /\ v.userId \in Existing
    BY <1>1, <2>1, <2>2 DEF Verification
  <2>4. Shape(c, [calls[c] EXCEPT !.stage = "post"]) /\ "post" \in Stage
    BY <1>1, <1>3 DEF CreateCode, Shape, CallState, OnItsWay, Ended, Stage
  <2>5. verifications' = verifications \cup {v} /\ issued' = issued \cup {v} /\ mails' = mails
        /\ Goes(c, "post")
    BY <1>3 DEF CreateCode
  <2> QED
    BY <1>2, <2>3, <2>4, <2>5, TypedWrites DEF Typed, TypeOK, TargetsExist
<1>4. ASSUME Post(c) PROVE Typed'
  <2>1. calls[c].email \in Email
    BY <1>1, <1>4 DEF Post, Shape
  <2>2. [code |-> c, email |-> calls[c].email] \in Mail
    BY <1>1, <2>1 DEF Mail
  <2>3. PICK st \in {"signIn", "done"} : Goes(c, st) /\ (st = "signIn" => calls[c].op = "google")
    BY <1>4 DEF Post
  <2>4. Shape(c, [calls[c] EXCEPT !.stage = st]) /\ st \in Stage
    BY <1>1, <1>4, <2>3 DEF Post, Shape, CallState, OnItsWay, Ended, Stage
  <2>5. mails' = mails \cup {[code |-> c, email |-> calls[c].email]}
        /\ UNCHANGED <<verifications, issued>>
    BY <1>4 DEF Post
  <2> QED
    BY <1>2, <2>2, <2>3, <2>4, <2>5, TypedWrites DEF Typed, TypeOK, TargetsExist
<1>5. ASSUME DeleteCode(c) PROVE Typed'
  <2>1. Shape(c, [calls[c] EXCEPT !.stage = "done"]) /\ "done" \in Stage
    BY <1>1, <1>5 DEF DeleteCode, Shape, CallState, OnItsWay, Ended, Stage
  <2>2. Goes(c, "done") /\ verifications' \subseteq verifications /\ UNCHANGED <<mails, issued>>
    BY <1>5 DEF DeleteCode
  <2> QED
    BY <1>2, <2>1, <2>2, TypedWrites DEF Typed, TypeOK, TargetsExist
<1> QED
  BY <1>3, <1>4, <1>5

\* A code that is found names an account that is there.
LEMMA TypedFindCode ==
    ASSUME Typed, NEW c \in Call, FindCode(c)
    PROVE  Typed'
<1>1. /\ calls[c] \in CallState /\ Shape(c, calls[c]) /\ faults \in Nat
      /\ calls[c].stage = "findCode"
      /\ UNCHANGED <<users, verifications, mails, faults, issued, effective, edited>>
  BY DEF Typed, TypeOK, CallShape, FindCode
<1>2. CASE Goes(c, "refused")
  <2>1. Shape(c, [calls[c] EXCEPT !.stage = "refused"]) /\ "refused" \in Stage
    BY <1>1 DEF Shape, CallState, OnItsWay, Ended, Stage
  <2> QED
    BY <1>1, <1>2, <2>1, TypedGoes
<1>3. ASSUME NEW v \in verifications,
             calls' = [calls EXCEPT ![c].stage = "apply", ![c].target = Owner(v)]
      PROVE  Typed'
  <2> DEFINE s == [calls[c] EXCEPT !.stage = "apply", !.target = v.userId]
  <2>1. StepTo(c, s)
    BY <1>3 DEF StepTo, Owner, Typed, TypeOK
  <2>2. v.userId \in Existing /\ v.userId \in Id
    BY DEF Typed, TypeOK, TargetsExist, Existing
  <2>3. s \in CallState
    <3>1. "apply" \in Stage
      BY DEF Stage
    <3> QED
      BY <1>1, <2>2, <3>1, RequestGains
  <2>4. Shape(c, s) /\ s.target = v.userId
    BY <1>1, <2>2 DEF Shape, CallState, OnItsWay, Ended
  <2> QED
    BY <1>1, <2>1, <2>2, <2>3, <2>4, TypedQuiet
<1> QED
  BY <1>2, <1>3 DEF FindCode

\* What verifyEmail and reinitializePassword make of an account's document.
AppliedTo(c, d) ==
    IF calls[c].op = "verify" THEN [d EXCEPT !.emailVerified = TRUE]
                              ELSE [d EXCEPT !.password = calls[c].password]

\* They write an account that is there.
LEMMA AppliedDoc ==
    ASSUME Typed, NEW c \in Call, Apply(c)
    PROVE  \E u \in Existing, d \in UserDoc :
              /\ u = calls[c].target /\ d = AppliedTo(c, users[u])
              /\ users' = [users EXCEPT ![u] = d]
              /\ d.email = users[u].email
              /\ d.emailVerified => users[u].emailVerified \/ calls[c].op = "verify"
              /\ calls[c].op = "verify" => d.password = users[u].password
<1> DEFINE u == calls[c].target
           d == AppliedTo(c, users[u])
<1>1. /\ calls[c] \in CallState /\ Shape(c, calls[c]) /\ calls[c].stage = "apply" /\ u \in Id
  BY DEF Typed, TypeOK, CallShape, Apply, Shape
<1>2. u \in Existing /\ users[u] \in UserDoc
  BY <1>1, AccountConstants, ExistingHasDoc DEF Typed, TypeOK, TargetsExist
<1>3. users' = [users EXCEPT ![u] = d]
  BY DEF Apply, AppliedTo
<1>4. CASE calls[c].op = "verify"
  <2>1. d = [users[u] EXCEPT !.emailVerified = TRUE]
    BY <1>4 DEF AppliedTo
  <2>2. d \in UserDoc /\ d.email = users[u].email /\ d.password = users[u].password
        /\ d.emailVerified = TRUE
    BY <1>2, <2>1 DEF UserDoc
  <2> QED
    BY <1>2, <1>3, <1>4, <2>2
<1>5. CASE calls[c].op # "verify"
  <2>1. calls[c].password \in Secret
    BY <1>1, <1>5 DEF Shape, OnItsWay, Ended
  <2>2. d = [users[u] EXCEPT !.password = calls[c].password]
    BY <1>5 DEF AppliedTo
  <2>3. d \in UserDoc /\ d.email = users[u].email /\ d.emailVerified = users[u].emailVerified
    BY <1>2, <2>1, <2>2 DEF UserDoc
  <2> QED
    BY <1>2, <1>3, <1>5, <2>3
<1> QED
  BY <1>4, <1>5

LEMMA TypedApply ==
    ASSUME Typed, NEW c \in Call, Apply(c)
    PROVE  Typed'
<1> DEFINE st == IF calls[c].op = "verify" THEN "deleteCode" ELSE "touch"
<1>1. /\ calls[c] \in CallState /\ Shape(c, calls[c]) /\ calls[c].stage = "apply"
      /\ calls[c].target \in Id /\ calls[c].code \in Id /\ calls[c].op \in {"verify", "reset"}
  BY DEF Typed, TypeOK, CallShape, Apply, Shape, OnItsWay, Ended
<1>2. PICK u \in Existing, d \in UserDoc : users' = [users EXCEPT ![u] = d]
  BY AppliedDoc
<1>3. users' \in [Id -> UserDoc \cup {Absent}] /\ Existing' = Existing
  BY <1>2, DocReplaced DEF Typed, TypeOK, Existing
<1>4. Goes(c, st) /\ st \in Stage
  BY DEF Apply, Stage
<1>5. Shape(c, [calls[c] EXCEPT !.stage = st])
  BY <1>1 DEF Shape, CallState, OnItsWay, Ended
<1>6. effective' \subseteq Id /\ edited' \subseteq Id
      /\ UNCHANGED <<verifications, mails, faults, issued>>
  BY <1>1 DEF Apply, Typed, TypeOK
<1> QED
  BY <1>3, <1>4, <1>5, <1>6, TypedWrites DEF Typed, TypeOK, TargetsExist

\* updateUser writes an account that is there, with an email that is free.
LEMMA UpdatedDoc ==
    ASSUME Typed, NEW c \in Call, Update(c), ~UNCHANGED users
    PROVE  \E u \in Existing, d \in UserDoc :
              /\ u = calls[c].target
              /\ users' = [users EXCEPT ![u] = d]
              /\ EmailFree(d.email, u)
              /\ d.emailVerified = users[u].emailVerified
              /\ calls[c].email = Absent => d.email = users[u].email
              /\ calls[c].password = Absent => d.password = users[u].password
<1> DEFINE u == calls[c].target
           call == calls[c]
           d == [users[u] EXCEPT !.email = Given(call.email, @),
                                 !.nickname = Given(call.nickname, @),
                                 !.password = Given(call.password, @)]
<1>1. call \in CallState /\ u \in Id
  BY DEF Typed, TypeOK, CallShape, Update, Shape
<1>2. u \in Existing /\ users[u] \in UserDoc
  BY <1>1, AccountConstants, ExistingHasDoc DEF Typed, TypeOK, TargetsExist
<1>3. EmailFree(Given(call.email, users[u].email), u)
  BY DEF Update
<1>4. users' = [users EXCEPT ![u] = d]
  <2>1. users' = [users EXCEPT ![u].email = Given(call.email, @),
                               ![u].nickname = Given(call.nickname, @),
                               ![u].password = Given(call.password, @)]
    BY <1>3 DEF Update
  <2> QED
    BY <1>1, <2>1 DEF Typed, TypeOK
<1>5. /\ Given(call.email, users[u].email) \in Email
      /\ Given(call.nickname, users[u].nickname) \in Nickname \cup Email
      /\ Given(call.password, users[u].password) \in Secret
  BY <1>1, <1>2 DEF Given, CallState, UserDoc, Opt
<1>6. /\ d \in UserDoc
      /\ d.email = Given(call.email, users[u].email)
      /\ d.password = Given(call.password, users[u].password)
      /\ d.emailVerified = users[u].emailVerified
  BY <1>2, <1>5 DEF UserDoc
<1> HIDE DEF d
<1> QED
  BY <1>2, <1>3, <1>4, <1>6 DEF Given

LEMMA TypedUpdate ==
    ASSUME Typed, NEW c \in Call, Update(c)
    PROVE  Typed'
<1>1. /\ calls[c] \in CallState /\ Shape(c, calls[c]) /\ calls[c].stage = "update"
      /\ calls[c].target \in Id /\ faults \in Nat
      /\ UNCHANGED <<verifications, mails, faults, issued, effective>>
  BY DEF Typed, TypeOK, CallShape, Update, Shape
<1>2. PICK st \in {"done", "refused"} : Goes(c, st)
  BY DEF Update
<1>3. Shape(c, [calls[c] EXCEPT !.stage = st]) /\ st \in Stage
  BY <1>1 DEF Shape, CallState, OnItsWay, Ended, Stage
<1>4. users' \in [Id -> UserDoc \cup {Absent}] /\ Existing' = Existing
  <2>1. CASE UNCHANGED users
    BY <2>1 DEF Typed, TypeOK, Existing
  <2>2. CASE ~UNCHANGED users
    <3>1. PICK u \in Existing, d \in UserDoc : users' = [users EXCEPT ![u] = d]
      BY <2>2, UpdatedDoc
    <3> QED
      BY <3>1, DocReplaced DEF Typed, TypeOK, Existing
  <2> QED
    BY <2>1, <2>2
<1>5. edited' \subseteq Id
  BY <1>1 DEF Update, Typed, TypeOK
<1> QED
  BY <1>1, <1>2, <1>3, <1>4, <1>5, TypedWrites DEF Typed, TypeOK, TargetsExist

\* The process exits: running requests end.
LEMMA TypedExit ==
    ASSUME Typed, Exit
    PROVE  Typed'
<1>1. ASSUME NEW c \in Call
      PROVE  /\ calls'[c] \in CallState /\ Shape(c, calls'[c])
             /\ calls'[c].target = calls[c].target
  <2>1. calls[c] \in CallState /\ Shape(c, calls[c])
    BY DEF Typed, TypeOK, CallShape
  <2>2. CASE Running(c)
    <3>1. calls'[c] = [calls[c] EXCEPT !.stage = "lost"] /\ "lost" \in Stage
      BY <2>2 DEF Exit, Stage, Ended
    <3> QED
      BY <2>1, <2>2, <3>1 DEF CallState, Running, Shape, OnItsWay, Ended
  <2>3. CASE ~Running(c)
    BY <2>1, <2>3 DEF Exit
  <2> QED
    BY <2>2, <2>3
<1>2. calls' \in [Call -> CallState] /\ faults' \in Nat
  BY <1>1 DEF Exit, Typed, TypeOK
<1>3. UNCHANGED <<users, verifications, mails, issued, effective, edited>> /\ Existing' = Existing
  BY DEF Exit, Existing
<1> QED
  BY <1>1, <1>2, <1>3 DEF Typed, TypeOK, CallShape, TargetsExist

LEMMA TypedStep == Typed /\ [Next]_vars => Typed'
<1> SUFFICES ASSUME Typed, [Next]_vars
             PROVE  Typed'
  OBVIOUS
<1>1. CASE UNCHANGED vars
  BY <1>1 DEF vars, Typed, TypeOK, CallShape, TargetsExist, Existing
<1> QED
  BY <1>1, TypedArrival, TypedChecks, TypedFindUser, TypedInsert, TypedCodes, TypedFindCode,
     TypedApply, TypedUpdate, TypedExit DEF Next, Serve

\* The collections and the requests keep their types, and every request has
\* what its next step reads.
THEOREM AccountsTyped == Spec => []TypeOK
<1>1. Init => Typed
  BY TypedInit
<1>2. Typed => TypeOK
  BY DEF Typed
<1> QED
  BY <1>1, <1>2, TypedStep, PTL DEF Spec

-----------------------------------------------------------------------------
(* Emails, as a key of the accounts. *)

EmailKey == \A u, w \in Existing : users[u].email = users[w].email => u = w


LEMMA EmailKeyInit ==
    ASSUME Init
    PROVE  EmailKey
<1>1. \A u \in Existing : u \in Registered
  BY DEF Init, Existing
<1>2. \A r, q \in Registered : r # q => users[r].email # users[q].email
  BY DEF Init
<1> QED
  BY <1>1, <1>2 DEF EmailKey

\* A write that keeps an account's email, or gives it one that is free.
LEMMA EmailKeyWrite ==
    ASSUME Typed, EmailKey, NEW u \in Id, NEW d \in UserDoc, users' = [users EXCEPT ![u] = d],
           \/ u \in Existing /\ d.email = users[u].email
           \/ EmailFree(d.email, u)
    PROVE  EmailKey'
<1>1. /\ users'[u] = d
      /\ \A w \in Id \ {u} : users'[w] = users[w]
      /\ Existing' = Existing \cup {u}
  BY DocReplaced DEF Typed, TypeOK
<1>2. \A w \in Existing \ {u} : users[w].email # d.email
  BY DEF EmailFree, WithEmail, EmailKey
<1> QED
  BY <1>1, <1>2 DEF EmailKey, Existing

LEMMA EmailKeyStep == Typed /\ EmailKey /\ [Next]_vars => EmailKey'
<1> SUFFICES ASSUME Typed, EmailKey, [Next]_vars
             PROVE  EmailKey'
  OBVIOUS
<1>1. CASE UNCHANGED users
  BY <1>1 DEF EmailKey, Existing
<1>2. ASSUME NEW c \in Call, Insert(c), ~UNCHANGED users
      PROVE  EmailKey'
  <2> DEFINE d == [email |-> calls[c].email, nickname |-> calls[c].nickname,
                   password |-> calls[c].password, emailVerified |-> FALSE]
  <2>1. EmailFree(calls[c].email, c) /\ users' = [users EXCEPT ![c] = d]
    BY <1>2 DEF Insert
  <2>2. d \in UserDoc /\ d.email = calls[c].email /\ c \in Id
    BY <1>2 DEF Insert, Typed, TypeOK, CallShape, Shape, UserDoc, Id
  <2> HIDE DEF d
  <2> QED
    BY <2>1, <2>2, EmailKeyWrite
<1>3. ASSUME NEW c \in Call, Apply(c)
      PROVE  EmailKey'
  <2>1. PICK u \in Existing, d \in UserDoc :
          users' = [users EXCEPT ![u] = d] /\ d.email = users[u].email
    BY <1>3, AppliedDoc
  <2> QED
    BY <2>1, EmailKeyWrite DEF Existing
<1>4. ASSUME NEW c \in Call, Update(c), ~UNCHANGED users
      PROVE  EmailKey'
  <2>1. PICK u \in Existing, d \in UserDoc :
          users' = [users EXCEPT ![u] = d] /\ EmailFree(d.email, u)
    BY <1>4, UpdatedDoc
  <2> QED
    BY <2>1, EmailKeyWrite DEF Existing
<1> QED
  BY <1>1, <1>2, <1>3, <1>4 DEF Next, Client, SignUp, Google, AskForCode, UseCode, UpdateMe,
     Arrive, Serve, CheckEmail, CheckNickname, CreateCode, Post, FindUser, SignIn, FindCode,
     Touch, DeleteCode, CheckPassword, Fail, Exit, vars

\* No two accounts share an email, though sign-up, Google sign-in and updateMe
\* check it in one step and write it in another.
THEOREM EmailsAreDistinct == Spec => []EmailsDistinct
<1>1. Typed /\ EmailKey => EmailsDistinct
  <2> SUFFICES ASSUME Typed, EmailKey, NEW e \in Email
               PROVE  Cardinality(WithEmail(e)) <= 1
    BY DEF EmailsDistinct
  <2>1. CASE WithEmail(e) = {}
    BY <2>1, FS_EmptySet
  <2>2. CASE WithEmail(e) # {}
    <3>1. PICK u \in WithEmail(e) : TRUE
      BY <2>2
    <3>2. WithEmail(e) = {u}
      BY <3>1 DEF WithEmail, EmailKey
    <3> QED
      BY <3>2, FS_Singleton
  <2> QED
    BY <2>1, <2>2
<1> QED
  BY <1>1, TypedInit, TypedStep, EmailKeyInit, EmailKeyStep, PTL DEF Spec

-----------------------------------------------------------------------------
(* Codes *)

\* A code that is being applied was made for the account it acts on, and one
\* that is about to be deleted has acted.
CodesInHand ==
    \A c \in Call :
       /\ calls[c].stage = "apply" =>
             \E v \in issued : v.code = calls[c].code /\ v.userId = calls[c].target
       /\ calls[c].stage \in {"touch", "deleteCode"} => calls[c].code \in effective
       /\ calls[c].stage = "post" => \E v \in issued : v.code = c

\* A code that was made is still stored, or has acted; every mail carries one.
CodesKept ==
    /\ \A v \in issued : v.code \in effective \/ \E w \in verifications : w.code = v.code
    /\ \A m \in mails : \E v \in issued : v.code = m.code

CodeInv == CodesInHand /\ CodesKept /\ VerifiedByOwnCode


LEMMA CodeInit ==
    ASSUME Init
    PROVE  CodeInv
<1>1. CodesInHand
  BY DEF Init, CodesInHand, NewCall
<1>2. issued = {[code |-> r, email |-> users[r].email, userId |-> r] : r \in Registered}
      /\ verifications = {v \in issued : ~users[v.userId].emailVerified}
      /\ mails = {[code |-> v.code, email |-> v.email] : v \in issued}
      /\ effective = {v.code : v \in issued \ verifications}
  BY DEF Init
<1>3. CodesKept
  BY <1>2 DEF CodesKept
<1>4. VerifiedByOwnCode
  <2> SUFFICES ASSUME NEW u \in Existing, users[u].emailVerified
               PROVE  \E v \in issued : v.userId = u /\ v.code \in effective
    BY DEF VerifiedByOwnCode
  <2>1. u \in Registered
    BY DEF Init, Existing
  <2> DEFINE v == [code |-> u, email |-> users[u].email, userId |-> u]
  <2>2. v \in issued /\ v.userId = u
    BY <1>2, <2>1
  <2>3. v \notin verifications
    BY <1>2, <2>2
  <2>4. v \in issued \ verifications
    BY <2>2, <2>3
  <2> HIDE DEF v
  <2>5. effective = {w.code : w \in issued \ verifications}
    BY <1>2
  <2>6. v.code \in effective
    BY <2>4, <2>5
  <2> QED
    BY <2>2, <2>6
<1> QED
  BY <1>1, <1>3, <1>4 DEF CodeInv

\* A step of one request, as long as codes are only added and the request's
\* own new state is in order.
LEMMA HandsKept ==
    ASSUME Typed, CodesInHand, NEW c \in Call, NEW s \in CallState, StepTo(c, s),
           issued \subseteq issued', effective \subseteq effective',
           s.stage = "apply" => \E v \in issued' : v.code = s.code /\ v.userId = s.target,
           s.stage \in {"touch", "deleteCode"} => s.code \in effective',
           s.stage = "post" => \E v \in issued' : v.code = c
    PROVE  CodesInHand'
<1>1. calls'[c] = s /\ \A d \in Call \ {c} : calls'[d] = calls[d]
  BY StepFacts
<1> QED
  BY <1>1 DEF CodesInHand

\* A step that neither reads nor writes a code.
LEMMA CodesApart ==
    ASSUME Typed, CodeInv, NEW c \in Call, NEW s \in CallState, StepTo(c, s),
           UNCHANGED <<users, verifications, mails, issued, effective>>,
           s.stage \notin {"apply", "touch", "deleteCode", "post"}
    PROVE  CodeInv'
<1>1. CodesInHand'
  BY HandsKept DEF CodeInv
<1>2. CodesKept' /\ VerifiedByOwnCode'
  BY DEF CodeInv, CodesKept, VerifiedByOwnCode, Existing
<1> QED
  BY <1>1, <1>2 DEF CodeInv

LEMMA CodesGoOn ==
    ASSUME Typed, CodeInv, NEW c \in Call,
           NEW st \in Stage \ {"apply", "touch", "deleteCode", "post"}, Goes(c, st),
           UNCHANGED <<users, verifications, mails, issued, effective>>
    PROVE  CodeInv'
<1>1. StepTo(c, [calls[c] EXCEPT !.stage = st]) /\ [calls[c] EXCEPT !.stage = st] \in CallState
  BY GoesFacts
<1>2. [calls[c] EXCEPT !.stage = st].stage = st
  BY DEF Typed, TypeOK, CallState
<1> QED
  BY <1>1, <1>2, CodesApart

\* The steps that hold no code.
LEMMA CodesOfOthers ==
    ASSUME Typed, CodeInv, NEW c \in Call,
           \/ Client(c) \/ FindUser(c) \/ CheckEmail(c) \/ CheckNickname(c) \/ SignIn(c)
           \/ CheckPassword(c) \/ Fail(c)
    PROVE  CodeInv'
<1>1. ASSUME Client(c) PROVE CodeInv'
  <2>1. PICK s : Arrived(c, s)
    BY <1>1, ArrivalShape
  <2> QED
    BY <2>1, CodesApart DEF Arrived
<1>2. ASSUME FindUser(c) PROVE CodeInv'
  <2>1. calls[c] \in CallState /\ c \in Id /\ calls[c].email \in Email
        /\ UNCHANGED <<users, verifications, mails, faults, issued, effective, edited>>
    BY <1>2, FindUserShape
  <2>2. CASE FoundNobody(c)
    <3> DEFINE s == [calls[c] EXCEPT !.stage = "checkEmail", !.nickname = calls[c].email,
                                     !.password = c]
    <3>1. "checkEmail" \in Stage /\ c \in Secret
      BY <2>1 DEF Stage, Secret
    <3>2. s \in CallState /\ s.stage = "checkEmail"
      BY <2>1, <3>1, RequestGains DEF CallState
    <3>3. StepTo(c, s)
      BY <2>2 DEF FoundNobody
    <3> QED
      BY <2>1, <3>2, <3>3, CodesApart
  <2>3. CASE Goes(c, "done") \/ Goes(c, "refused")
    BY <2>1, <2>3, CodesGoOn DEF Stage, Ended
  <2>4. ASSUME NEW u \in WithEmail(calls[c].email), NEW st \in {"signIn", "createCode", "refused"},
               FoundUser(c, u, st)
        PROVE  CodeInv'
    <3> DEFINE s == [calls[c] EXCEPT !.target = u, !.stage = st]
    <3>1. st \in Stage /\ u \in Id
      BY DEF Stage, Ended, WithEmail, Existing
    <3>2. s \in CallState /\ s.stage = st
      BY <2>1, <3>1, RequestGains DEF CallState
    <3>3. StepTo(c, s)
      BY <2>4 DEF FoundUser
    <3> QED
      BY <2>1, <3>2, <3>3, CodesApart
  <2> QED
    BY <1>2, <2>2, <2>3, <2>4, FindUserShape
<1>3. ASSUME \/ CheckEmail(c) \/ CheckNickname(c) \/ SignIn(c) \/ CheckPassword(c) \/ Fail(c)
      PROVE  CodeInv'
  <2>1. /\ \E st \in {"checkNickname", "insert", "done", "refused", "update", "failed"} : Goes(c, st)
        /\ UNCHANGED <<users, verifications, mails, issued, effective>>
    BY <1>3 DEF CheckEmail, CheckNickname, SignIn, CheckPassword, Fail
  <2> QED
    BY <2>1, CodesGoOn DEF Stage, Ended
<1> QED
  BY <1>1, <1>2, <1>3

\* A write that verifies nobody leaves the verified accounts as they were.
LEMMA VerifiedKept ==
    ASSUME Typed, VerifiedByOwnCode, NEW u \in Id, NEW d \in UserDoc,
           users' = [users EXCEPT ![u] = d],
           d.emailVerified => u \in Existing /\ users[u].emailVerified,
           issued \subseteq issued', effective \subseteq effective'
    PROVE  VerifiedByOwnCode'
<1>1. /\ users'[u] = d
      /\ \A w \in Id \ {u} : users'[w] = users[w]
      /\ Existing' = Existing \cup {u}
  BY DocReplaced DEF Typed, TypeOK
<1> SUFFICES ASSUME NEW w \in Existing', users'[w].emailVerified
             PROVE  \E v \in issued' : v.userId = w /\ v.code \in effective'
  BY DEF VerifiedByOwnCode
<1>2. w \in Existing /\ users[w].emailVerified
  BY <1>1 DEF Existing
<1> QED
  BY <1>2 DEF VerifiedByOwnCode

LEMMA CodesOfInsert ==
    ASSUME Typed, CodeInv, NEW c \in Call, Insert(c)
    PROVE  CodeInv'
<1>1. calls[c] \in CallState /\ c \in Id /\ UNCHANGED <<verifications, mails, issued, effective>>
  BY DEF Typed, TypeOK, Insert, Id
<1>2. CASE UNCHANGED users /\ Goes(c, "refused")
  BY <1>1, <1>2, CodesGoOn DEF Stage, Ended
<1>3. CASE EmailFree(calls[c].email, c)
  <2> DEFINE d == [email |-> calls[c].email, nickname |-> calls[c].nickname,
                   password |-> calls[c].password, emailVerified |-> FALSE]
             s == [calls[c] EXCEPT !.stage = "createCode", !.target = c]
  <2>1. users' = [users EXCEPT ![c] = d] /\ StepTo(c, s)
    BY <1>1, <1>3 DEF Insert, StepTo, Typed, TypeOK
  <2>2. d \in UserDoc /\ ~d.emailVerified
    BY DEF Insert, Typed, TypeOK, CallShape, Shape, UserDoc
  <2>3. s \in CallState /\ s.stage = "createCode"
    <3>1. "createCode" \in Stage
      BY DEF Stage
    <3> QED
      BY <1>1, <3>1, RequestGains DEF CallState
  <2> HIDE DEF d, s
  <2>4. CodesInHand'
    BY <1>1, <2>1, <2>3, HandsKept DEF CodeInv
  <2>5. VerifiedByOwnCode'
    BY <1>1, <2>1, <2>2, VerifiedKept DEF CodeInv
  <2> QED
    BY <1>1, <2>4, <2>5 DEF CodeInv, CodesKept
<1> QED
  BY <1>2, <1>3 DEF Insert

\* A code is stored before it is mailed.
LEMMA CodesOfMails ==
    ASSUME Typed, CodeInv, NEW c \in Call, CreateCode(c) \/ Post(c)
    PROVE  CodeInv'
<1>1. calls[c] \in CallState
  BY DEF Typed, TypeOK
<1>2. UNCHANGED <<users, effective>> /\ Existing' = Existing /\ issued \subseteq issued'
  BY DEF CreateCode, Post, Existing
<1>3. VerifiedByOwnCode'
  BY <1>2 DEF CodeInv, VerifiedByOwnCode
<1>4. ASSUME CreateCode(c) PROVE CodesInHand' /\ CodesKept'
  <2> DEFINE v == [code |-> c, email |-> calls[c].email, userId |-> calls[c].target]
  <2>1. /\ Goes(c, "post") /\ "post" \in Stage /\ UNCHANGED mails
        /\ verifications' = verifications \cup {v} /\ issued' = issued \cup {v}
    BY <1>4 DEF CreateCode, Stage
  <2>2. StepTo(c, [calls[c] EXCEPT !.stage = "post"])
        /\ [calls[c] EXCEPT !.stage = "post"] \in CallState
        /\ [calls[c] EXCEPT !.stage = "post"].stage = "post"
    BY <1>1, <2>1, GoesFacts DEF CallState
  <2>3. v \in issued' /\ v.code = c
    BY <2>1
  <2>4. CodesInHand'
    BY <1>2, <2>2, <2>3, HandsKept DEF CodeInv
  <2> QED
    BY <1>2, <2>1, <2>4 DEF CodeInv, CodesKept
<1>5. ASSUME Post(c) PROVE CodesInHand' /\ CodesKept'
  <2>1. PICK st \in {"signIn", "done"} : Goes(c, st)
    BY <1>5 DEF Post
  <2>2. st \in Stage
    BY DEF Stage, Ended
  <2>3. StepTo(c, [calls[c] EXCEPT !.stage = st])
        /\ [calls[c] EXCEPT !.stage = st] \in CallState
        /\ [calls[c] EXCEPT !.stage = st].stage = st
    BY <1>1, <2>1, <2>2, GoesFacts DEF CallState
  <2>4. CodesInHand'
    BY <1>2, <2>3, HandsKept DEF CodeInv
  <2>5. \E v \in issued : v.code = c
    BY <1>5 DEF CodeInv, CodesInHand, Post
  <2>6. mails' = mails \cup {[code |-> c, email |-> calls[c].email]}
        /\ UNCHANGED <<verifications, issued>>
    BY <1>5 DEF Post
  <2> QED
    BY <1>2, <2>4, <2>5, <2>6 DEF CodeInv, CodesKept
<1> QED
  BY <1>3, <1>4, <1>5 DEF CodeInv

\* A code that is found is for the account it is about to act on.
LEMMA CodesOfFindCode ==
    ASSUME Typed, CodeInv, NEW c \in Call, FindCode(c)
    PROVE  CodeInv'
<1>1. calls[c] \in CallState /\ UNCHANGED <<users, verifications, mails, issued, effective>>
  BY DEF Typed, TypeOK, FindCode
<1>2. CASE Goes(c, "refused")
  BY <1>1, <1>2, CodesGoOn DEF Stage, Ended
<1>3. ASSUME NEW v \in verifications, v.code = calls[c].code,
             calls' = [calls EXCEPT ![c].stage = "apply", ![c].target = Owner(v)]
      PROVE  CodeInv'
  <2> DEFINE s == [calls[c] EXCEPT !.stage = "apply", !.target = v.userId]
  <2>1. StepTo(c, s)
    BY <1>3 DEF StepTo, Owner, Typed, TypeOK
  <2>2. v \in issued /\ v.userId \in Id /\ "apply" \in Stage
    BY DEF Typed, TypeOK, TargetsExist, Existing, Stage
  <2>3. s \in CallState /\ s.stage = "apply" /\ s.target = v.userId /\ s.code = v.code
    BY <1>1, <1>3, <2>2, RequestGains DEF CallState
  <2> HIDE DEF s
  <2>4. CodesInHand'
    BY <1>1, <2>1, <2>2, <2>3, HandsKept DEF CodeInv
  <2> QED
    BY <1>1, <2>4 DEF CodeInv, CodesKept, VerifiedByOwnCode, Existing
<1> QED
  BY <1>2, <1>3 DEF FindCode

\* A code acts before it is deleted.
LEMMA CodesOfUse ==
    ASSUME Typed, CodeInv, NEW c \in Call, Apply(c) \/ Touch(c) \/ DeleteCode(c)
    PROVE  CodeInv'
<1>1. calls[c] \in CallState
  BY DEF Typed, TypeOK
<1>2. PICK st \in {"touch", "deleteCode", "done"} : Goes(c, st)
  BY DEF Apply, Touch, DeleteCode
<1> DEFINE s == [calls[c] EXCEPT !.stage = st]
<1>3. /\ StepTo(c, s) /\ s \in CallState /\ s.stage = st
      /\ s.code = calls[c].code
  <2>1. st \in Stage
    BY DEF Stage, Ended
  <2> QED
    BY <1>1, <1>2, <2>1, GoesFacts DEF CallState
<1> HIDE DEF s
<1>4. calls[c].code \in effective' /\ effective \subseteq effective' /\ issued' = issued
  BY DEF Apply, Touch, DeleteCode, CodeInv, CodesInHand
<1>5. CodesInHand'
  BY <1>3, <1>4, HandsKept DEF CodeInv
<1>6. CodesKept'
  <2>1. mails' = mails /\ verifications' \subseteq verifications
        /\ \A v \in verifications : v.code # calls[c].code => v \in verifications'
    BY DEF Apply, Touch, DeleteCode
  <2> QED
    BY <1>4, <2>1 DEF CodeInv, CodesKept
<1>7. VerifiedByOwnCode'
  <2>1. CASE UNCHANGED users
    BY <1>4, <2>1 DEF CodeInv, VerifiedByOwnCode, Existing
  <2>2. CASE Apply(c)
    <3>1. PICK u \in Existing, d \in UserDoc :
            /\ u = calls[c].target
            /\ users' = [users EXCEPT ![u] = d]
            /\ d.emailVerified => users[u].emailVerified \/ calls[c].op = "verify"
      BY <2>2, AppliedDoc
    <3>2. \E v \in issued : v.code = calls[c].code /\ v.userId = u
      BY <2>2, <3>1 DEF Apply, CodeInv, CodesInHand
    <3>3. /\ \A w \in Id \ {u} : users'[w] = users[w]
          /\ Existing' = Existing
      <4>1. users \in [Id -> UserDoc \cup {Absent}] /\ u \in Id
        BY DEF Typed, TypeOK, Existing
      <4>2. users' = [users EXCEPT ![u] = d]
        BY <3>1
      <4>3. /\ \A w \in Id \ {u} : users'[w] = users[w]
            /\ Existing' = Existing \cup {u}
        BY <4>1, <4>2, DocReplaced
      <4> QED
        BY <4>3
    <3>4. ASSUME NEW w \in Existing, w # u, users'[w].emailVerified
          PROVE  \E v \in issued : v.userId = w /\ v.code \in effective
      <4>1. users'[w] = users[w]
        BY <3>3, <3>4 DEF Existing
      <4> QED
        BY <3>4, <4>1 DEF CodeInv, VerifiedByOwnCode
    <3>5. \A w \in Existing : users'[w].emailVerified =>
             \E v \in issued : v.userId = w /\ v.code \in effective'
      BY <1>4, <3>2, <3>4
    <3> QED
      BY <1>4, <3>3, <3>5 DEF VerifiedByOwnCode
  <2> QED
    BY <2>1, <2>2 DEF Touch, DeleteCode
<1> QED
  BY <1>5, <1>6, <1>7 DEF CodeInv

LEMMA CodesOfUpdate ==
    ASSUME Typed, CodeInv, NEW c \in Call, Update(c)
    PROVE  CodeInv'
<1>1. UNCHANGED <<verifications, mails, issued, effective>>
  BY DEF Update
<1>2. PICK st \in {"done", "refused"} : Goes(c, st)
  BY DEF Update
<1>3. st \in Stage
  BY DEF Stage, Ended
<1>4. CASE UNCHANGED users
  BY <1>1, <1>2, <1>3, <1>4, CodesGoOn
<1>5. CASE ~UNCHANGED users
  <2>1. PICK u \in Existing, d \in UserDoc :
          users' = [users EXCEPT ![u] = d] /\ d.emailVerified = users[u].emailVerified
    BY <1>5, UpdatedDoc
  <2>2. VerifiedByOwnCode'
    BY <1>1, <2>1, VerifiedKept DEF CodeInv, Existing
  <2>3. StepTo(c, [calls[c] EXCEPT !.stage = st])
        /\ [calls[c] EXCEPT !.stage = st] \in CallState
        /\ [calls[c] EXCEPT !.stage = st].stage = st
    BY <1>2, <1>3, GoesFacts DEF Typed, TypeOK, CallState
  <2>4. CodesInHand'
    BY <1>1, <2>3, HandsKept DEF CodeInv
  <2> QED
    BY <1>1, <2>2, <2>4 DEF CodeInv, CodesKept
<1> QED
  BY <1>4, <1>5

LEMMA CodesOfExit ==
    ASSUME Typed, CodeInv, Exit
    PROVE  CodeInv'
<1>1. UNCHANGED <<users, verifications, mails, issued, effective>>
  BY DEF Exit
<1>2. \A c \in Call : calls'[c] = calls[c] \/ calls'[c].stage = "lost"
  BY DEF Exit, Typed, TypeOK, CallState
<1>3. CodesInHand'
  BY <1>1, <1>2 DEF CodeInv, CodesInHand
<1> QED
  BY <1>1, <1>3 DEF CodeInv, CodesKept, VerifiedByOwnCode, Existing

LEMMA CodeStep == Typed /\ CodeInv /\ [Next]_vars => CodeInv'
<1> SUFFICES ASSUME Typed, CodeInv, [Next]_vars
             PROVE  CodeInv'
  OBVIOUS
<1>1. CASE UNCHANGED vars
  BY <1>1 DEF vars, CodeInv, CodesInHand, CodesKept, VerifiedByOwnCode, Existing
<1> QED
  BY <1>1, CodesOfOthers, CodesOfInsert, CodesOfMails, CodesOfFindCode, CodesOfUse,
     CodesOfUpdate, CodesOfExit DEF Next, Serve

\* Only a code that was made for an account verifies it, though emails move
\* from one account to another.
THEOREM AccountsVerifiedByOwnCode == Spec => []VerifiedByOwnCode
<1>1. CodeInv => VerifiedByOwnCode
  BY DEF CodeInv
<1> QED
  BY <1>1, TypedInit, TypedStep, CodeInit, CodeStep, PTL DEF Spec

\* A mailed code that is gone has verified an account or set a password,
\* wherever verifyEmail or reinitializePassword was cut short.
THEOREM SpentCodesTookEffect == Spec => []SpentCodeTookEffect
<1>1. CodeInv => SpentCodeTookEffect
  BY DEF CodeInv, CodesKept, SpentCodeTookEffect
<1> QED
  BY <1>1, TypedInit, TypedStep, CodeInit, CodeStep, PTL DEF Spec

-----------------------------------------------------------------------------
(* Where accounts and mails come from *)

\* An account that a request made is the target of that request.
MadeByItsCall ==
    \A c \in Call : users[c] # Absent =>
       /\ calls[c].op \in {"signup", "google"}
       /\ calls[c].target = c
       /\ calls[c].stage \in {"createCode", "post", "signIn"} \cup Ended

\* A request that is past its mail has sent it.
ToBeMailed(c, s) ==
    \/ s.op \in {"signup", "forgot"}
    \/ s.op = "google" /\ s.target = c
    \/ s.op = "resend" /\ s.target # Absent

PastMail ==
    \A c \in Call : ToBeMailed(c, calls[c]) /\ calls[c].stage \in {"signIn", "done"}
       => [code |-> c, email |-> calls[c].email] \in mails

\* A Google account keeps the password derived from its id, and the email it
\* was found by, until somebody replaces one of them.
GoogleKept ==
    /\ \A u \in Call : calls[u].op = "google" /\ users[u] # Absent /\ u \notin edited =>
          users[u].password = u
    /\ \A c \in Call : calls[c].op = "google" /\ calls[c].target \in Existing \ edited
                       /\ calls[c].stage \in {"createCode", "post", "signIn"} =>
          users[calls[c].target].email = calls[c].email

OriginInv == MadeByItsCall /\ PastMail /\ GoogleKept /\ GoogleReturns


LEMMA OriginInit ==
    ASSUME Init
    PROVE  OriginInv
<1>1. \A c \in Call : calls[c].stage = "idle"
  BY DEF Init, NewCall
<1>2. \A c \in Call : users[c] = Absent
  BY AccountConstants DEF Init, Id
<1> QED
  BY <1>1, <1>2 DEF OriginInv, MadeByItsCall, PastMail, GoogleKept, GoogleReturns

\* The part of the invariant that is about the request that takes the step.
OwnPart(c, s) ==
    /\ users'[c] # Absent =>
          /\ s.op \in {"signup", "google"}
          /\ s.target = c
          /\ s.stage \in {"createCode", "post", "signIn"} \cup Ended
    /\ ToBeMailed(c, s) /\ s.stage \in {"signIn", "done"} =>
          [code |-> c, email |-> s.email] \in mails'
    /\ s.op = "google" /\ s.target \in Existing' \ edited'
       /\ s.stage \in {"createCode", "post", "signIn"} => users'[s.target].email = s.email
    /\ s.op = "google" /\ s.stage = "refused" /\ s.target \in Call
       /\ calls'[s.target].op = "google" => s.target \in edited'

\* The other requests are where they were, and no account changes unnoticed.
LEMMA OriginMove ==
    ASSUME Typed, OriginInv, NEW c \in Call, NEW s \in CallState, StepTo(c, s), OwnPart(c, s),
           calls[c].stage # "idle" => s.op = calls[c].op,
           mails \subseteq mails', edited \subseteq edited',
           Existing' \subseteq Existing \cup {c},
           \A u \in Existing \ edited' :
              users'[u].email = users[u].email /\ users'[u].password = users[u].password,
           c \in Existing' \ Existing /\ s.op = "google" => users'[c].password = c
    PROVE  OriginInv'
<1>1. calls'[c] = s /\ \A d \in Call \ {c} : calls'[d] = calls[d]
  BY StepFacts
<1>2. /\ \A d \in Call : d \in Id
      /\ \A u \in Id : (u \in Existing <=> users[u] # Absent)
                       /\ (u \in Existing' <=> users'[u] # Absent)
      /\ \A d \in Call : calls[d].target \in Id => calls[d].target \in Existing
  BY AccountConstants DEF Id, Existing, Typed, TargetsExist
<1>3. MadeByItsCall'
  BY <1>1, <1>2 DEF OwnPart, OriginInv, MadeByItsCall
<1>4. PastMail'
  BY <1>1 DEF OwnPart, OriginInv, PastMail
<1>5. c \in Existing => calls'[c].op = calls[c].op
  BY <1>1, <1>2 DEF OriginInv, MadeByItsCall, Ended
<1>6. GoogleKept'
  <2>1. ASSUME NEW u \in Call, calls'[u].op = "google", users'[u] # Absent, u \notin edited'
        PROVE  users'[u].password = u
    <3>1. CASE u \in Existing
      <4>1. calls[u].op = "google" /\ u \notin edited
        BY <1>1, <1>5, <2>1, <3>1
      <4> QED
        BY <1>2, <2>1, <3>1, <4>1 DEF OriginInv, GoogleKept
    <3>2. CASE u \notin Existing
      BY <1>1, <1>2, <2>1, <3>2
    <3> QED
      BY <3>1, <3>2
  <2>2. ASSUME NEW d \in Call, calls'[d].op = "google", calls'[d].target \in Existing' \ edited',
               calls'[d].stage \in {"createCode", "post", "signIn"}
        PROVE  users'[calls'[d].target].email = calls'[d].email
    <3>1. CASE d = c
      BY <1>1, <2>2, <3>1 DEF OwnPart
    <3>2. CASE d # c
      <4>1. calls'[d] = calls[d]
        BY <1>1, <3>2
      <4>2. calls[d].target \in Existing \ edited
        BY <1>2, <2>2, <4>1 DEF Existing
      <4> QED
        BY <2>2, <4>1, <4>2 DEF OriginInv, GoogleKept
    <3> QED
      BY <3>1, <3>2
  <2> QED
    BY <2>1, <2>2 DEF GoogleKept
<1>7. GoogleReturns'
  <2> SUFFICES ASSUME NEW d \in Call, calls'[d].op = "google", calls'[d].stage = "refused",
                      calls'[d].target \in Call, calls'[calls'[d].target].op = "google"
               PROVE  calls'[d].target \in edited'
    BY DEF GoogleReturns
  <2>1. CASE d = c
    BY <1>1, <2>1 DEF OwnPart
  <2>2. CASE d # c
    <3>1. calls'[d] = calls[d] /\ calls[d].target \in Existing
      BY <1>1, <1>2, <2>2
    <3>2. calls[calls[d].target].op = "google"
      BY <1>1, <1>5, <3>1
    <3> QED
      BY <3>1, <3>2 DEF OriginInv, GoogleReturns
  <2> QED
    BY <2>1, <2>2
<1> QED
  BY <1>3, <1>4, <1>6, <1>7 DEF OriginInv

\* The same where the accounts stay as they are.
LEMMA OriginQuiet ==
    ASSUME Typed, OriginInv, NEW c \in Call, NEW s \in CallState, StepTo(c, s), OwnPart(c, s),
           calls[c].stage # "idle" => s.op = calls[c].op,
           mails \subseteq mails', UNCHANGED <<users, edited>>
    PROVE  OriginInv'
<1>1. Existing' = Existing
  BY DEF Existing
<1> QED
  BY <1>1, OriginMove

\* A request that only moves on, and makes neither account nor mail.
LEMMA OriginGoes ==
    ASSUME Typed, OriginInv, NEW c \in Call, NEW st \in Stage, Goes(c, st),
           OwnPart(c, [calls[c] EXCEPT !.stage = st]),
           mails \subseteq mails', UNCHANGED <<users, edited>>
    PROVE  OriginInv'
<1>1. StepTo(c, [calls[c] EXCEPT !.stage = st]) /\ [calls[c] EXCEPT !.stage = st] \in CallState
  BY GoesFacts
<1>2. [calls[c] EXCEPT !.stage = st].op = calls[c].op
  BY DEF Typed, TypeOK, CallState
<1> QED
  BY <1>1, <1>2, OriginQuiet

\* No account is made before the request inserts it.
LEMMA NotYetMade ==
    ASSUME OriginInv, NEW c \in Call,
           calls[c].stage \notin {"createCode", "post", "signIn"} \cup Ended
    PROVE  users[c] = Absent
BY DEF OriginInv, MadeByItsCall

LEMMA OriginOfArrivals ==
    ASSUME Typed, OriginInv, NEW c \in Call, Client(c)
    PROVE  OriginInv'
<1>1. PICK s : Arrived(c, s)
  BY ArrivalShape
<1>2. users[c] = Absent
  BY <1>1, NotYetMade DEF Arrived, Ended
<1>3. OwnPart(c, s)
  BY <1>1, <1>2 DEF Arrived, OwnPart
<1> QED
  BY <1>1, <1>3, OriginQuiet DEF Arrived

\* The checks before an account is made, and the steps of requests that have
\* to do with neither Google nor a mail.
LEMMA OriginOfChecks ==
    ASSUME Typed, OriginInv, NEW c \in Call,
           \/ CheckEmail(c) \/ CheckNickname(c) \/ CheckPassword(c) \/ Touch(c)
           \/ DeleteCode(c)
           \/ /\ Insert(c)
              /\ ~EmailFree(calls[c].email, c)
    PROVE  OriginInv'
<1>1. calls[c] \in CallState /\ Shape(c, calls[c])
  BY DEF Typed, TypeOK, CallShape
<1>2. /\ calls[c].stage \in {"checkEmail", "checkNickname", "checkPassword", "touch",
                             "deleteCode", "insert"}
      /\ UNCHANGED <<users, mails, edited>>
  BY DEF CheckEmail, CheckNickname, CheckPassword, Touch, DeleteCode, Insert
<1>3. users[c] = Absent
  BY <1>2, NotYetMade DEF Ended
<1>4. PICK st \in {"checkNickname", "insert", "update", "deleteCode", "done", "refused"} :
        Goes(c, st) /\ (st = "done" => calls[c].stage = "deleteCode")
  BY DEF CheckEmail, CheckNickname, CheckPassword, Touch, DeleteCode, Insert
<1>5. calls[c].op = "google" => calls[c].target = Absent
  BY <1>1, <1>2 DEF Shape, OnItsWay, Ended
<1>6. st = "done" => calls[c].op \in {"verify", "reset"}
  BY <1>1, <1>4 DEF Shape, OnItsWay, Ended
<1> DEFINE s == [calls[c] EXCEPT !.stage = st]
<1>7. s.stage = st /\ s.op = calls[c].op /\ s.target = calls[c].target
  BY <1>1 DEF CallState
<1>8. Absent \notin Call
  BY AccountConstants DEF Id
<1> HIDE DEF s
<1>9. OwnPart(c, s)
  BY <1>2, <1>3, <1>4, <1>5, <1>6, <1>7, <1>8 DEF OwnPart, ToBeMailed
<1>10. st \in Stage
  BY DEF Stage, Ended
<1> QED
  BY <1>2, <1>4, <1>9, <1>10, OriginGoes DEF s

\* An error at any await.
LEMMA OriginOfFail ==
    ASSUME Typed, OriginInv, NEW c \in Call, Fail(c)
    PROVE  OriginInv'
<1>1. calls[c] \in CallState /\ Goes(c, "failed") /\ UNCHANGED <<users, mails, edited>>
  BY DEF Typed, TypeOK, Fail
<1> DEFINE s == [calls[c] EXCEPT !.stage = "failed"]
<1>2. s.stage = "failed" /\ s.op = calls[c].op /\ s.target = calls[c].target
  BY <1>1 DEF CallState
<1> HIDE DEF s
<1>3. OwnPart(c, s)
  BY <1>1, <1>2 DEF OwnPart, OriginInv, MadeByItsCall, Ended
<1>4. "failed" \in Stage
  BY DEF Stage, Ended
<1> QED
  BY <1>1, <1>3, <1>4, OriginGoes DEF s

\* The code of a new account, or of one that was found, and its mail.
LEMMA OriginOfMails ==
    ASSUME Typed, OriginInv, NEW c \in Call, CreateCode(c) \/ Post(c)
    PROVE  OriginInv'
<1>1. calls[c] \in CallState /\ UNCHANGED <<users, edited>>
  BY DEF Typed, TypeOK, CreateCode, Post
<1>2. PICK st \in {"post", "signIn", "done"} :
        Goes(c, st) /\ (st # "post" => [code |-> c, email |-> calls[c].email] \in mails')
  BY DEF CreateCode, Post
<1> DEFINE s == [calls[c] EXCEPT !.stage = st]
<1>3. s.stage = st /\ s.op = calls[c].op /\ s.target = calls[c].target /\ s.email = calls[c].email
  BY <1>1 DEF CallState
<1>4. calls[c].stage \in {"createCode", "post"} /\ Existing' = Existing
      /\ mails \subseteq mails'
  BY DEF CreateCode, Post, Existing
<1> HIDE DEF s
<1>5. OwnPart(c, s)
  <2>1. users[c] # Absent => s.op \in {"signup", "google"} /\ s.target = c
    BY <1>3 DEF OriginInv, MadeByItsCall
  <2>2. s.op = "google" /\ s.target \in Existing \ edited => users[s.target].email = s.email
    BY <1>3, <1>4 DEF OriginInv, GoogleKept
  <2> QED
    BY <1>1, <1>2, <1>3, <1>4, <2>1, <2>2 DEF OwnPart, Ended
<1>6. st \in Stage
  BY DEF Stage, Ended
<1> QED
  BY <1>1, <1>2, <1>4, <1>5, <1>6, OriginGoes DEF s

\* Google lets its own account in: both keys of the lookup are as it left them.
LEMMA OriginOfSignIn ==
    ASSUME Typed, OriginInv, NEW c \in Call, SignIn(c)
    PROVE  OriginInv'
<1>1. /\ calls[c] \in CallState /\ Shape(c, calls[c]) /\ calls[c].stage = "signIn"
      /\ UNCHANGED <<users, mails, edited>>
  BY DEF Typed, TypeOK, CallShape, SignIn
<1>2. PICK st \in {"done", "refused"} :
        /\ Goes(c, st)
        /\ st = "refused" =>
              ~\E u \in WithEmail(calls[c].email) : users[u].password = GoogleSecret(c)
  BY DEF SignIn
<1> DEFINE s == [calls[c] EXCEPT !.stage = st]
           t == calls[c].target
<1>3. s.stage = st /\ s.op = calls[c].op /\ s.target = t /\ s.email = calls[c].email
  BY <1>1 DEF CallState
<1>4. st \in Stage /\ s \in CallState /\ StepTo(c, s)
  BY <1>2, GoesFacts DEF Stage, Ended
<1>5. \A d \in Call : calls'[d].op = calls[d].op
  BY <1>3, <1>4, StepFacts
<1>6. t \in Existing /\ calls[c].op = "google"
  BY <1>1, AccountConstants DEF Shape, OnItsWay, Ended, Typed, TargetsExist
<1> HIDE DEF s
<1>7. ASSUME st = "refused", t \in Call, calls[t].op = "google", t \notin edited
      PROVE  FALSE
  <2>1. users[t].password = t
    BY <1>6, <1>7 DEF OriginInv, GoogleKept, Existing
  <2>2. users[t].email = calls[c].email
    BY <1>1, <1>6, <1>7 DEF OriginInv, GoogleKept
  <2> QED
    BY <1>2, <1>6, <1>7, <2>1, <2>2 DEF WithEmail, GoogleSecret
<1>8. OwnPart(c, s)
  <2>1. users[c] # Absent => s.op \in {"signup", "google"} /\ s.target = c
    BY <1>3 DEF OriginInv, MadeByItsCall
  <2>2. ToBeMailed(c, s) => [code |-> c, email |-> s.email] \in mails
    BY <1>1, <1>3 DEF OriginInv, PastMail, ToBeMailed
  <2>3. s.stage = "refused" /\ s.target \in Call /\ calls'[s.target].op = "google" =>
           s.target \in edited
    BY <1>3, <1>5, <1>7
  <2> QED
    BY <1>1, <1>2, <1>3, <2>1, <2>2, <2>3 DEF OwnPart, Ended
<1> QED
  BY <1>1, <1>2, <1>4, <1>8, OriginGoes DEF s

\* Whoever getByEmail names has the email that was asked for.
LEMMA OriginOfFindUser ==
    ASSUME Typed, OriginInv, NEW c \in Call, FindUser(c)
    PROVE  OriginInv'
<1> DEFINE call == calls[c]
<1>1. /\ call \in CallState /\ Shape(c, call)
      /\ call.stage = "findUser" /\ call.email \in Email /\ c \in Id
      /\ call.op \in {"google", "resend", "forgot"} /\ call.target = Absent
      /\ UNCHANGED <<users, verifications, mails, faults, issued, effective, edited>>
  BY FindUserShape
<1>2. users[c] = Absent
  BY <1>1, NotYetMade DEF Ended
<1>3. Existing' = Existing
  BY <1>1 DEF Existing
<1>4. Absent \notin Call
  BY AccountConstants DEF Id
<1>5. CASE FoundNobody(c)
  <2> DEFINE s == [call EXCEPT !.stage = "checkEmail", !.nickname = call.email, !.password = c]
  <2>1. s \in CallState
    <3>1. c \in Secret /\ "checkEmail" \in Stage
      BY <1>1 DEF Secret, Stage
    <3> QED
      BY <1>1, <3>1, RequestGains
  <2>2. s.stage = "checkEmail" /\ s.op = call.op
    BY <1>1 DEF CallState
  <2>3. StepTo(c, s)
    BY <1>5 DEF FoundNobody
  <2> HIDE DEF s
  <2>4. OwnPart(c, s)
    BY <1>1, <1>2, <2>2 DEF OwnPart
  <2> QED
    BY <1>1, <2>1, <2>2, <2>3, <2>4, OriginQuiet
<1>6. ASSUME NEW st \in {"done", "refused"}, Goes(c, st), st = "done" => call.op = "resend"
      PROVE  OriginInv'
  <2> DEFINE s == [call EXCEPT !.stage = st]
  <2>1. s.stage = st /\ s.op = call.op /\ s.target = Absent
    BY <1>1 DEF CallState
  <2> HIDE DEF s
  <2>2. OwnPart(c, s)
    BY <1>1, <1>2, <1>4, <1>6, <2>1 DEF OwnPart, ToBeMailed
  <2>3. st \in Stage
    BY DEF Stage, Ended
  <2> QED
    BY <1>1, <1>6, <2>2, <2>3, OriginGoes DEF s
<1>7. ASSUME NEW u \in WithEmail(call.email), NEW st \in {"signIn", "createCode", "refused"},
             FoundUser(c, u, st)
      PROVE  OriginInv'
  <2> DEFINE s == [call EXCEPT !.target = u, !.stage = st]
  <2>1. u \in Id /\ users[u] # Absent /\ users[u].email = call.email /\ st \in Stage
    BY DEF WithEmail, Existing, Stage, Ended
  <2>2. s \in CallState
    BY <1>1, <2>1, RequestGains
  <2>3. s.stage = st /\ s.op = call.op /\ s.target = u /\ s.email = call.email
    BY <1>1, <2>1 DEF CallState
  <2>4. StepTo(c, s) /\ (st = "signIn" => call.op = "google")
        /\ (st # "signIn" => call.op # "google")
    BY <1>7 DEF FoundUser
  <2> HIDE DEF s
  <2>5. OwnPart(c, s)
    BY <1>1, <1>2, <2>1, <2>3, <2>4 DEF OwnPart, ToBeMailed
  <2> QED
    BY <1>1, <2>2, <2>3, <2>4, <2>5, OriginQuiet
<1> QED
  BY <1>5, <1>6, <1>7, FindUserShape

\* A new account has the email, and for Google the password, of its request.
LEMMA OriginOfInsert ==
    ASSUME Typed, OriginInv, NEW c \in Call, Insert(c)
    PROVE  OriginInv'
<1>1. /\ calls[c] \in CallState /\ Shape(c, calls[c]) /\ calls[c].stage = "insert"
      /\ c \in Id /\ UNCHANGED <<mails, edited>>
      /\ calls[c].email \in Email /\ calls[c].nickname \in Nickname \cup Email
      /\ calls[c].password \in Secret
  BY DEF Typed, TypeOK, CallShape, Insert, Shape, Id
<1>2. CASE EmailFree(calls[c].email, c)
  <2> DEFINE d == [email |-> calls[c].email, nickname |-> calls[c].nickname,
                   password |-> calls[c].password, emailVerified |-> FALSE]
             s == [calls[c] EXCEPT !.stage = "createCode", !.target = c]
  <2>1. users' = [users EXCEPT ![c] = d] /\ StepTo(c, s)
    BY <1>1, <1>2 DEF Insert, StepTo, Typed, TypeOK
  <2>2. d \in UserDoc /\ d.email = calls[c].email /\ d.password = calls[c].password
    BY <1>1 DEF UserDoc
  <2>3. /\ s \in CallState /\ s.stage = "createCode" /\ s.target = c
        /\ s.op = calls[c].op /\ s.email = calls[c].email
    <3>1. "createCode" \in Stage
      BY DEF Stage
    <3> QED
      BY <1>1, <3>1, RequestGains DEF CallState
  <2> HIDE DEF d, s
  <2>4. calls[c].op \in {"signup", "google"} /\ (calls[c].op = "google" => d.password = c)
    BY <1>1, <2>2 DEF Shape, OnItsWay, Ended
  <2>5. /\ users'[c] = d /\ Existing' = Existing \cup {c}
        /\ \A w \in Id \ {c} : users'[w] = users[w]
    BY <1>1, <2>1, <2>2, DocReplaced DEF Typed, TypeOK
  <2>6. c \notin Existing
    BY <1>1, NotYetMade DEF Existing, Ended
  <2>7. OwnPart(c, s)
    BY <2>2, <2>3, <2>4, <2>5 DEF OwnPart
  <2>8. \A u \in Existing \ edited' :
           users'[u].email = users[u].email /\ users'[u].password = users[u].password
    BY <2>5, <2>6 DEF Existing
  <2> QED
    BY <1>1, <2>1, <2>3, <2>4, <2>5, <2>7, <2>8, OriginMove
<1>3. CASE ~EmailFree(calls[c].email, c)
  BY <1>3, OriginOfChecks
<1> QED
  BY <1>2, <1>3

\* A code that is found sends the request to the account it was made for.
LEMMA OriginOfFindCode ==
    ASSUME Typed, OriginInv, NEW c \in Call, FindCode(c)
    PROVE  OriginInv'
<1>1. /\ calls[c] \in CallState /\ Shape(c, calls[c]) /\ calls[c].stage = "findCode"
      /\ calls[c].op \in {"verify", "reset"} /\ UNCHANGED <<users, mails, edited>>
  BY DEF Typed, TypeOK, CallShape, FindCode, Shape, OnItsWay, Ended
<1>2. users[c] = Absent
  BY <1>1, NotYetMade DEF Ended
<1>3. ASSUME NEW s \in CallState, StepTo(c, s), s.op = calls[c].op
      PROVE  OriginInv'
  <2>1. OwnPart(c, s)
    BY <1>1, <1>2, <1>3 DEF OwnPart, ToBeMailed
  <2> QED
    BY <1>1, <1>3, <2>1, OriginQuiet
<1>4. CASE Goes(c, "refused")
  <2>1. "refused" \in Stage
    BY DEF Stage, Ended
  <2>2. [calls[c] EXCEPT !.stage = "refused"].op = calls[c].op
    BY <1>1 DEF CallState
  <2> QED
    BY <1>3, <1>4, <2>1, <2>2, GoesFacts
<1>5. ASSUME NEW v \in verifications,
             calls' = [calls EXCEPT ![c].stage = "apply", ![c].target = Owner(v)]
      PROVE  OriginInv'
  <2> DEFINE s == [calls[c] EXCEPT !.stage = "apply", !.target = v.userId]
  <2>1. StepTo(c, s)
    BY <1>5 DEF StepTo, Owner, Typed, TypeOK
  <2>2. v.userId \in Id /\ "apply" \in Stage
    BY DEF Typed, TypeOK, TargetsExist, Existing, Stage
  <2>3. s \in CallState /\ s.op = calls[c].op
    BY <1>1, <2>2, RequestGains DEF CallState
  <2> HIDE DEF s
  <2> QED
    BY <1>3, <2>1, <2>3
<1> QED
  BY <1>4, <1>5 DEF FindCode

\* Whoever replaces an email or a password is known to have done so.
LEMMA OriginOfWrites ==
    ASSUME Typed, OriginInv, NEW c \in Call, Apply(c) \/ Update(c)
    PROVE  OriginInv'
<1>1. /\ calls[c] \in CallState /\ calls[c].stage \in {"apply", "update"}
      /\ calls[c].op \in {"verify", "reset", "update"} /\ calls \in [Call -> CallState]
      /\ mails' = mails /\ edited \subseteq edited'
  BY DEF Typed, TypeOK, CallShape, Apply, Update, Shape, OnItsWay, Ended
<1>2. users[c] = Absent
  BY <1>1, NotYetMade DEF Ended
<1>3. PICK st \in {"deleteCode", "touch", "done", "refused"} : Goes(c, st)
  BY DEF Apply, Update
<1> DEFINE s == [calls[c] EXCEPT !.stage = st]
<1>4. StepTo(c, s) /\ s \in CallState /\ s.op = calls[c].op
  <2>1. st \in Stage
    BY DEF Stage, Ended
  <2> QED
    BY <1>1, <1>3, <2>1, GoesFacts DEF CallState
<1> HIDE DEF s
<1>5. CASE UNCHANGED users
  <2>1. OwnPart(c, s)
    BY <1>1, <1>2, <1>4, <1>5 DEF OwnPart, ToBeMailed
  <2>2. Existing' = Existing
    BY <1>5 DEF Existing
  <2> QED
    BY <1>1, <1>4, <1>5, <2>1, <2>2, OriginMove
<1>6. ASSUME NEW u \in Existing, NEW d \in UserDoc, users' = [users EXCEPT ![u] = d],
             u \notin edited' => d.email = users[u].email /\ d.password = users[u].password
      PROVE  OriginInv'
  <2>1. users \in [Id -> UserDoc \cup {Absent}] /\ u \in Id /\ c \in Id /\ u # c
    BY <1>2 DEF Typed, TypeOK, Existing, Id
  <2>2. /\ users'[u] = d
        /\ \A w \in Id \ {u} : users'[w] = users[w]
        /\ Existing' = Existing
    <3>1. /\ users'[u] = d
          /\ \A w \in Id \ {u} : users'[w] = users[w]
          /\ Existing' = Existing \cup {u}
      BY <1>6, <2>1, DocReplaced
    <3> QED
      BY <3>1
  <2>3. OwnPart(c, s)
    BY <1>1, <1>2, <1>4, <2>1, <2>2 DEF OwnPart, ToBeMailed
  <2>4. \A w \in Existing \ edited' :
           users'[w].email = users[w].email /\ users'[w].password = users[w].password
    BY <1>6, <2>2 DEF Existing
  <2> QED
    BY <1>1, <1>4, <2>2, <2>3, <2>4, OriginMove
<1>7. CASE Apply(c)
  <2>1. PICK u \in Existing, d \in UserDoc :
          /\ u = calls[c].target
          /\ users' = [users EXCEPT ![u] = d]
          /\ d.email = users[u].email
          /\ calls[c].op = "verify" => d.password = users[u].password
    BY <1>7, AppliedDoc
  <2>2. calls[c].op # "verify" => u \in edited'
    BY <1>7, <2>1 DEF Apply
  <2> QED
    BY <1>6, <2>1, <2>2
<1>8. CASE Update(c) /\ ~UNCHANGED users
  <2>1. PICK u \in Existing, d \in UserDoc :
          /\ u = calls[c].target
          /\ users' = [users EXCEPT ![u] = d]
          /\ calls[c].email = Absent => d.email = users[u].email
          /\ calls[c].password = Absent => d.password = users[u].password
    BY <1>8, UpdatedDoc
  <2>2. u \notin edited' => calls[c].email = Absent /\ calls[c].password = Absent
    BY <1>8, <2>1 DEF Update
  <2> QED
    BY <1>6, <2>1, <2>2
<1> QED
  BY <1>5, <1>7, <1>8

\* An exit ends the requests and leaves the rest.
LEMMA OriginOfExit ==
    ASSUME Typed, OriginInv, Exit
    PROVE  OriginInv'
<1>1. UNCHANGED <<users, mails, edited>> /\ Existing' = Existing
  BY DEF Exit, Existing
<1>2. \A c \in Call :
         /\ calls'[c].op = calls[c].op /\ calls'[c].target = calls[c].target
         /\ calls'[c].email = calls[c].email
         /\ calls'[c].stage = calls[c].stage \/ calls'[c].stage = "lost"
  BY DEF Exit, Typed, TypeOK, CallState
<1>3. MadeByItsCall'
  BY <1>1, <1>2 DEF OriginInv, MadeByItsCall, Ended
<1>4. PastMail'
  BY <1>1, <1>2 DEF OriginInv, PastMail, ToBeMailed
<1>5. GoogleKept'
  BY <1>1, <1>2 DEF OriginInv, GoogleKept
<1>6. GoogleReturns'
  BY <1>1, <1>2 DEF OriginInv, GoogleReturns
<1> QED
  BY <1>3, <1>4, <1>5, <1>6 DEF OriginInv

LEMMA OriginStep == Typed /\ OriginInv /\ [Next]_vars => OriginInv'
<1> SUFFICES ASSUME Typed, OriginInv, [Next]_vars
             PROVE  OriginInv'
  OBVIOUS
<1>1. CASE UNCHANGED vars
  BY <1>1 DEF vars, OriginInv, MadeByItsCall, PastMail, ToBeMailed, GoogleKept, GoogleReturns,
              Existing
<1>2. ASSUME NEW c \in Call, Serve(c) PROVE OriginInv'
  <2>1. CASE \/ CheckEmail(c) \/ CheckNickname(c) \/ CheckPassword(c) \/ Touch(c)
             \/ DeleteCode(c)
    BY <2>1, OriginOfChecks
  <2>2. CASE CreateCode(c) \/ Post(c) \/ SignIn(c) \/ FindUser(c)
    BY <2>2, OriginOfMails, OriginOfSignIn, OriginOfFindUser
  <2>3. CASE Insert(c) \/ FindCode(c) \/ Apply(c) \/ Update(c)
    BY <2>3, OriginOfInsert, OriginOfFindCode, OriginOfWrites
  <2> QED
    BY <1>2, <2>1, <2>2, <2>3 DEF Serve
<1>3. ASSUME NEW c \in Call, Client(c) \/ Fail(c) PROVE OriginInv'
  BY <1>3, OriginOfArrivals, OriginOfFail
<1>4. CASE Exit
  BY <1>4, OriginOfExit
<1> QED
  BY <1>1, <1>2, <1>3, <1>4 DEF Next

\* Google gets the accounts it made back in, whatever else runs, unless their
\* email or password was replaced.
THEOREM GoogleComesBack == Spec => []GoogleReturns
<1>1. OriginInv => GoogleReturns
  BY DEF OriginInv
<1> QED
  BY <1>1, TypedInit, TypedStep, OriginInit, OriginStep, PTL DEF Spec

\* A request for a mail that ends well has mailed it.
THEOREM WhatIsDoneIsMailed == Spec => []DoneMeansMailed
<1>1. OriginInv => DoneMeansMailed
  BY DEF OriginInv, PastMail, ToBeMailed, DoneMeansMailed
<1> QED
  BY <1>1, TypedInit, TypedStep, OriginInit, OriginStep, PTL DEF Spec
=============================================================================
