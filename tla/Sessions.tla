------------------------------- MODULE Sessions -------------------------------
(***************************************************************************)
(* Sign-in and the rotation of refresh tokens: AuthService over            *)
(* UserService and AdminService.                                           *)
(*                                                                         *)
(* An account holds the hash of one refresh token.  A call signs a new     *)
(* token and stores its hash in separate steps, so calls on one account    *)
(* overwrite each other in any order, and a reply may be lost after the    *)
(* store.  A JWT is determined by its payload and the second in which it   *)
(* was signed: two tokens of one account and one second are equal.         *)
(***************************************************************************)
EXTENDS Naturals

CONSTANTS
    User, Admin,  \* accounts, in the collections of UserService and AdminService
    Call,         \* one id per request
    NoToken,      \* refreshJwtHash of an account that never signed in
    RefreshLife,  \* seconds until a refresh token expires
    MaxTime,      \* bound: the last second
    MaxRestarts   \* bound: how often the process exits

ASSUME SessionConstants ==
    /\ User \cap Admin = {}
    /\ RefreshLife \in Nat \ {0}
    /\ MaxTime \in Nat
    /\ MaxRestarts \in Nat

Account == User \cup Admin

\* The payload of a refresh token, with the second it was signed in.
Token == [sub: Account, iat: Nat]

ASSUME NoTokenIsNone == NoToken \notin Account \cup Token

VARIABLES
    now,        \* the clock of the process, in seconds
    stored,     \* Account -> the refresh token whose hash it holds
    calls,      \* Call -> where that request stands
    restarts,   \* how often the process has exited
    superseded, \* ghost: tokens that another token has replaced
    signings,   \* ghost: Token -> how many calls signed it
    contended   \* ghost: calls that another one on the account overlapped or followed

vars == <<now, stored, calls, restarts, superseded, signings, contended>>

\* "lookup": a refresh token was verified, its owner is looked for.
\* "sign":   the account was found, the tokens are not signed yet.
\* "save":   the tokens are signed, the hash is not stored yet.
\* "saved":  the hash is stored, the reply has not left.
Ended == {"replied", "refused", "lost"}
Stage == {"idle", "lookup", "sign", "save", "saved"} \cup Ended

NewCall == [stage |-> "idle", account |-> NoToken, presented |-> NoToken, token |-> NoToken]

CallState == [stage: Stage, account: Account \cup {NoToken},
              presented: Token \cup {NoToken}, token: Token \cup {NoToken}]

Running(c) == calls[c].stage \notin {"idle"} \cup Ended

\* What a client may hold: the refresh tokens of the replies.
Held == {calls[c].token : c \in {d \in Call : calls[d].stage = "replied"}}

Others(c, a) == {d \in Call \ {c} : calls[d].account = a}

-----------------------------------------------------------------------------
Init ==
    /\ now = 0
    /\ stored = [a \in Account |-> NoToken]
    /\ calls = [c \in Call |-> NewCall]
    /\ restarts = 0
    /\ superseded = {}
    /\ signings = [t \in {} |-> 0]
    /\ contended = {}

Put(c, state) == calls' = [calls EXCEPT ![c] = state]

\* A request on account a begins: it contends with those that have not ended,
\* and those that have ended are no longer the last.
Contend(c, a) ==
    contended' = contended \cup Others(c, a)
                           \cup (IF \E d \in Others(c, a) : Running(d) THEN {c} ELSE {})

\* signIn: tryLoginByEmailAndPassword has found the account.  Without a match
\* the request is refused and nothing changes.
SignIn(c, a) ==
    /\ calls[c].stage = "idle"
    /\ Put(c, [NewCall EXCEPT !.stage = "sign", !.account = a])
    /\ Contend(c, a)
    /\ UNCHANGED <<now, stored, restarts, superseded, signings>>

\* jwtService.verify throws from the second of expiry on.
Expired(t) == now >= t.iat + RefreshLife

\* refreshAuthToken up to its query.  An expired token is refused at once.
Refresh(c, t) ==
    /\ calls[c].stage = "idle"
    /\ ~Expired(t)
    /\ Put(c, [NewCall EXCEPT !.stage = "lookup", !.account = t.sub, !.presented = t])
    /\ Contend(c, t.sub)
    /\ UNCHANGED <<now, stored, restarts, superseded, signings>>

\* Mutant: users are found by id alone, as admins are.
FoundById(t) == TRUE

\* getOne: UserService filters by id and refreshJwtHash, AdminService by id.
Found(t) == t.sub \in User => stored[t.sub] = t

Lookup(c) ==
    /\ calls[c].stage = "lookup"
    /\ Put(c, [calls[c] EXCEPT !.stage = IF Found(calls[c].presented) THEN "sign"
                                                                    ELSE "refused"])
    /\ UNCHANGED <<now, stored, restarts, superseded, signings, contended>>

\* Mutant: the payload names whichever account.
SignForAny(c) ==
    \E a \in Account :
       /\ calls[c].stage = "sign"
       /\ Put(c, [calls[c] EXCEPT !.stage = "save", !.token = [sub |-> a, iat |-> now]])
       /\ UNCHANGED <<now, stored, restarts, superseded, signings, contended>>

\* createAndSaveTokenPair up to updateJwtHash: both tokens are signed now.
Sign(c) ==
    LET t == [sub |-> calls[c].account, iat |-> now] IN
    /\ calls[c].stage = "sign"
    /\ Put(c, [calls[c] EXCEPT !.stage = "save", !.token = t])
    /\ signings' = [u \in DOMAIN signings \cup {t} |->
                      (IF u \in DOMAIN signings THEN signings[u] ELSE 0)
                      + (IF u = t THEN 1 ELSE 0)]
    /\ UNCHANGED <<now, stored, restarts, superseded, contended>>

\* Mutant: the update is sent again although it was applied.
SaveAgain(c) ==
    LET a == calls[c].account
        t == calls[c].token IN
    /\ calls[c].stage \in {"save", "saved"}
    /\ Put(c, [calls[c] EXCEPT !.stage = "saved"])
    /\ stored' = [stored EXCEPT ![a] = t]
    /\ superseded' = superseded \cup ({stored[a]} \ {NoToken, t})
    /\ UNCHANGED <<now, restarts, signings, contended>>

\* updateJwtHash.
Save(c) ==
    LET a == calls[c].account
        t == calls[c].token IN
    /\ calls[c].stage = "save"
    /\ Put(c, [calls[c] EXCEPT !.stage = "saved"])
    /\ stored' = [stored EXCEPT ![a] = t]
    /\ superseded' = superseded \cup ({stored[a]} \ {NoToken, t})
    /\ UNCHANGED <<now, restarts, signings, contended>>

\* Mutant: the reply does not await the store.
ReplyUnawaited(c) ==
    /\ calls[c].stage \in {"save", "saved"}
    /\ Put(c, [calls[c] EXCEPT !.stage = "replied"])
    /\ UNCHANGED <<now, stored, restarts, superseded, signings, contended>>

\* Mutant: the pair that leaves is signed anew.
ReplySignedAnew(c) ==
    /\ calls[c].stage = "saved"
    /\ Put(c, [calls[c] EXCEPT !.stage = "replied",
                              !.token = [sub |-> calls[c].account, iat |-> now]])
    /\ UNCHANGED <<now, stored, restarts, superseded, signings, contended>>

\* The token pair leaves.
Reply(c) ==
    /\ calls[c].stage = "saved"
    /\ Put(c, [calls[c] EXCEPT !.stage = "replied"])
    /\ UNCHANGED <<now, stored, restarts, superseded, signings, contended>>

\* MongoDB rejects the call's operation; the client gets an error.
Fail(c) ==
    /\ calls[c].stage \in {"lookup", "save"}
    /\ Put(c, [calls[c] EXCEPT !.stage = "refused"])
    /\ UNCHANGED <<now, stored, restarts, superseded, signings, contended>>

Tick ==
    /\ now < MaxTime
    /\ now' = now + 1
    /\ UNCHANGED <<stored, calls, restarts, superseded, signings, contended>>

\* The process exits: no running request gets its reply.
Exit ==
    /\ restarts < MaxRestarts
    /\ restarts' = restarts + 1
    /\ calls' = [c \in Call |-> IF Running(c) THEN [calls[c] EXCEPT !.stage = "lost"]
                                              ELSE calls[c]]
    /\ UNCHANGED <<now, stored, superseded, signings, contended>>

Serve(c) == Lookup(c) \/ Sign(c) \/ Save(c) \/ Reply(c)

Next ==
    \/ \E c \in Call, a \in Account : SignIn(c, a)
    \/ \E c \in Call, t \in Held : Refresh(c, t)
    \/ \E c \in Call : Serve(c) \/ Fail(c)
    \/ Tick
    \/ Exit

Spec == Init /\ [][Next]_vars

-----------------------------------------------------------------------------
(* Properties *)

\* Types, and every signed token of a call is for its account.
TypeOK ==
    /\ now \in Nat
    /\ stored \in [Account -> Token \cup {NoToken}]
    /\ calls \in [Call -> CallState]
    /\ restarts \in Nat
    /\ superseded \subseteq Token
    /\ signings \in [DOMAIN signings -> Nat]
    /\ DOMAIN signings \subseteq Token
    /\ contended \subseteq Call
    /\ \A c \in Call : calls[c].token # NoToken => calls[c].token.sub = calls[c].account

\* A client that uses its account alone, one request after the other, keeps
\* its session: its last reply holds the token that the account expects.
LoneClientKeepsSession ==
    \A c \in Call \ contended :
       calls[c].stage = "replied" => stored[calls[c].account] = calls[c].token

\* The token an account expects was given to somebody, unless a request on it
\* is running or has lost its reply: a failed request leaves the session of
\* its client as it was.
NoOrphanSession ==
    \A a \in Account :
       \/ stored[a] \in Held \cup {NoToken}
       \/ \E c \in Call : /\ calls[c].account = a /\ calls[c].token = stored[a]
                          /\ calls[c].stage \in {"saved", "lost"}

\* A refresh token that another one has replaced is never expected again,
\* save where two requests signed it in the same second.
SupersededStaysDead ==
    \A a \in Account : stored[a] \in superseded => signings[stored[a]] > 1

\* A user's session is handed on in a chain: once a refresh token has been
\* replaced, presenting it opens nothing, however many requests raced to
\* replace it (save where two requests signed it in the same second).
ReplacedTokenRefused ==
    [][\A c \in Call :
         LET t == calls[c].presented IN
         /\ calls[c].stage = "lookup" /\ calls'[c].stage = "sign"
         /\ calls[c].account \in User
         /\ signings[t] = 1
         => t \notin superseded]_vars
=============================================================================
