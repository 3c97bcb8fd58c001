---------------------------- MODULE SessionsProofs ----------------------------
(***************************************************************************)
(* The session properties for every set of accounts and requests, every    *)
(* lifetime of a token and every number of restarts.                       *)
(***************************************************************************)
EXTENDS Sessions, TLAPS

-----------------------------------------------------------------------------
(* Type correctness.  It needs to know how far a request of each stage is.  *)

\* What a request in state s holds at each stage.
Shape(s) ==
    /\ s.stage = "idle" => s.account = NoToken
    /\ s.stage # "idle" => s.account \in Account
    /\ s.presented # NoToken => s.presented.sub = s.account
    /\ s.stage = "lookup" => s.presented \in Token
    /\ s.stage \in {"idle", "lookup", "sign"} => s.token = NoToken
    /\ s.stage \in {"save", "saved", "replied"} => s.token \in Token

CallShape == \A c \in Call : Shape(calls[c])

\* An account holds tokens of its own.
StoredOwn == \A a \in Account : stored[a] # NoToken => stored[a].sub = a

Typed == TypeOK /\ CallShape /\ StoredOwn

\* A refresh token that a client holds is a token.
LEMMA HeldAreTokens ==
    ASSUME Typed
    PROVE  Held \subseteq Token
BY DEF Typed, TypeOK, CallShape, Shape, Held, CallState

\* Replacing one request's state touches no other's.
LEMMA PutFacts ==
    ASSUME Typed, NEW c \in Call, NEW s \in CallState, Put(c, s)
    PROVE  /\ calls' \in [Call -> CallState]
           /\ calls'[c] = s
           /\ \A d \in Call \ {c} : calls'[d] = calls[d]
BY DEF Typed, TypeOK, Put

\* Stages a request can be put in.
LEMMA StageFacts ==
    ASSUME NEW s \in CallState
    PROVE  /\ \A st \in Stage : [s EXCEPT !.stage = st] \in CallState
           /\ \A st \in Stage, t \in Token :
                [s EXCEPT !.stage = st, !.token = t] \in CallState
BY DEF CallState

LEMMA TypedInit ==
    ASSUME Init
    PROVE  Typed
BY NoTokenIsNone DEF Init, Typed, TypeOK, CallShape, Shape, StoredOwn, NewCall, CallState, Stage, Ended, Token

\* Every action keeps the types.
LEMMA TypedStep ==
    ASSUME Typed, [Next]_vars
    PROVE  Typed'
<1> USE DEF Typed
<1>1. ASSUME NEW c \in Call, NEW a \in Account, SignIn(c, a)
      PROVE  Typed'
  <2>1. NewCall \in CallState /\ [NewCall EXCEPT !.stage = "sign", !.account = a] \in CallState
    BY DEF NewCall, CallState, Stage, Ended
  <2>2. calls' \in [Call -> CallState]
        /\ calls'[c] = [NewCall EXCEPT !.stage = "sign", !.account = a]
        /\ \A d \in Call \ {c} : calls'[d] = calls[d]
    BY <1>1, <2>1, PutFacts DEF SignIn
  <2>3. TypeOK'
    BY <1>1, <2>2 DEF SignIn, Contend, Others, TypeOK, NewCall
  <2>4. CallShape'
    <3>1. Shape(calls'[c])
      BY <2>2 DEF Shape, NewCall
    <3> QED
      BY <2>2, <3>1 DEF CallShape
  <2> QED
    BY <1>1, <2>3, <2>4 DEF SignIn, StoredOwn
<1>2. ASSUME NEW c \in Call, NEW t \in Held, Refresh(c, t)
      PROVE  Typed'
  <2> DEFINE s == [NewCall EXCEPT !.stage = "lookup", !.account = t.sub, !.presented = t]
  <2>1. t \in Token /\ t.sub \in Account
    BY HeldAreTokens DEF Token
  <2>2. s \in CallState
    BY <2>1 DEF NewCall, CallState, Stage, Ended
  <2>3. calls' \in [Call -> CallState]
        /\ calls'[c] = s
        /\ \A d \in Call \ {c} : calls'[d] = calls[d]
    BY <1>2, <2>2, PutFacts DEF Refresh
  <2>4. TypeOK'
    BY <1>2, <2>3 DEF Refresh, Contend, Others, TypeOK, NewCall
  <2>5. CallShape'
    <3>1. Shape(calls'[c])
      BY <2>1, <2>3 DEF Shape, NewCall
    <3> QED
      BY <2>3, <3>1 DEF CallShape
  <2> QED
    BY <1>2, <2>4, <2>5 DEF Refresh, StoredOwn
<1>3. ASSUME NEW c \in Call, Lookup(c) \/ Fail(c) \/ Reply(c)
      PROVE  Typed'
  <2>1. \E st \in {"sign", "refused", "replied"} :
           /\ Put(c, [calls[c] EXCEPT !.stage = st])
           /\ st = "sign" => calls[c].stage = "lookup"
           /\ st = "replied" => calls[c].stage = "saved"
           /\ calls[c].stage \in {"lookup", "save", "saved"}
    BY <1>3 DEF Lookup, Fail, Reply
  <2>2. PICK st \in {"sign", "refused", "replied"} :
           /\ Put(c, [calls[c] EXCEPT !.stage = st])
           /\ st = "sign" => calls[c].stage = "lookup"
           /\ st = "replied" => calls[c].stage = "saved"
           /\ calls[c].stage \in {"lookup", "save", "saved"}
    BY <2>1
  <2>3. calls[c] \in CallState /\ st \in Stage
    BY DEF TypeOK, Stage, Ended
  <2>4. calls' \in [Call -> CallState]
        /\ calls'[c] = [calls[c] EXCEPT !.stage = st]
        /\ \A d \in Call \ {c} : calls'[d] = calls[d]
    BY <2>2, <2>3, StageFacts, PutFacts
  <2>5. UNCHANGED <<now, stored, restarts, superseded, signings, contended>>
    BY <1>3 DEF Lookup, Fail, Reply
  <2>6. /\ calls'[c].stage = st /\ calls'[c].account = calls[c].account
        /\ calls'[c].presented = calls[c].presented /\ calls'[c].token = calls[c].token
    BY <2>3, <2>4 DEF CallState
  <2>7. TypeOK'
    BY <2>4, <2>5, <2>6 DEF TypeOK
  <2>8. CallShape'
    <3>1. Shape(calls[c])
      BY DEF CallShape
    <3>2. Shape(calls'[c])
      BY <2>2, <2>6, <3>1 DEF Shape
    <3> QED
      BY <2>4, <3>2 DEF CallShape
  <2> QED
    BY <2>5, <2>7, <2>8 DEF StoredOwn
<1>4. ASSUME NEW c \in Call, Sign(c)
      PROVE  Typed'
  <2> DEFINE t == [sub |-> calls[c].account, iat |-> now]
  <2>1. calls[c].account \in Account /\ t \in Token /\ calls[c] \in CallState
    BY <1>4 DEF Sign, CallShape, Shape, TypeOK, Token
  <2>2. [calls[c] EXCEPT !.stage = "save", !.token = t] \in CallState
    BY <2>1, StageFacts DEF Stage
  <2>3. calls' \in [Call -> CallState]
        /\ calls'[c] = [calls[c] EXCEPT !.stage = "save", !.token = t]
        /\ \A d \in Call \ {c} : calls'[d] = calls[d]
    BY <1>4, <2>2, PutFacts DEF Sign
  <2>4. /\ calls'[c].stage = "save" /\ calls'[c].account = calls[c].account
        /\ calls'[c].presented = calls[c].presented /\ calls'[c].token = t
    BY <2>1, <2>3 DEF CallState
  <2>5. signings' \in [DOMAIN signings' -> Nat] /\ DOMAIN signings' \subseteq Token
    BY <1>4, <2>1 DEF Sign, TypeOK
  <2>6. TypeOK'
    <3>1. t.sub = calls[c].account
      OBVIOUS
    <3>2. \A d \in Call : calls'[d].token # NoToken => calls'[d].token.sub = calls'[d].account
      BY <2>3, <2>4, <3>1 DEF TypeOK
    <3> HIDE DEF t
    <3> QED
      BY <1>4, <2>3, <2>5, <3>2 DEF Sign, TypeOK
  <2>7. CallShape'
    <3>1. Shape(calls[c])
      BY DEF CallShape
    <3>2. Shape(calls'[c])
      BY <1>4, <2>1, <2>4, <3>1 DEF Sign, Shape
    <3> QED
      BY <2>3, <3>2 DEF CallShape
  <2> QED
    BY <1>4, <2>6, <2>7 DEF Sign, StoredOwn
<1>5. ASSUME NEW c \in Call, Save(c)
      PROVE  Typed'
  <2>1. /\ calls[c].account \in Account /\ calls[c].token \in Token
        /\ calls[c].token.sub = calls[c].account /\ calls[c] \in CallState
    BY <1>5, NoTokenIsNone DEF Save, CallShape, Shape, TypeOK
  <2>2. calls' \in [Call -> CallState]
        /\ calls'[c] = [calls[c] EXCEPT !.stage = "saved"]
        /\ \A d \in Call \ {c} : calls'[d] = calls[d]
    BY <1>5, <2>1, StageFacts, PutFacts DEF Save, Stage
  <2>3. /\ calls'[c].stage = "saved" /\ calls'[c].account = calls[c].account
        /\ calls'[c].presented = calls[c].presented /\ calls'[c].token = calls[c].token
    BY <2>1, <2>2 DEF CallState
  <2>4. superseded' \subseteq Token
    BY <1>5, <2>1 DEF Save, TypeOK
  <2>5. TypeOK'
    BY <1>5, <2>1, <2>2, <2>3, <2>4 DEF Save, TypeOK
  <2>6. CallShape'
    <3>1. Shape(calls[c])
      BY DEF CallShape
    <3>2. Shape(calls'[c])
      BY <1>5, <2>3, <3>1 DEF Save, Shape
    <3> QED
      BY <2>2, <3>2 DEF CallShape
  <2>7. StoredOwn'
    BY <1>5, <2>1 DEF Save, StoredOwn, TypeOK
  <2> QED
    BY <2>5, <2>6, <2>7
<1>6. CASE Tick
  BY <1>6 DEF Tick, TypeOK, CallShape, StoredOwn
<1>7. CASE Exit
  <2>1. \A c \in Call : calls[c] \in CallState
    BY DEF TypeOK
  <2>2. calls' \in [Call -> CallState]
    BY <1>7, <2>1, StageFacts DEF Exit, Stage, Ended
  <2>3. \A c \in Call :
           /\ calls'[c].account = calls[c].account
           /\ calls'[c].presented = calls[c].presented /\ calls'[c].token = calls[c].token
           /\ \/ calls'[c].stage = calls[c].stage
              \/ calls'[c].stage = "lost" /\ calls[c].stage # "idle"
    <3> TAKE c \in Call
    <3>1. CASE Running(c)
      <4>1. calls'[c] = [calls[c] EXCEPT !.stage = "lost"]
        BY <1>7, <3>1 DEF Exit
      <4>2. calls[c].stage # "idle"
        BY <3>1 DEF Running
      <4> QED
        BY <2>1, <4>1, <4>2 DEF CallState
    <3>2. CASE ~Running(c)
      <4>1. calls'[c] = calls[c]
        BY <1>7, <3>2 DEF Exit
      <4> QED
        BY <4>1
    <3> QED
      BY <3>1, <3>2
  <2>4. TypeOK'
    BY <1>7, <2>2, <2>3, SessionConstants DEF Exit, TypeOK
  <2>5. ASSUME NEW c \in Call
        PROVE  Shape(calls'[c])
    <3>1. Shape(calls[c])
      BY DEF CallShape
    <3> QED
      BY <2>3, <3>1 DEF Shape
  <2> QED
    BY <1>7, <2>4, <2>5 DEF Exit, CallShape, StoredOwn
<1>8. CASE UNCHANGED vars
  BY <1>8 DEF vars, TypeOK, CallShape, StoredOwn
<1> QED
  BY <1>1, <1>2, <1>3, <1>4, <1>5, <1>6, <1>7, <1>8 DEF Next, Serve

\* Requests, sessions and tokens keep their types, and a request's token is
\* for the account it acts on.
THEOREM SessionsTyped == Spec => []TypeOK
<1>1. Init => Typed
  BY TypedInit
<1>2. Typed /\ [Next]_vars => Typed'
  BY TypedStep
<1>3. Typed => TypeOK
  BY DEF Typed
<1> QED
  BY <1>1, <1>2, <1>3, PTL DEF Spec

-----------------------------------------------------------------------------
(* Replaced tokens.  SupersededStaysDead is not inductive: a request that    *)
(* has signed but not stored could bring an old token back, unless no two    *)
(* requests hold a token that was signed once.                               *)

Signed(count, t) == t \in DOMAIN count /\ count[t] \in Nat /\ count[t] > 0

SignedTwice(count, t) == t \in DOMAIN count /\ count[t] \in Nat /\ count[t] > 1

\* Tokens that accounts hold or held.
Known == superseded \cup ({stored[a] : a \in Account} \ {NoToken})

\* The tokens of requests and accounts were signed.
OnlySigned ==
    /\ \A c \in Call : calls[c].token # NoToken => Signed(signings, calls[c].token)
    /\ \A t \in Known : Signed(signings, t)

\* Two requests with one token signed it twice.
SharedSignedTwice ==
    \A c, d \in Call :
       c # d /\ calls[c].token = calls[d].token /\ calls[c].token # NoToken
       => SignedTwice(signings, calls[c].token)

\* A request about to store a token that was stored before shares it.
ResavedSignedTwice ==
    \A c \in Call :
       calls[c].stage = "save" /\ calls[c].token \in Known => SignedTwice(signings, calls[c].token)

ReplacedSignedTwice ==
    \A a \in Account : stored[a] \in superseded => SignedTwice(signings, stored[a])

TokenInv == OnlySigned /\ SharedSignedTwice /\ ResavedSignedTwice /\ ReplacedSignedTwice

LEMMA TokenInit ==
    ASSUME Init
    PROVE  TokenInv
BY DEF Init, TokenInv, OnlySigned, SharedSignedTwice, ResavedSignedTwice,
       ReplacedSignedTwice, Known, NewCall

\* Steps that neither sign nor store leave the tokens alone: a request keeps
\* its token, and none comes to the point of storing one.
LEMMA TokenKept ==
    ASSUME TokenInv, UNCHANGED <<stored, superseded, signings>>,
           \A c \in Call : /\ calls'[c].token = calls[c].token
                           /\ calls'[c].stage = "save" => calls[c].stage = "save"
    PROVE  TokenInv'
<1>1. /\ Known' = Known
      /\ \A t : /\ Signed(signings', t) <=> Signed(signings, t)
               /\ SignedTwice(signings', t) <=> SignedTwice(signings, t)
  BY DEF Known, Signed, SignedTwice
<1>2. OnlySigned'
  BY <1>1 DEF TokenInv, OnlySigned
<1>3. SharedSignedTwice'
  BY <1>1 DEF TokenInv, SharedSignedTwice
<1>4. ResavedSignedTwice'
  BY <1>1 DEF TokenInv, ResavedSignedTwice
<1>5. ReplacedSignedTwice'
  BY <1>1 DEF TokenInv, ReplacedSignedTwice
<1> QED
  BY <1>2, <1>3, <1>4, <1>5 DEF TokenInv

\* Signing counts the token once more, and no other.
LEMMA SignCounts ==
    ASSUME Typed, NEW c \in Call, Sign(c),
           NEW t, t = [sub |-> calls[c].account, iat |-> now]
    PROVE  /\ Signed(signings', t)
           /\ Signed(signings, t) => SignedTwice(signings', t)
           /\ \A u : Signed(signings, u) => Signed(signings', u)
           /\ \A u : SignedTwice(signings, u) => SignedTwice(signings', u)
<1>1. signings \in [DOMAIN signings -> Nat]
  BY DEF Typed, TypeOK
<1>2. /\ DOMAIN signings' = DOMAIN signings \cup {t}
      /\ \A u \in DOMAIN signings' :
            signings'[u] = (IF u \in DOMAIN signings THEN signings[u] ELSE 0)
                           + (IF u = t THEN 1 ELSE 0)
  BY DEF Sign
<1>3. signings'[t] = (IF t \in DOMAIN signings THEN signings[t] ELSE 0) + 1
  BY <1>2
<1>4. \A u \in DOMAIN signings : signings'[u] = signings[u] + (IF u = t THEN 1 ELSE 0)
  BY <1>2
<1> QED
  BY <1>1, <1>2, <1>3, <1>4 DEF Signed, SignedTwice

\* Every action keeps the tokens of the past dead.
LEMMA TokenStep ==
    ASSUME Typed, TokenInv, [Next]_vars
    PROVE  TokenInv'
<1>1. ASSUME NEW c \in Call, NEW s, Put(c, s), s.token = calls[c].token,
             s.stage # "save", UNCHANGED <<stored, superseded, signings>>
      PROVE  TokenInv'
  BY <1>1, TokenKept DEF Put, Typed, TypeOK
<1>2. ASSUME NEW c \in Call, NEW a \in Account, SignIn(c, a)
      PROVE  TokenInv'
  <2>1. calls[c].token = NoToken
    BY <1>2 DEF SignIn, Typed, CallShape, Shape
  <2> QED
    BY <1>1, <1>2, <2>1 DEF SignIn, NewCall
<1>3. ASSUME NEW c \in Call, NEW t \in Held, Refresh(c, t)
      PROVE  TokenInv'
  <2>1. calls[c].token = NoToken
    BY <1>3 DEF Refresh, Typed, CallShape, Shape
  <2> QED
    BY <1>1, <1>3, <2>1 DEF Refresh, NewCall
<1>4. ASSUME NEW c \in Call, Lookup(c) \/ Reply(c) \/ Fail(c)
      PROVE  TokenInv'
  <2>1. calls[c] \in CallState
    BY DEF Typed, TypeOK
  <2>2. \A st \in {"sign", "refused", "replied"} :
           /\ [calls[c] EXCEPT !.stage = st].token = calls[c].token
           /\ [calls[c] EXCEPT !.stage = st].stage # "save"
    BY <2>1 DEF CallState
  <2> QED
    BY <1>1, <1>4, <2>2 DEF Lookup, Reply, Fail
<1>5. ASSUME NEW c \in Call, Sign(c)
      PROVE  TokenInv'
  <2> DEFINE t == [sub |-> calls[c].account, iat |-> now]
  <2>1. /\ Signed(signings', t) /\ (Signed(signings, t) => SignedTwice(signings', t))
        /\ \A u : Signed(signings, u) => Signed(signings', u)
        /\ \A u : SignedTwice(signings, u) => SignedTwice(signings', u)
    BY <1>5, SignCounts
  <2>2. Known' = Known
    BY <1>5 DEF Sign, Known
  <2>3. calls[c] \in CallState
    BY DEF Typed, TypeOK
  <2>4. calls'[c].token = t /\ \A d \in Call \ {c} : calls'[d] = calls[d]
    BY <1>5, <2>3 DEF Sign, Put, Typed, TypeOK, CallState
  <2> HIDE DEF t
  <2>5. OnlySigned'
    <3>1. \A d \in Call \ {c} :
             calls'[d].token # NoToken => Signed(signings', calls'[d].token)
      BY <2>1, <2>4 DEF TokenInv, OnlySigned
    <3>2. \A u \in Known' : Signed(signings', u)
      BY <2>1, <2>2 DEF TokenInv, OnlySigned
    <3> QED
      BY <2>1, <2>4, <3>1, <3>2 DEF OnlySigned
  <2>6. \A d \in Call \ {c} : calls[d].token = t /\ t # NoToken => SignedTwice(signings', t)
    BY <2>1 DEF TokenInv, OnlySigned
  <2>7. SharedSignedTwice'
    BY <2>1, <2>4, <2>6 DEF TokenInv, SharedSignedTwice
  <2>8. t \in Known => SignedTwice(signings', t)
    BY <2>1 DEF TokenInv, OnlySigned
  <2>9. ResavedSignedTwice'
    BY <2>1, <2>2, <2>4, <2>8 DEF TokenInv, ResavedSignedTwice
  <2>10. ReplacedSignedTwice'
    BY <1>5, <2>1 DEF Sign, TokenInv, ReplacedSignedTwice
  <2> QED
    BY <2>5, <2>7, <2>9, <2>10 DEF TokenInv
<1>6. ASSUME NEW c \in Call, Save(c)
      PROVE  TokenInv'
  <2> DEFINE a == calls[c].account
             t == calls[c].token
  <2>1. a \in Account /\ t \in Token /\ t # NoToken /\ t.sub = a /\ calls[c].stage = "save"
    BY <1>6, NoTokenIsNone DEF Save, Typed, CallShape, Shape, TypeOK
  <2>2. calls[c] \in CallState
    BY DEF Typed, TypeOK
  <2>3. /\ \A d \in Call : calls'[d].token = calls[d].token
        /\ \A d \in Call : calls'[d].stage = "save" => d # c /\ calls[d].stage = "save"
    BY <1>6, <2>2 DEF Save, Put, Typed, TypeOK, CallState
  <2>4. \A u : /\ Signed(signings', u) <=> Signed(signings, u)
               /\ SignedTwice(signings', u) <=> SignedTwice(signings, u)
    BY <1>6 DEF Save, Signed, SignedTwice
  <2>5. stored'[a] = t /\ \A b \in Account \ {a} : stored'[b] = stored[b]
    BY <1>6, <2>1 DEF Save, Typed, TypeOK
  <2>6. superseded' = superseded \cup ({stored[a]} \ {NoToken, t})
    BY <1>6 DEF Save
  <2>7. Known' \subseteq Known \cup {t}
    BY <2>1, <2>5, <2>6 DEF Known
  <2>8. OnlySigned'
    BY <2>1, <2>3, <2>4, <2>7 DEF TokenInv, OnlySigned
  <2>9. SharedSignedTwice'
    BY <2>3, <2>4 DEF TokenInv, SharedSignedTwice
  <2>10. ResavedSignedTwice'
    BY <2>1, <2>3, <2>4, <2>7 DEF TokenInv, SharedSignedTwice, ResavedSignedTwice
  <2>11. t \in superseded => SignedTwice(signings, t)
    BY <2>1 DEF TokenInv, ResavedSignedTwice, Known
  <2>12. \A b \in Account \ {a} : stored[b] \in superseded' => stored[b] \in superseded
    BY <2>1, <2>6, NoTokenIsNone DEF Typed, StoredOwn
  <2>13. ReplacedSignedTwice'
    BY <2>4, <2>5, <2>6, <2>11, <2>12 DEF TokenInv, ReplacedSignedTwice
  <2> QED
    BY <2>8, <2>9, <2>10, <2>13 DEF TokenInv
<1>7. CASE Tick
  BY <1>7, TokenKept DEF Tick
<1>8. CASE Exit
  <2>1. \A c \in Call : calls[c] \in CallState
    BY DEF Typed, TypeOK
  <2>2. \A c \in Call : /\ [calls[c] EXCEPT !.stage = "lost"].token = calls[c].token
                        /\ [calls[c] EXCEPT !.stage = "lost"].stage = "lost"
    BY <2>1 DEF CallState
  <2>3. \A c \in Call : calls'[c] = calls[c] \/ calls'[c] = [calls[c] EXCEPT !.stage = "lost"]
    BY <1>8 DEF Exit
  <2>4. UNCHANGED <<stored, superseded, signings>>
    BY <1>8 DEF Exit
  <2> QED
    BY <2>2, <2>3, <2>4, TokenKept
<1>9. CASE UNCHANGED vars
  BY <1>9, TokenKept DEF vars
<1> QED
  BY <1>2, <1>3, <1>4, <1>5, <1>6, <1>7, <1>8, <1>9 DEF Next, Serve

\* A refresh token that was replaced is never the one an account expects
\* again, whatever the order in which overlapping requests sign and store.
THEOREM SupersededTokensStayDead == Spec => []SupersededStaysDead
<1>1. Init => Typed /\ TokenInv
  BY TypedInit, TokenInit
<1>2. Typed /\ TokenInv /\ [Next]_vars => (Typed /\ TokenInv)'
  BY TypedStep, TokenStep
<1>3. TokenInv => SupersededStaysDead
  BY DEF TokenInv, ReplacedSignedTwice, SignedTwice, SupersededStaysDead
<1> QED
  BY <1>1, <1>2, <1>3, PTL DEF Spec

\* A replaced refresh token opens no user's session: the lookup of refresh
\* compares the hash that the account holds.
THEOREM ReplacedTokensRefused == Spec => ReplacedTokenRefused
<1>1. Init => Typed /\ TokenInv
  BY TypedInit, TokenInit
<1>2. Typed /\ TokenInv /\ [Next]_vars => (Typed /\ TokenInv)'
  BY TypedStep, TokenStep
<1> DEFINE Refused ==
      \A c \in Call :
         LET t == calls[c].presented IN
         /\ calls[c].stage = "lookup" /\ calls'[c].stage = "sign"
         /\ calls[c].account \in User
         /\ signings[t] = 1
         => t \notin superseded
<1>3. Typed /\ TokenInv /\ [Next]_vars => [Refused]_vars
  <2> SUFFICES ASSUME Typed, TokenInv, Next, NEW c \in Call,
                      calls[c].stage = "lookup", calls'[c].stage = "sign",
                      calls[c].account \in User,
                      signings[calls[c].presented] = 1
               PROVE  calls[c].presented \notin superseded
    OBVIOUS
  <2> DEFINE t == calls[c].presented
  <2>1. t \in Token /\ t # NoToken /\ t.sub = calls[c].account
    BY NoTokenIsNone DEF Typed, CallShape, Shape
  <2>2. Lookup(c)
    <3>1. \A d \in Call : calls[d] \in CallState
      BY DEF Typed, TypeOK
    <3>2. ASSUME NEW d \in Call, NEW s, Put(d, s), d # c \/ s.stage # "sign"
          PROVE  FALSE
      BY <3>2 DEF Put, Typed, TypeOK
    <3>3. ASSUME NEW d \in Call, NEW st \in Stage \ {"sign"}
          PROVE  [calls[d] EXCEPT !.stage = st].stage # "sign"
      BY <3>1 DEF CallState
    <3>4. ASSUME NEW d \in Call, NEW a \in Account, SignIn(d, a)
          PROVE  FALSE
      BY <3>2, <3>4 DEF SignIn
    <3>5. ASSUME NEW d \in Call, NEW u \in Held, Refresh(d, u)
          PROVE  FALSE
      BY <3>2, <3>5 DEF Refresh, NewCall
    <3>6. ASSUME NEW d \in Call, Sign(d)
          PROVE  FALSE
      BY <3>2, <3>6 DEF Sign
    <3>7. ASSUME NEW d \in Call, Save(d) \/ Reply(d) \/ Fail(d)
          PROVE  FALSE
      BY <3>2, <3>3, <3>7 DEF Save, Reply, Fail, Stage, Ended
    <3>8. ~Tick
      BY DEF Tick
    <3>9. ~Exit
      <4>1. [calls[c] EXCEPT !.stage = "lost"].stage # "sign"
        BY <3>1 DEF CallState
      <4> QED
        BY <4>1 DEF Exit
    <3>10. ASSUME NEW d \in Call, Lookup(d)
           PROVE  d = c
      BY <3>2, <3>10 DEF Lookup
    <3> QED
      BY <3>4, <3>5, <3>6, <3>7, <3>8, <3>9, <3>10 DEF Next, Serve
  <2>3. stored[t.sub] = t
    <3>1. calls[c] \in CallState
      BY DEF Typed, TypeOK
    <3>2. [calls[c] EXCEPT !.stage = "refused"].stage = "refused"
      BY <3>1 DEF CallState
    <3> QED
      BY <2>1, <2>2, <3>2 DEF Lookup, Found, Put, Typed, TypeOK
  <2>4. t.sub \in Account
    BY <2>1 DEF Token
  <2> QED
    BY <2>3, <2>4 DEF TokenInv, ReplacedSignedTwice, SignedTwice
<1> QED
  BY <1>1, <1>2, <1>3, PTL DEF Spec, ReplacedTokenRefused

-----------------------------------------------------------------------------
(* A client alone on its account.  A request that is not contended is the    *)
(* last to have begun on its account, and every other one had ended by then. *)

OthersEnded ==
    \A c \in Call \ contended :
       calls[c].stage # "idle" => \A d \in Others(c, calls[c].account) : ~Running(d)

StoredIsMine ==
    \A c \in Call \ contended :
       calls[c].stage \in {"saved", "replied"} => stored[calls[c].account] = calls[c].token

LoneInv == OthersEnded /\ StoredIsMine

\* A request that begins leaves its account's other requests contended.
LEMMA LoneBegin ==
    ASSUME Typed, LoneInv, NEW c \in Call, NEW a \in Account, NEW s,
           calls[c].stage = "idle", Put(c, s), s.account = a,
           s.stage \in {"sign", "lookup"}, Contend(c, a), stored' = stored
    PROVE  LoneInv'
<1>1. calls'[c] = s /\ \A d \in Call \ {c} : calls'[d] = calls[d]
  BY DEF Put, Typed, TypeOK
<1>2. contended \subseteq contended'
  BY DEF Contend
<1>3. ASSUME NEW d \in Call \ contended', d # c, calls'[d].stage # "idle"
      PROVE  /\ d \notin contended /\ calls[d].stage # "idle"
             /\ calls'[d].account = calls[d].account /\ calls[d].account # a
             /\ \A e \in Others(d, calls[d].account)' : ~Running(e)'
  <2>1. d \notin contended /\ calls[d].stage # "idle" /\ calls'[d] = calls[d]
    BY <1>1, <1>2, <1>3
  <2>2. calls[d].account # a
    BY <1>3 DEF Contend, Others
  <2>3. ASSUME NEW e \in Call \ {d}, calls'[e].account = calls[d].account
        PROVE  ~Running(e)'
    <3>1. e # c
      BY <1>1, <2>2, <2>3
    <3>2. e \in Others(d, calls[d].account)
      BY <1>1, <2>3, <3>1 DEF Others
    <3>3. ~Running(e)
      BY <2>1, <3>2 DEF LoneInv, OthersEnded
    <3> QED
      BY <1>1, <3>1, <3>3 DEF Running
  <2> QED
    BY <2>1, <2>2, <2>3 DEF Others
<1>4. ASSUME c \notin contended', NEW e \in Call \ {c}, calls'[e].account = a
      PROVE  ~Running(e)'
  <2>1. e \in Others(c, a) /\ calls'[e] = calls[e]
    BY <1>1, <1>4 DEF Others
  <2> QED
    BY <1>4, <2>1 DEF Contend, Running
<1>5. OthersEnded'
  BY <1>1, <1>3, <1>4 DEF OthersEnded, Others
<1>6. StoredIsMine'
  BY <1>1, <1>3 DEF LoneInv, StoredIsMine
<1> QED
  BY <1>5, <1>6 DEF LoneInv

\* A step of requests that have begun: none starts to run, and what is stored
\* under a saved token stays.
LEMMA LoneGoesOn ==
    ASSUME Typed, LoneInv, contended' = contended,
           \A c \in Call :
              /\ calls'[c].account = calls[c].account
              /\ calls'[c].stage = "idle" <=> calls[c].stage = "idle"
              /\ Running(c)' => Running(c)
              /\ calls'[c].stage \in {"saved", "replied"} /\ c \notin contended
                 => stored'[calls[c].account] = calls'[c].token
    PROVE  LoneInv'
<1>1. OthersEnded'
  BY DEF LoneInv, OthersEnded, Others
<1>2. StoredIsMine'
  BY DEF StoredIsMine
<1> QED
  BY <1>1, <1>2 DEF LoneInv

\* Every action leaves a client alone on its account its session.
LEMMA LoneStep ==
    ASSUME Typed, LoneInv, [Next]_vars
    PROVE  LoneInv'
<1>1. \A c \in Call : calls[c] \in CallState
  BY DEF Typed, TypeOK
<1>2. ASSUME NEW c \in Call, NEW a \in Account, SignIn(c, a)
      PROVE  LoneInv'
  BY <1>2, LoneBegin DEF SignIn, NewCall
<1>3. ASSUME NEW c \in Call, NEW t \in Held, Refresh(c, t)
      PROVE  LoneInv'
  <2>1. t.sub \in Account
    BY HeldAreTokens DEF Token
  <2> QED
    BY <1>3, <2>1, LoneBegin DEF Refresh, NewCall
<1>4. ASSUME NEW c \in Call, NEW st \in Stage \ {"idle"},
             Put(c, [calls[c] EXCEPT !.stage = st]), Running(c),
             st # "saved", st = "replied" => calls[c].stage = "saved",
             stored' = stored, contended' = contended
      PROVE  LoneInv'
  <2>1. /\ calls'[c].stage = st /\ calls'[c].account = calls[c].account
        /\ calls'[c].token = calls[c].token
        /\ \A d \in Call \ {c} : calls'[d] = calls[d]
    BY <1>1, <1>4 DEF Put, Typed, TypeOK, CallState
  <2>2. calls[c].stage # "idle"
    BY <1>4 DEF Running
  <2> QED
    BY <1>4, <2>1, <2>2, LoneGoesOn DEF Running, LoneInv, StoredIsMine
<1>5. ASSUME NEW c \in Call, Lookup(c) \/ Reply(c) \/ Fail(c)
      PROVE  LoneInv'
  BY <1>4, <1>5 DEF Lookup, Reply, Fail, Running, Stage, Ended
<1>6. ASSUME NEW c \in Call, Sign(c)
      PROVE  LoneInv'
  <2>1. /\ calls[c].stage = "sign" /\ calls'[c].stage = "save"
        /\ calls'[c].account = calls[c].account
        /\ \A d \in Call \ {c} : calls'[d] = calls[d]
        /\ stored' = stored /\ contended' = contended
    BY <1>1, <1>6 DEF Sign, Put, Typed, TypeOK, CallState
  <2> QED
    BY <2>1, LoneGoesOn DEF Running, Ended, LoneInv, StoredIsMine
<1>7. ASSUME NEW c \in Call, Save(c)
      PROVE  LoneInv'
  <2> DEFINE a == calls[c].account
  <2>1. /\ calls[c].stage = "save" /\ calls'[c].stage = "saved"
        /\ calls'[c].account = a /\ calls'[c].token = calls[c].token
        /\ \A d \in Call \ {c} : calls'[d] = calls[d]
        /\ contended' = contended
    BY <1>1, <1>7 DEF Save, Put, Typed, TypeOK, CallState
  <2>2. a \in Account
    BY <2>1 DEF Typed, CallShape, Shape
  <2>3. stored'[a] = calls[c].token /\ \A b \in Account \ {a} : stored'[b] = stored[b]
    BY <1>7, <2>2 DEF Save, Typed, TypeOK
  <2>4. ASSUME NEW d \in Call \ contended, d # c, calls[d].stage \in {"saved", "replied"}
        PROVE  stored'[calls[d].account] = calls[d].token
    <3>1. Running(c)
      BY <2>1 DEF Running, Ended
    <3>2. c \notin Others(d, calls[d].account)
      BY <2>4, <3>1 DEF LoneInv, OthersEnded
    <3>3. calls[d].account # a
      BY <2>4, <3>2 DEF Others
    <3>4. calls[d].account \in Account
      BY <2>4 DEF Typed, CallShape, Shape
    <3> QED
      BY <2>3, <2>4, <3>3, <3>4 DEF LoneInv, StoredIsMine
  <2> HIDE DEF a
  <2> QED
    BY <2>1, <2>3, <2>4, LoneGoesOn DEF Running, Ended, a
<1>8. CASE Tick
  BY <1>8, LoneGoesOn DEF Tick, Running, LoneInv, StoredIsMine
<1>9. CASE Exit
  <2>1. ASSUME NEW c \in Call
        PROVE  /\ calls'[c].account = calls[c].account /\ calls'[c].token = calls[c].token
               /\ \/ calls'[c] = calls[c]
                  \/ calls'[c].stage = "lost" /\ Running(c)
    BY <1>1, <1>9 DEF Exit, CallState
  <2>2. stored' = stored /\ contended' = contended
    BY <1>9 DEF Exit
  <2> QED
    BY <2>1, <2>2, LoneGoesOn DEF Running, Ended, LoneInv, StoredIsMine
<1>10. CASE UNCHANGED vars
  BY <1>10, LoneGoesOn DEF vars, Running, LoneInv, StoredIsMine
<1> QED
  BY <1>2, <1>3, <1>5, <1>6, <1>7, <1>8, <1>9, <1>10 DEF Next, Serve

\* A client that uses its account alone keeps its session, whatever happens
\* to other accounts and however often the process restarts.
THEOREM LoneClientsKeepSessions == Spec => []LoneClientKeepsSession
<1>1. Init => Typed /\ LoneInv
  BY TypedInit DEF Init, LoneInv, OthersEnded, StoredIsMine, NewCall
<1>2. Typed /\ LoneInv /\ [Next]_vars => (Typed /\ LoneInv)'
  BY TypedStep, LoneStep
<1>3. LoneInv => LoneClientKeepsSession
  BY DEF LoneInv, StoredIsMine, LoneClientKeepsSession
<1> QED
  BY <1>1, <1>2, <1>3, PTL DEF Spec

-----------------------------------------------------------------------------
(* Orphaned sessions: the invariant is inductive over typed states.          *)

\* A step that stores nothing, drops no reply and forgets no token of a
\* request that has stored one orphans no session.
LEMMA OrphanKept ==
    ASSUME Typed, NoOrphanSession, stored' = stored,
           \A c \in Call : calls[c].stage \in {"saved", "lost", "replied"} =>
              /\ calls'[c].account = calls[c].account /\ calls'[c].token = calls[c].token
              /\ calls[c].stage = "replied" => calls'[c].stage = "replied"
              /\ calls'[c].stage \in {"saved", "lost", "replied"}
    PROVE  NoOrphanSession'
<1> SUFFICES ASSUME NEW a \in Account, stored[a] \notin Held' \cup {NoToken}
             PROVE  \E c \in Call : /\ calls'[c].account = a /\ calls'[c].token = stored[a]
                                    /\ calls'[c].stage \in {"saved", "lost"}
  BY DEF NoOrphanSession
<1>1. stored[a] \notin Held
  BY DEF Held
<1>2. PICK c \in Call : /\ calls[c].account = a /\ calls[c].token = stored[a]
                        /\ calls[c].stage \in {"saved", "lost"}
  BY <1>1 DEF NoOrphanSession
<1>3. calls'[c].stage # "replied"
  BY <1>2 DEF Held
<1> QED
  BY <1>2, <1>3

\* Every action leaves each session with the client it was given to.
LEMMA OrphanStep ==
    ASSUME Typed, NoOrphanSession, [Next]_vars
    PROVE  NoOrphanSession'
<1>1. \A c \in Call : calls[c] \in CallState
  BY DEF Typed, TypeOK
<1>2. ASSUME NEW c \in Call, NEW s, Put(c, s), stored' = stored,
             calls[c].stage \notin {"saved", "lost", "replied"}
      PROVE  NoOrphanSession'
  BY <1>2, OrphanKept DEF Put, Typed, TypeOK
<1>3. ASSUME NEW c \in Call,
             \/ \E a \in Account : SignIn(c, a)
             \/ \E t \in Held : Refresh(c, t)
             \/ Lookup(c) \/ Sign(c) \/ Fail(c)
      PROVE  NoOrphanSession'
  BY <1>2, <1>3 DEF SignIn, Refresh, Lookup, Sign, Fail
<1>4. ASSUME NEW c \in Call, Reply(c)
      PROVE  NoOrphanSession'
  <2>1. calls[c].stage = "saved" /\ calls'[c] = [calls[c] EXCEPT !.stage = "replied"]
        /\ \A d \in Call \ {c} : calls'[d] = calls[d]
    BY <1>4 DEF Reply, Put, Typed, TypeOK
  <2>2. /\ calls'[c].stage = "replied" /\ calls'[c].account = calls[c].account
        /\ calls'[c].token = calls[c].token
    BY <1>1, <2>1 DEF CallState
  <2> QED
    BY <1>4, <2>1, <2>2, OrphanKept DEF Reply
<1>5. ASSUME NEW c \in Call, Save(c)
      PROVE  NoOrphanSession'
  <2>1. calls[c].stage = "save" /\ calls'[c] = [calls[c] EXCEPT !.stage = "saved"]
        /\ \A d \in Call \ {c} : calls'[d] = calls[d]
    BY <1>5 DEF Save, Put, Typed, TypeOK
  <2>2. /\ calls'[c].stage = "saved" /\ calls'[c].account = calls[c].account
        /\ calls'[c].token = calls[c].token
    BY <1>1, <2>1 DEF CallState
  <2>3. calls[c].account \in Account
    BY <2>1 DEF Typed, CallShape, Shape
  <2>4. /\ stored'[calls[c].account] = calls[c].token
        /\ \A b \in Account \ {calls[c].account} : stored'[b] = stored[b]
    BY <1>5, <2>3 DEF Save, Typed, TypeOK
  <2>5. Held \subseteq Held'
    <3> SUFFICES ASSUME NEW d \in Call, calls[d].stage = "replied"
                 PROVE  calls[d].token \in Held'
      BY DEF Held
    <3>1. d # c
      BY <2>1
    <3> QED
      BY <2>1, <3>1 DEF Held
  <2>6. ASSUME NEW b \in Account, b # calls[c].account, stored'[b] \notin Held \cup {NoToken}
        PROVE  \E d \in Call : /\ calls'[d].account = b /\ calls'[d].token = stored'[b]
                               /\ calls'[d].stage \in {"saved", "lost"}
    <3>1. PICK d \in Call : /\ calls[d].account = b /\ calls[d].token = stored[b]
                            /\ calls[d].stage \in {"saved", "lost"}
      BY <2>4, <2>6 DEF NoOrphanSession
    <3> QED
      BY <2>1, <2>4, <2>6, <3>1
  <2> QED
    BY <2>2, <2>4, <2>5, <2>6 DEF NoOrphanSession
<1>6. CASE Tick
  BY <1>6, OrphanKept DEF Tick
<1>7. CASE Exit
  <2>1. ASSUME NEW c \in Call
        PROVE  /\ calls'[c].account = calls[c].account /\ calls'[c].token = calls[c].token
               /\ calls'[c].stage \in {calls[c].stage, "lost"}
               /\ calls[c].stage = "replied" => calls'[c].stage = "replied"
    BY <1>1, <1>7 DEF Exit, CallState, Running, Ended
  <2>2. stored' = stored
    BY <1>7 DEF Exit
  <2> QED
    BY <2>1, <2>2, OrphanKept
<1>8. CASE UNCHANGED vars
  BY <1>8, OrphanKept DEF vars
<1> QED
  BY <1>3, <1>4, <1>5, <1>6, <1>7, <1>8 DEF Next, Serve

\* The token an account expects was given to a client, unless its request is
\* about to reply or lost its reply to an exit: a refused request never
\* replaces the token of a client's session.
THEOREM NoSessionIsOrphaned == Spec => []NoOrphanSession
<1>1. Init => Typed /\ NoOrphanSession
  BY TypedInit DEF Init, NoOrphanSession
<1>2. Typed /\ NoOrphanSession /\ [Next]_vars => (Typed /\ NoOrphanSession)'
  BY TypedStep, OrphanStep
<1> QED
  BY <1>1, <1>2, PTL DEF Spec
=============================================================================
