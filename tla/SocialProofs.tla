----------------------------- MODULE SocialProofs -----------------------------
(***************************************************************************)
(* The social operations for every set of accounts, NFTs, wallets and      *)
(* requests, every clock and any number of faults and exits.               *)
(***************************************************************************)
EXTENDS Social, TLAPS

-----------------------------------------------------------------------------
(* Type correctness *)

\* What a request is about at each stage.
Shape(s) ==
    /\ s.stage # "idle" => s.deed \in Deed
    /\ s.answer # "none" => s.stage = "done"
    /\ s.stage \in {"read", "ask"} => s.deed.op \in {"invite", "verifyTwitter"}
    /\ s.stage = "write" => s.deed.op # "verifyTwitter"

Typed == TypeOK /\ \A c \in Call : Shape(calls[c])

\* What a deed of each operation names.
LEMMA DeedFacts ==
    ASSUME NEW d \in Deed
    PROVE  /\ d.by \in User /\ d.by \in Actor
           /\ d.op \in {"follow", "unfollow", "addToBookmark", "removeFromBookmark", "addWallet",
                        "invite", "verifyTwitter"}
           /\ d.op \in {"follow", "unfollow"} => d.on \in User \cup {Nobody}
           /\ d.op \in {"addToBookmark", "removeFromBookmark"} => d.on \in Nft
           /\ d.op = "addWallet" => d.on \in Wallet
           /\ d.op = "invite" => d.on \in MailList
BY SocialConstants DEF Deed

\* Giving one request a new state touches no other's.
LEMMA CallFacts ==
    ASSUME Typed, NEW c \in Call, NEW s \in CallState, Shape(s),
           calls' = [calls EXCEPT ![c] = s]
    PROVE  /\ calls' \in [Call -> CallState] /\ calls'[c] = s
           /\ \A d \in Call \ {c} : calls'[d] = calls[d]
           /\ \A d \in Call : Shape(calls'[d])
BY DEF Typed, TypeOK

\* What a running request may become.
LEMMA StageFacts ==
    ASSUME NEW s \in CallState, Shape(s), s.stage # "idle"
    PROVE  /\ \A a \in {"none", "null", "true", "false"}, w \in SUBSET Wallet :
                 /\ [s EXCEPT !.stage = "done", !.answer = a] \in CallState
                 /\ Shape([s EXCEPT !.stage = "done", !.answer = a])
                 /\ [s EXCEPT !.stage = "done", !.tweet = w, !.answer = a] \in CallState
                 /\ Shape([s EXCEPT !.stage = "done", !.tweet = w, !.answer = a])
           /\ s.stage \in Running => \A st \in {"failed", "lost"} :
                 [s EXCEPT !.stage = st] \in CallState /\ Shape([s EXCEPT !.stage = st])
BY DEF CallState, Shape, Running

\* An answered request.
LEMMA AnswerFacts ==
    ASSUME Typed, NEW c \in Call, calls[c].stage # "idle",
           NEW a \in {"none", "null", "true", "false"}, Answers(c, a)
    PROVE  /\ calls' \in [Call -> CallState]
           /\ calls'[c] = [calls[c] EXCEPT !.stage = "done", !.answer = a]
           /\ \A d \in Call \ {c} : calls'[d] = calls[d]
           /\ \A d \in Call : Shape(calls'[d])
<1>1. calls[c] \in CallState /\ Shape(calls[c])
  BY DEF Typed, TypeOK
<1>2. calls' = [calls EXCEPT ![c] = [calls[c] EXCEPT !.stage = "done", !.answer = a]]
  BY DEF Answers
<1> QED
  BY <1>1, <1>2, StageFacts, CallFacts

\* A document written to one account.
LEMMA EditFacts ==
    ASSUME Typed, NEW u \in User, NEW doc \in UserDoc, users' = [users EXCEPT ![u] = doc]
    PROVE  /\ users' \in [User -> UserDoc] /\ users'[u] = doc
           /\ \A v \in User \ {u} : users'[v] = users[v]
BY DEF Typed, TypeOK

\* The fields of an account that an operation replaces.
LEMMA DocFacts ==
    ASSUME NEW doc \in UserDoc
    PROVE  /\ \A x \in SUBSET [nft: Nft, addedAt: Time] : [doc EXCEPT !.bookmarks = x] \in UserDoc
           /\ \A x \in SUBSET [nft: Nft, addedAt: Time] :
                 [doc EXCEPT !.bookmarks = x, !.bookmarkIds = {}] \in UserDoc
           /\ \A x \in SUBSET User : [doc EXCEPT !.followerIds = x] \in UserDoc
           /\ \A x \in SUBSET [walletId: Wallet, date: Time] : [doc EXCEPT !.wallets = x] \in UserDoc
           /\ \A x \in MailList : [doc EXCEPT !.inviteFriends = x] \in UserDoc
           /\ \A x \in BOOLEAN : [doc EXCEPT !.twitterVerified = x] \in UserDoc
           /\ \A x \in Time : [doc EXCEPT !.lastActivity = x] \in UserDoc
BY DEF UserDoc

\* The server's states.
LEMMA ServerFacts ==
    /\ 0 \in Time
    /\ \A m \in {"down", "migrating", "serving"} : Idle(m) \in Server
    /\ \A t \in Time : [mode |-> "migrating", todo |-> User, since |-> t] \in Server
<1>1. 0 \in Time
  BY SocialConstants DEF Time
<1> QED
  BY <1>1 DEF Server, Idle

LEMMA TypedInit ==
    ASSUME Init
    PROVE  Typed
<1>1. users \in [User -> UserDoc]
  <2> SUFFICES ASSUME NEW e \in Earlier(changelog, clock)
               PROVE  e \in UserDoc
    BY DEF Init
  <2>1. 0 .. clock \subseteq Time
    BY SocialConstants DEF Init, Time
  <2>2. e.bookmarkIds \in SUBSET Nft
    BY DEF Earlier
  <2>3. e.bookmarks \in SUBSET [nft: Nft, addedAt: Time]
    <3>1. CASE changelog
      <4>1. e.bookmarks \in SUBSET [nft: Nft, addedAt: 0 .. clock]
        BY <3>1 DEF Earlier
      <4> QED
        BY <2>1, <4>1
    <3>2. CASE ~changelog
      BY <3>2 DEF Earlier
    <3> QED
      BY <3>1, <3>2
  <2>4. /\ e = [bookmarkIds |-> e.bookmarkIds, bookmarks |-> e.bookmarks,
                 followerIds |-> e.followerIds, wallets |-> e.wallets,
                 inviteFriends |-> e.inviteFriends, twitterVerified |-> e.twitterVerified,
                 lastActivity |-> e.lastActivity]
           /\ e.followerIds = {} /\ e.wallets = {} /\ e.inviteFriends = NoList
           /\ e.twitterVerified = FALSE /\ e.lastActivity = 0
    BY DEF Earlier
  <2>5. /\ e.followerIds \in SUBSET User /\ e.wallets \in SUBSET [walletId: Wallet, date: Time]
        /\ e.inviteFriends \in MailList \cup {NoList} /\ e.twitterVerified \in BOOLEAN
        /\ e.lastActivity \in Time
    BY <2>4, ServerFacts
  <2> QED
    BY <2>2, <2>3, <2>4, <2>5 DEF UserDoc
<1>2. calls \in [Call -> CallState] /\ \A c \in Call : Shape(calls[c])
  BY ServerFacts DEF Init, CallState, Shape
<1>3. faults \in 0 .. MaxFaults /\ exits \in 0 .. MaxExits
  BY SocialConstants DEF Init
<1> QED
  BY <1>1, <1>2, <1>3, ServerFacts DEF Init, Typed, TypeOK

\* Every action keeps the types.
LEMMA TypedStep ==
    ASSUME Typed, [Next]_socialVars
    PROVE  Typed'
<1>0. /\ users \in [User -> UserDoc] /\ calls \in [Call -> CallState] /\ clock \in Time
      /\ \A c \in Call : Shape(calls[c])
  BY DEF Typed, TypeOK
<1>1. CASE Start
  BY <1>0, <1>1, ServerFacts DEF Start, Typed, TypeOK
<1>2. ASSUME NEW u \in User, MigrateUser(u)
      PROVE  Typed'
  <2> DEFINE made == {[nft |-> n, addedAt |-> server.since] : n \in users[u].bookmarkIds}
  <2>1. made \in SUBSET [nft: Nft, addedAt: Time]
    BY <1>0 DEF Typed, TypeOK, Server, UserDoc
  <2>2. users' = [users EXCEPT ![u] = [users[u] EXCEPT !.bookmarks = made, !.bookmarkIds = {}]]
    BY <1>0, <1>2 DEF MigrateUser, UserDoc
  <2>3. users' \in [User -> UserDoc]
    BY <1>0, <2>1, <2>2, DocFacts, EditFacts
  <2> HIDE DEF made
  <2>4. server' \in Server
    BY <1>2 DEF MigrateUser, Typed, TypeOK, Server
  <2> QED
    BY <1>2, <2>3, <2>4 DEF MigrateUser, Typed, TypeOK
<1>3. CASE FinishMigration
  BY <1>3, ServerFacts DEF FinishMigration, Typed, TypeOK
<1>4. ASSUME NEW c \in Call, NEW d \in Deed, Arrive(c, d)
      PROVE  Typed'
  <2> DEFINE st == IF d.op \in {"invite", "verifyTwitter"} THEN "read" ELSE "write"
             s == [calls[c] EXCEPT !.deed = d, !.now = clock, !.stage = st]
  <2>1. calls[c] \in CallState /\ st \in {"read", "write"} /\ calls[c].answer = "none"
    BY <1>0, <1>4 DEF Arrive, Shape
  <2>2. s \in CallState /\ Shape(s)
    BY <1>0, <2>1 DEF CallState, Running, Shape
  <2>3. calls' = [calls EXCEPT ![c] = s]
    BY <1>4 DEF Arrive
  <2>4. calls' \in [Call -> CallState] /\ \A e \in Call : Shape(calls'[e])
    BY <2>2, <2>3, CallFacts
  <2> QED
    BY <1>4, <2>4 DEF Arrive, Typed, TypeOK
<1>5. ASSUME NEW c \in Call, Follow(c) \/ Unfollow(c)
      PROVE  Typed'
  <2> DEFINE d == calls[c].deed
  <2>1. /\ calls[c].stage = "write" /\ d \in Deed /\ d.by \in User
        /\ calls[c] \in CallState
    BY <1>0, <1>5, DeedFacts DEF Follow, Unfollow, At, Shape
  <2>2. calls' \in [Call -> CallState] /\ \A e \in Call : Shape(calls'[e])
    BY <1>5, <2>1, AnswerFacts DEF Follow, Unfollow
  <2>3. users' \in [User -> UserDoc]
    <3>1. CASE d.on \in User
      <4>1. users[d.on] \in UserDoc /\ users[d.on].followerIds \in SUBSET User
        BY <1>0, <3>1 DEF UserDoc
      <4>2. PICK x \in SUBSET User :
               users' = [users EXCEPT ![d.on] = [users[d.on] EXCEPT !.followerIds = x]]
        BY <1>5, <2>1, <3>1, <4>1 DEF Follow, Unfollow, Edit
      <4> QED
        BY <3>1, <4>1, <4>2, DocFacts, EditFacts
    <3>2. CASE d.on \notin User
      BY <1>0, <1>5, <3>2 DEF Follow, Unfollow, Edit
    <3> QED
      BY <3>1, <3>2
  <2> QED
    BY <1>5, <2>2, <2>3 DEF Follow, Unfollow, Typed, TypeOK
<1>6. ASSUME NEW c \in Call, AddToBookmark(c) \/ RemoveFromBookmark(c) \/ StoreInvites(c)
      PROVE  Typed'
  <2> DEFINE d == calls[c].deed
  <2>1. /\ calls[c].stage = "write" /\ d \in Deed /\ d.by \in User
        /\ calls[c] \in CallState /\ calls[c].now \in Time
        /\ users[d.by] \in UserDoc /\ users[d.by].bookmarks \in SUBSET [nft: Nft, addedAt: Time]
    BY <1>0, <1>6, DeedFacts DEF AddToBookmark, RemoveFromBookmark, StoreInvites, At, Shape,
       CallState, UserDoc
  <2>2. calls' \in [Call -> CallState] /\ \A e \in Call : Shape(calls'[e])
    BY <1>6, <2>1, AnswerFacts DEF AddToBookmark, RemoveFromBookmark, StoreInvites
  <2>3. CASE AddToBookmark(c)
    <3>1. d.on \in Nft
      BY <2>1, <2>3, DeedFacts DEF AddToBookmark, At
    <3>2. users[d.by].bookmarks \cup {[nft |-> d.on, addedAt |-> calls[c].now]}
             \in SUBSET [nft: Nft, addedAt: Time]
      BY <2>1, <3>1
    <3>3. users' = [users EXCEPT ![d.by] = [users[d.by] EXCEPT !.bookmarks =
              users[d.by].bookmarks \cup {[nft |-> d.on, addedAt |-> calls[c].now]}]]
      BY <1>0, <2>1, <2>3 DEF AddToBookmark
    <3> QED
      BY <2>1, <2>2, <2>3, <3>2, <3>3, DocFacts, EditFacts DEF AddToBookmark, Typed, TypeOK
  <2>4. CASE RemoveFromBookmark(c)
    <3>1. users' = [users EXCEPT ![d.by] = [users[d.by] EXCEPT !.bookmarks =
              {b \in users[d.by].bookmarks : b.nft # d.on}]]
      BY <1>0, <2>1, <2>4 DEF RemoveFromBookmark
    <3>2. {b \in users[d.by].bookmarks : b.nft # d.on} \in SUBSET [nft: Nft, addedAt: Time]
      BY <2>1
    <3> QED
      BY <2>1, <2>2, <2>4, <3>1, <3>2, DocFacts, EditFacts DEF RemoveFromBookmark, Typed, TypeOK
  <2>5. CASE StoreInvites(c)
    <3>1. d.on \in MailList
      BY <2>1, <2>5, DeedFacts DEF StoreInvites, At
    <3>2. users' = [users EXCEPT ![d.by] = [users[d.by] EXCEPT !.inviteFriends = d.on]]
      BY <1>0, <2>1, <2>5 DEF StoreInvites
    <3> QED
      BY <2>1, <2>2, <2>5, <3>1, <3>2, DocFacts, EditFacts DEF StoreInvites, Typed, TypeOK
  <2> QED
    BY <1>6, <2>3, <2>4, <2>5
<1>7. ASSUME NEW c \in Call, AddWallet(c)
      PROVE  Typed'
  <2> DEFINE d == calls[c].deed
             more == users[d.by].wallets \cup {[walletId |-> d.on, date |-> calls[c].now]}
  <2>1. /\ calls[c].stage = "write" /\ d \in Deed /\ d.by \in User /\ d.on \in Wallet
        /\ calls[c] \in CallState /\ calls[c].now \in Time
        /\ users[d.by] \in UserDoc /\ users[d.by].wallets \in SUBSET [walletId: Wallet, date: Time]
    BY <1>0, <1>7, DeedFacts DEF AddWallet, At, Shape, CallState, UserDoc
  <2>2. calls' \in [Call -> CallState] /\ \A e \in Call : Shape(calls'[e])
    BY <1>7, <2>1, AnswerFacts DEF AddWallet
  <2>3. more \in SUBSET [walletId: Wallet, date: Time]
    BY <2>1
  <2>4. \/ users' = users
        \/ users' = [users EXCEPT ![d.by] = [users[d.by] EXCEPT !.wallets = more]]
    BY <1>0, <1>7, <2>1 DEF AddWallet
  <2> HIDE DEF more
  <2>5. users' \in [User -> UserDoc]
    BY <1>0, <2>1, <2>3, <2>4, DocFacts, EditFacts
  <2>6. writes' \subseteq Write
    BY <1>0, <1>7, <2>1 DEF AddWallet, Issue, Write, Typed, TypeOK
  <2> QED
    BY <1>7, <2>2, <2>5, <2>6 DEF AddWallet, Typed, TypeOK
<1>8. ASSUME NEW c \in Call, ReadUser(c)
      PROVE  Typed'
  <2> DEFINE s == [calls[c] EXCEPT !.known = Linked(calls[c].deed.by), !.stage = "ask"]
  <2>1. /\ calls[c] \in CallState /\ calls[c].stage = "read" /\ Shape(calls[c])
        /\ calls[c].deed.by \in User
    BY <1>0, <1>8, DeedFacts DEF ReadUser, Shape
  <2>2. Linked(calls[c].deed.by) \subseteq Wallet
    BY <1>0, <2>1 DEF Linked, UserDoc
  <2>3. s \in CallState /\ Shape(s)
    BY <2>1, <2>2 DEF CallState, Running, Shape
  <2>4. calls' = [calls EXCEPT ![c] = s]
    BY <1>8 DEF ReadUser
  <2>5. calls' \in [Call -> CallState] /\ \A e \in Call : Shape(calls'[e])
    BY <2>3, <2>4, CallFacts
  <2> QED
    BY <1>8, <2>5 DEF ReadUser, Typed, TypeOK
<1>9. ASSUME NEW c \in Call, PostInvites(c)
      PROVE  Typed'
  <2> DEFINE s == [calls[c] EXCEPT !.stage = "write"]
  <2>1. /\ calls[c] \in CallState /\ calls[c].stage = "ask" /\ Shape(calls[c])
        /\ calls[c].deed \in Deed /\ calls[c].deed.op = "invite"
    BY <1>0, <1>9 DEF PostInvites, At, Shape
  <2>2. s \in CallState /\ Shape(s)
    BY <2>1 DEF CallState, Running, Shape
  <2>3. calls' = [calls EXCEPT ![c] = s]
    BY <1>9 DEF PostInvites, Goes
  <2>4. calls' \in [Call -> CallState] /\ \A e \in Call : Shape(calls'[e])
    BY <2>2, <2>3, CallFacts
  <2>5. posted' \subseteq (User \X MailList)
    BY <1>9, <2>1, DeedFacts DEF PostInvites, Typed, TypeOK
  <2> QED
    BY <1>9, <2>4, <2>5 DEF PostInvites, Typed, TypeOK
<1>10. ASSUME NEW c \in Call, AskTwitter(c)
       PROVE  Typed'
  <2>1. /\ calls[c] \in CallState /\ calls[c].stage = "ask" /\ Shape(calls[c])
        /\ calls[c].deed \in Deed /\ calls[c].deed.by \in User
    BY <1>0, <1>10, DeedFacts DEF AskTwitter, At, Shape
  <2>2. PICK tweet \in SUBSET Wallet : LET v == tweet \cap calls[c].known # {}
                                       IN  Verdict(c, tweet, v) /\ Issue(c, "twitterVerified", v)
    BY <1>10 DEF AskTwitter
  <2> DEFINE v == tweet \cap calls[c].known # {}
             a == IF v THEN "true" ELSE "false"
             s == [calls[c] EXCEPT !.stage = "done", !.tweet = tweet, !.answer = a]
  <2>3. calls' = [calls EXCEPT ![c] = s]
    BY <2>2 DEF Verdict
  <2>4. s \in CallState /\ Shape(s)
    BY <2>1, StageFacts
  <2>5. calls' \in [Call -> CallState] /\ \A e \in Call : Shape(calls'[e])
    BY <2>3, <2>4, CallFacts
  <2>6. writes' \subseteq Write
    <3>1. v \in BOOLEAN
      OBVIOUS
    <3>2. writes' = writes \cup {[call |-> c, by |-> calls[c].deed.by,
                                  field |-> "twitterVerified", value |-> v]}
      BY <2>2 DEF Issue
    <3> HIDE DEF v
    <3> QED
      BY <2>1, <3>1, <3>2 DEF Write, Typed, TypeOK
  <2> QED
    BY <1>10, <2>5, <2>6 DEF AskTwitter, Typed, TypeOK
<1>11. ASSUME NEW w \in writes, Land(w)
       PROVE  Typed'
  <2>1. w \in Write /\ w.by \in User /\ users[w.by] \in UserDoc
    BY <1>0 DEF Typed, TypeOK, Write
  <2>2. \/ w.field = "lastActivity" /\ w.value \in Time
        \/ w.field = "twitterVerified" /\ w.value \in BOOLEAN
    BY <2>1 DEF Write
  <2>3. users' \in [User -> UserDoc]
    <3>1. CASE w.field = "lastActivity"
      <4>1. users' = [users EXCEPT ![w.by] = [users[w.by] EXCEPT !.lastActivity = w.value]]
        BY <1>11, <3>1 DEF Land
      <4> QED
        BY <2>1, <2>2, <3>1, <4>1, DocFacts, EditFacts
    <3>2. CASE w.field = "twitterVerified"
      <4>1. users' = [users EXCEPT ![w.by] = [users[w.by] EXCEPT !.twitterVerified = w.value]]
        BY <1>11, <3>2 DEF Land
      <4> QED
        BY <2>1, <2>2, <3>2, <4>1, DocFacts, EditFacts
    <3> QED
      BY <2>2, <3>1, <3>2
  <2> QED
    BY <1>11, <2>3 DEF Land, Typed, TypeOK
<1>12. ASSUME NEW c \in Call, Fail(c)
       PROVE  Typed'
  <2>1. /\ calls[c] \in CallState /\ Shape(calls[c])
        /\ calls[c].stage \in Running /\ calls[c].stage # "idle"
    BY <1>0, <1>12 DEF Fail, Running
  <2>2. calls' = [calls EXCEPT ![c] = [calls[c] EXCEPT !.stage = "failed"]]
    BY <1>12 DEF Fail, Goes
  <2>3. calls' \in [Call -> CallState] /\ \A e \in Call : Shape(calls'[e])
    BY <2>1, <2>2, StageFacts, CallFacts
  <2> QED
    BY <1>12, <2>3, SocialConstants DEF Fail, Typed, TypeOK
<1>13. ASSUME NEW w \in writes, RejectWrite(w)
       PROVE  Typed'
  <2>1. w.call \in Call
    BY DEF Typed, TypeOK, Write
  <2> QED
    BY <1>13, <2>1, SocialConstants DEF RejectWrite, Typed, TypeOK
<1>14. CASE Exit
  <2>1. calls' \in [Call -> CallState] /\ \A e \in Call : Shape(calls'[e])
    <3>1. \A e \in Call : calls[e].stage \in Running =>
             [calls[e] EXCEPT !.stage = "lost"] \in CallState
               /\ Shape([calls[e] EXCEPT !.stage = "lost"])
      BY <1>0, StageFacts DEF Running
    <3> QED
      BY <1>0, <1>14, <3>1 DEF Exit
  <2>2. \A w \in writes : w.call \in Call
    BY DEF Typed, TypeOK, Write
  <2> QED
    BY <1>14, <2>1, <2>2, SocialConstants DEF Exit, Typed, TypeOK, Server, Idle, Time
<1>15. CASE Tick
  BY <1>15, SocialConstants DEF Tick, Typed, TypeOK, Time
<1>16. CASE UNCHANGED socialVars
  BY <1>16 DEF socialVars, Typed, TypeOK
<1> QED
  BY <1>1, <1>2, <1>3, <1>4, <1>5, <1>6, <1>7, <1>8, <1>9, <1>10, <1>11, <1>12, <1>13, <1>14,
     <1>15, <1>16 DEF Next, Startup, Serve

\* Documents, requests and pending updates keep their types.
THEOREM SocialTyped == Spec => []TypeOK
<1>1. Init => Typed
  BY TypedInit
<1>2. Typed /\ [Next]_socialVars => Typed'
  BY TypedStep
<1>3. Typed => TypeOK
  BY DEF Typed
<1> QED
  BY <1>1, <1>2, <1>3, PTL DEF Spec

-----------------------------------------------------------------------------
(* What a step changes of the accounts and of answered requests *)

WalletsSame == \A u \in User : users'[u].wallets = users[u].wallets
InvitesSame == \A u \in User : users'[u].inviteFriends = users[u].inviteFriends
VerifiedSame == \A u \in User : users'[u].twitterVerified = users[u].twitterVerified

LEMMA FrameStep ==
    ASSUME Typed, [Next]_socialVars
    PROVE  /\ WalletsSame \/ \E c \in Call : AddWallet(c)
           /\ InvitesSame \/ \E c \in Call : StoreInvites(c)
           /\ VerifiedSame \/ \E w \in writes : Land(w) /\ w.field = "twitterVerified"
<1> DEFINE AllSame == WalletsSame /\ InvitesSame /\ VerifiedSame
<1>0. users \in [User -> UserDoc] /\ \A c \in Call : Shape(calls[c])
  BY DEF Typed, TypeOK
<1>1. \/ Start \/ FinishMigration \/ Exit \/ Tick
      \/ \E c \in Call : \/ ReadUser(c) \/ PostInvites(c) \/ AskTwitter(c) \/ Fail(c)
                         \/ \E d \in Deed : Arrive(c, d)
      \/ \E w \in writes : RejectWrite(w)
      \/ UNCHANGED socialVars
      => AllSame
  BY DEF Start, FinishMigration, Exit, Tick, ReadUser, PostInvites, AskTwitter, Fail, Arrive,
     RejectWrite, socialVars, WalletsSame, InvitesSame, VerifiedSame
<1>2. ASSUME NEW u \in User, MigrateUser(u)
      PROVE  AllSame
  BY <1>0, <1>2 DEF MigrateUser, WalletsSame, InvitesSame, VerifiedSame, UserDoc
<1>3. ASSUME NEW c \in Call, Follow(c) \/ Unfollow(c)
      PROVE  AllSame
  <2>1. CASE calls[c].deed.on \in User
    BY <1>0, <1>3, <2>1 DEF Follow, Unfollow, Edit, WalletsSame, InvitesSame, VerifiedSame, UserDoc
  <2>2. CASE calls[c].deed.on \notin User
    BY <1>0, <1>3, <2>2 DEF Follow, Unfollow, Edit, WalletsSame, InvitesSame, VerifiedSame
  <2> QED
    BY <2>1, <2>2
<1>4. ASSUME NEW c \in Call, AddToBookmark(c) \/ RemoveFromBookmark(c)
      PROVE  AllSame
  BY <1>0, <1>4 DEF AddToBookmark, RemoveFromBookmark, WalletsSame, InvitesSame, VerifiedSame, UserDoc
<1>5. ASSUME NEW c \in Call, AddWallet(c)
      PROVE  InvitesSame /\ VerifiedSame
  BY <1>0, <1>5 DEF AddWallet, InvitesSame, VerifiedSame, UserDoc
<1>6. ASSUME NEW c \in Call, StoreInvites(c)
      PROVE  WalletsSame /\ VerifiedSame
  BY <1>0, <1>6 DEF StoreInvites, WalletsSame, VerifiedSame, UserDoc
<1>7. ASSUME NEW w \in writes, Land(w)
      PROVE  WalletsSame /\ InvitesSame /\ (VerifiedSame \/ w.field = "twitterVerified")
  <2>1. w.field \in {"lastActivity", "twitterVerified"}
    BY DEF Typed, TypeOK, Write
  <2>2. CASE w.field = "lastActivity"
    BY <1>0, <1>7, <2>2 DEF Land, WalletsSame, InvitesSame, VerifiedSame, UserDoc
  <2>3. CASE w.field = "twitterVerified"
    BY <1>0, <1>7, <2>3 DEF Land, WalletsSame, InvitesSame, UserDoc
  <2> QED
    BY <2>1, <2>2, <2>3
<1> HIDE DEF AllSame
<1>8. AllSame => WalletsSame /\ InvitesSame /\ VerifiedSame
  BY DEF AllSame
<1> QED
  BY <1>1, <1>2, <1>3, <1>4, <1>5, <1>6, <1>7, <1>8 DEF Next, Startup, Serve

\* What addWallet does to the accounts.
LEMMA AddWalletFacts ==
    ASSUME Typed, NEW c \in Call, AddWallet(c)
    PROVE  \E u \in User, w \in [walletId: Wallet, date: Time] :
              /\ w.walletId = calls[c].deed.on /\ u = calls[c].deed.by
              /\ \A v \in User \ {u} : users'[v].wallets = users[v].wallets
              /\ \/ users'[u].wallets = users[u].wallets
                 \/ /\ w.walletId \notin Linked(u)
                    /\ users'[u].wallets = users[u].wallets \cup {w}
<1> DEFINE d == calls[c].deed
           w == [walletId |-> d.on, date |-> calls[c].now]
<1>1. /\ d \in Deed /\ d.by \in User /\ d.on \in Wallet /\ calls[c].now \in Time
      /\ users \in [User -> UserDoc]
  BY DeedFacts DEF AddWallet, At, Typed, TypeOK, Shape, CallState
<1>2. w \in [walletId: Wallet, date: Time] /\ w.walletId = d.on
  BY <1>1
<1>3. \A v \in User \ {d.by} : users'[v].wallets = users[v].wallets
  BY <1>1 DEF AddWallet
<1>4. \/ users'[d.by].wallets = users[d.by].wallets
      \/ d.on \notin Linked(d.by) /\ users'[d.by].wallets = users[d.by].wallets \cup {w}
  BY <1>1 DEF AddWallet, UserDoc
<1> HIDE DEF w
<1> QED
  BY <1>1, <1>2, <1>3, <1>4

\* No wallet is ever unlinked.
LEMMA LinkedGrows ==
    ASSUME Typed, [Next]_socialVars, NEW u \in User
    PROVE  Linked(u) \subseteq Linked(u)'
<1>1. users[u].wallets \subseteq users'[u].wallets
  BY FrameStep, AddWalletFacts DEF WalletsSame
<1> QED
  BY <1>1 DEF Linked

\* No step changes a request that has an answer.
LEMMA AnswersStay ==
    ASSUME Typed, [Next]_socialVars, NEW c \in Call, calls[c].answer # "none"
    PROVE  calls'[c] = calls[c]
<1>1. calls \in [Call -> CallState] /\ calls[c].stage = "done"
  BY DEF Typed, TypeOK, Shape
<1>2. ASSUME NEW b \in Call, NEW s, calls' = [calls EXCEPT ![b] = s], calls[b].stage # "done"
      PROVE  calls'[c] = calls[c]
  BY <1>1, <1>2
<1>3. ASSUME NEW b \in Call, NEW d \in Deed, Arrive(b, d)
      PROVE  calls'[c] = calls[c]
  BY <1>1, <1>3 DEF Arrive
<1>4. ASSUME NEW b \in Call, Serve(b) \/ Fail(b)
      PROVE  calls'[c] = calls[c]
  <2>1. calls[b].stage # "done"
    BY <1>4 DEF Serve, Fail, Running, Follow, Unfollow, AddToBookmark, RemoveFromBookmark,
       AddWallet, ReadUser, PostInvites, StoreInvites, AskTwitter, At
  <2> QED
    BY <1>1, <1>4, <2>1 DEF Serve, Fail, Follow, Unfollow, AddToBookmark, RemoveFromBookmark,
       AddWallet, ReadUser, PostInvites, StoreInvites, AskTwitter, Answers, Goes, Verdict
<1>5. CASE Exit
  BY <1>1, <1>5 DEF Exit, Running
<1>6. CASE UNCHANGED calls
  BY <1>6
<1>7. \/ Startup \/ Tick \/ UNCHANGED socialVars
      \/ \E w \in writes : Land(w) \/ RejectWrite(w)
      => UNCHANGED calls
  BY DEF Startup, Start, MigrateUser, FinishMigration, Tick, socialVars, Land, RejectWrite
<1> QED
  BY <1>3, <1>4, <1>5, <1>6, <1>7 DEF Next

\* The stage that each step of a request leads to.
LEMMA StepEnds ==
    ASSUME Typed, NEW c \in Call
    PROVE  /\ \/ Follow(c) \/ Unfollow(c) \/ AddToBookmark(c) \/ RemoveFromBookmark(c)
              \/ AddWallet(c) \/ StoreInvites(c) \/ AskTwitter(c)
              => calls'[c].stage = "done"
           /\ ReadUser(c) => calls'[c].stage = "ask"
           /\ PostInvites(c) => calls'[c].stage = "write"
           /\ Fail(c) => calls'[c].stage = "failed"
<1>1. calls \in [Call -> CallState]
  BY DEF Typed, TypeOK
<1>2. ASSUME NEW a, Answers(c, a)
      PROVE  calls'[c].stage = "done"
  BY <1>1, <1>2 DEF Answers, CallState
<1>3. ASSUME AskTwitter(c)
      PROVE  calls'[c].stage = "done"
  BY <1>1, <1>3 DEF AskTwitter, Verdict, CallState
<1>4. ASSUME NEW st, Goes(c, st)
      PROVE  calls'[c].stage = st
  BY <1>1, <1>4 DEF Goes, CallState
<1>5. ASSUME ReadUser(c)
      PROVE  calls'[c].stage = "ask"
  BY <1>1, <1>5 DEF ReadUser, CallState
<1>6. ASSUME \/ Follow(c) \/ Unfollow(c) \/ AddToBookmark(c) \/ RemoveFromBookmark(c)
             \/ AddWallet(c) \/ StoreInvites(c)
      PROVE  \E a : Answers(c, a)
  BY <1>6 DEF Follow, Unfollow, AddToBookmark, RemoveFromBookmark, AddWallet, StoreInvites
<1>7. PostInvites(c) => Goes(c, "write")
  BY DEF PostInvites
<1>8. Fail(c) => Goes(c, "failed")
  BY DEF Fail
<1> QED
  BY <1>2, <1>3, <1>4, <1>5, <1>6, <1>7, <1>8

-----------------------------------------------------------------------------
(* Wallets *)

LEMMA WalletStep ==
    ASSUME Typed, WalletOnce, [Next]_socialVars
    PROVE  WalletOnce'
<1>1. CASE WalletsSame
  BY <1>1 DEF WalletsSame, WalletOnce
<1>2. ASSUME NEW c \in Call, AddWallet(c)
      PROVE  WalletOnce'
  <2>1. PICK u \in User, w \in [walletId: Wallet, date: Time] :
              /\ \A v \in User \ {u} : users'[v].wallets = users[v].wallets
              /\ \/ users'[u].wallets = users[u].wallets
                 \/ /\ w.walletId \notin Linked(u)
                    /\ users'[u].wallets = users[u].wallets \cup {w}
    BY <1>2, AddWalletFacts
  <2>2. \A x, y \in users'[u].wallets : x.walletId = y.walletId => x = y
    BY <2>1 DEF WalletOnce, Linked
  <2> QED
    BY <2>1, <2>2 DEF WalletOnce
<1> QED
  BY <1>1, <1>2, FrameStep

\* No user ever has one wallet twice, however many addWallet calls race.
THEOREM WalletsOnce == Spec => []WalletOnce
<1>1. Init => Typed /\ WalletOnce
  <2>1. Init => \A u \in User : users[u].wallets = {}
    BY DEF Init, Earlier
  <2> QED
    BY <2>1, TypedInit DEF WalletOnce
<1>2. Typed /\ WalletOnce /\ [Next]_socialVars => (Typed /\ WalletOnce)'
  BY TypedStep, WalletStep
<1> QED
  BY <1>1, <1>2, PTL DEF Spec

-----------------------------------------------------------------------------
(* Invitations *)

\* Who is about to store a list has mailed it.
MailedFirst ==
    \A c \in Call : calls[c].stage = "write" /\ calls[c].deed.op = "invite"
        => <<calls[c].deed.by, calls[c].deed.on>> \in posted

LEMMA InviteStep ==
    ASSUME Typed, MailedFirst, InviteesWereMailed, [Next]_socialVars
    PROVE  MailedFirst' /\ InviteesWereMailed'
<1>0. calls \in [Call -> CallState] /\ users \in [User -> UserDoc]
      /\ \A c \in Call : Shape(calls[c])
  BY DEF Typed, TypeOK
<1>1. posted \subseteq posted'
  BY DEF Next, Startup, Start, MigrateUser, FinishMigration, Serve, Follow, Unfollow,
     AddToBookmark, RemoveFromBookmark, AddWallet, ReadUser, PostInvites, StoreInvites,
     AskTwitter, Fail, Arrive, Land, RejectWrite, Exit, Tick, socialVars
<1>2. MailedFirst'
  <2> SUFFICES ASSUME NEW c \in Call, calls'[c].stage = "write", calls'[c].deed.op = "invite"
               PROVE  <<calls'[c].deed.by, calls'[c].deed.on>> \in posted'
    BY DEF MailedFirst
  <2>1. CASE calls'[c] = calls[c]
    BY <1>1, <2>1 DEF MailedFirst
  <2>2. CASE PostInvites(c)
    BY <1>0, <2>2 DEF PostInvites, Goes, CallState
  <2>3. ASSUME NEW d \in Deed, Arrive(c, d)
        PROVE  FALSE
    BY <1>0, <2>3 DEF Arrive, CallState
  <2>4. CASE \/ Follow(c) \/ Unfollow(c) \/ AddToBookmark(c) \/ RemoveFromBookmark(c)
             \/ AddWallet(c) \/ ReadUser(c) \/ StoreInvites(c) \/ AskTwitter(c) \/ Fail(c)
    <3>1. calls'[c].stage \in {"done", "ask", "failed"}
      BY <1>0, <2>4, StepEnds
    <3> QED
      BY <3>1
  <2>5. ASSUME NEW b \in Call, b # c, Serve(b) \/ Fail(b) \/ \E d \in Deed : Arrive(b, d)
        PROVE  calls'[c] = calls[c]
    BY <1>0, <2>5 DEF Serve, Fail, Arrive, Follow, Unfollow, AddToBookmark, RemoveFromBookmark,
       AddWallet, ReadUser, PostInvites, StoreInvites, AskTwitter, Answers, Goes, Verdict
  <2>6. CASE Exit
    BY <1>0, <2>1, <2>6 DEF Exit, CallState
  <2>7. \/ Startup \/ Tick \/ UNCHANGED socialVars
        \/ \E w \in writes : Land(w) \/ RejectWrite(w)
        => calls'[c] = calls[c]
    BY DEF Startup, Start, MigrateUser, FinishMigration, Tick, socialVars, Land, RejectWrite
  <2> QED
    BY <2>1, <2>2, <2>3, <2>4, <2>5, <2>6, <2>7 DEF Next, Serve
<1>3. InviteesWereMailed'
  <2>1. CASE InvitesSame
    BY <1>1, <2>1 DEF InvitesSame, InviteesWereMailed
  <2>2. ASSUME NEW c \in Call, StoreInvites(c)
        PROVE  InviteesWereMailed'
    <3> DEFINE d == calls[c].deed
    <3>1. d.by \in User /\ <<d.by, d.on>> \in posted
      BY <1>0, <2>2, DeedFacts DEF StoreInvites, At, Shape, MailedFirst
    <3>2. \A v \in User : users'[v].inviteFriends = IF v = d.by THEN d.on ELSE users[v].inviteFriends
      BY <1>0, <2>2, <3>1 DEF StoreInvites, UserDoc
    <3> QED
      BY <1>1, <3>1, <3>2 DEF InviteesWereMailed
  <2> QED
    BY <2>1, <2>2, FrameStep
<1> QED
  BY <1>2, <1>3

\* A stored list of invitations was mailed.
THEOREM InviteesMailed == Spec => []InviteesWereMailed
<1>1. Init => Typed /\ MailedFirst /\ InviteesWereMailed
  <2>1. Init => \A u \in User : users[u].inviteFriends = NoList
    BY DEF Init, Earlier
  <2>2. Init => \A c \in Call : calls[c].stage = "idle"
    BY DEF Init
  <2> QED
    BY <2>1, <2>2, TypedInit DEF MailedFirst, InviteesWereMailed
<1>2. Typed /\ MailedFirst /\ InviteesWereMailed /\ [Next]_socialVars
        => (Typed /\ MailedFirst /\ InviteesWereMailed)'
  BY TypedStep, InviteStep
<1> QED
  BY <1>1, <1>2, PTL DEF Spec

-----------------------------------------------------------------------------
(* Verification *)

\* Request c told u to be verified, of a wallet that u has.
Shows(c, u) ==
    /\ calls[c].deed \in Deed
    /\ calls[c].deed.op = "verifyTwitter" /\ calls[c].deed.by = u
    /\ calls[c].answer = "true"
    /\ calls[c].tweet \cap Linked(u) # {}

\* What an update that has not landed says was shown, and what a request has
\* read of an account is still there.
Pending ==
    /\ \A w \in writes : w.field = "twitterVerified" /\ w.value = TRUE => Shows(w.call, w.by)
    /\ \A c \in Call : calls[c].stage = "ask" => calls[c].known \subseteq Linked(calls[c].deed.by)

Shown == \A u \in User : users[u].twitterVerified => \E c \in Call : Shows(c, u)

\* The update that a verdict issues.
LEMMA IssueFacts ==
    ASSUME NEW c \in Call, NEW v \in BOOLEAN, Issue(c, "twitterVerified", v)
    PROVE  \E x : /\ writes' = writes \cup {x} /\ (x.value = TRUE => v)
                  /\ x.call = c /\ x.by = calls[c].deed.by
<1> DEFINE x == [call |-> c, by |-> calls[c].deed.by, field |-> "twitterVerified", value |-> v]
<1>1. writes' = writes \cup {x}
  BY DEF Issue
<1>2. x.call = c /\ x.by = calls[c].deed.by
  OBVIOUS
<1>3. x.value = v
  OBVIOUS
<1>4. x.value = TRUE => v
  BY <1>3, Zenon
<1> HIDE DEF x
<1> QED
  BY <1>1, <1>2, <1>4

LEMMA VerifyStep ==
    ASSUME Typed, Pending, Shown, [Next]_socialVars
    PROVE  Pending' /\ Shown'
<1>0. calls \in [Call -> CallState] /\ users \in [User -> UserDoc] /\ writes \subseteq Write
      /\ \A c \in Call : Shape(calls[c])
  BY DEF Typed, TypeOK
<1>1. ASSUME NEW c \in Call, NEW u \in User, Shows(c, u)
      PROVE  Shows(c, u)'
  <2>1. calls'[c] = calls[c]
    BY <1>1, AnswersStay DEF Shows
  <2> QED
    BY <1>1, <2>1, LinkedGrows DEF Shows
<1>2. ASSUME NEW c \in Call, AskTwitter(c)
      PROVE  \E x : /\ writes' = writes \cup {x}
                    /\ x.value = TRUE => Shows(x.call, x.by)'
  <2>1. PICK tweet \in SUBSET Wallet : LET v == tweet \cap calls[c].known # {}
                                       IN  Verdict(c, tweet, v) /\ Issue(c, "twitterVerified", v)
    BY <1>2 DEF AskTwitter
  <2> DEFINE v == tweet \cap calls[c].known # {}
  <2>2. /\ calls[c].deed \in Deed /\ calls[c].deed.op = "verifyTwitter"
        /\ calls[c].known \subseteq Linked(calls[c].deed.by) /\ calls[c] \in CallState
    BY <1>0, <1>2 DEF AskTwitter, At, Shape, Pending
  <2>3. /\ calls'[c].deed = calls[c].deed /\ calls'[c].tweet = tweet
        /\ calls'[c].answer = IF v THEN "true" ELSE "false"
    BY <1>0, <2>1, <2>2 DEF Verdict, CallState
  <2>4. ASSUME v
        PROVE  Shows(c, calls[c].deed.by)'
    <3>1. Linked(calls[c].deed.by)' = Linked(calls[c].deed.by)
      BY <1>2, <2>3 DEF AskTwitter, Linked
    <3> QED
      BY <2>2, <2>3, <2>4, <3>1 DEF Shows
  <2>5. v \in BOOLEAN
    OBVIOUS
  <2>6. Issue(c, "twitterVerified", v)
    BY <2>1
  <2> HIDE DEF v
  <2>7. PICK x : /\ writes' = writes \cup {x} /\ (x.value = TRUE => v)
                 /\ x.call = c /\ x.by = calls[c].deed.by
    BY <2>5, <2>6, IssueFacts
  <2>8. calls'[c].deed.by = calls[c].deed.by
    BY <2>3
  <2>9. Shows(c, calls[c].deed.by)' => Shows(x.call, x.by)'
    BY <2>7, <2>8 DEF Shows
  <2> QED
    BY <2>4, <2>7, <2>9
<1>3. Pending'
  <2>1. ASSUME NEW w \in writes', w.field = "twitterVerified", w.value = TRUE
        PROVE  Shows(w.call, w.by)'
    <3>1. CASE w \in writes
      <4>1. w.call \in Call /\ w.by \in User
        BY <1>0, <3>1 DEF Write
      <4> QED
        BY <1>1, <2>1, <3>1, <4>1 DEF Pending
    <3>2. ASSUME NEW c \in Call, AskTwitter(c), w \notin writes
          PROVE  Shows(w.call, w.by)'
      <4>1. PICK x : /\ writes' = writes \cup {x}
                     /\ x.value = TRUE => Shows(x.call, x.by)'
        BY <1>2, <3>2
      <4>2. w = x
        BY <3>2, <4>1
      <4> QED
        BY <2>1, <4>1, <4>2
    <3>3. (\E c \in Call : AddWallet(c)) /\ w \notin writes => w.field = "lastActivity"
      BY DEF AddWallet, Issue
    <3>4. \/ (\E c \in Call : AddWallet(c) \/ AskTwitter(c))
          \/ writes' \subseteq writes
      BY DEF Next, Startup, Start, MigrateUser, FinishMigration, Serve, Follow, Unfollow,
         AddToBookmark, RemoveFromBookmark, ReadUser, PostInvites, StoreInvites,
         Fail, Arrive, Land, RejectWrite, Exit, Tick, socialVars
    <3> QED
      BY <2>1, <3>1, <3>2, <3>3, <3>4
  <2>2. ASSUME NEW c \in Call, calls'[c].stage = "ask"
        PROVE  (calls[c].known \subseteq Linked(calls[c].deed.by))'
    <3>1. CASE calls'[c] = calls[c]
      <4>1. calls[c].deed.by \in User
        BY <1>0, <2>2, <3>1, DeedFacts DEF Shape
      <4> QED
        BY <2>2, <3>1, <4>1, LinkedGrows DEF Pending
    <3>2. CASE ReadUser(c)
      <4>1. calls'[c].known = Linked(calls[c].deed.by) /\ calls'[c].deed = calls[c].deed
            /\ users' = users
        BY <1>0, <3>2 DEF ReadUser, CallState
      <4> QED
        BY <4>1 DEF Linked
    <3>3. ASSUME NEW d \in Deed, Arrive(c, d)
          PROVE  FALSE
      BY <1>0, <2>2, <3>3 DEF Arrive, CallState
    <3>4. CASE \/ Follow(c) \/ Unfollow(c) \/ AddToBookmark(c) \/ RemoveFromBookmark(c)
               \/ AddWallet(c) \/ PostInvites(c) \/ StoreInvites(c) \/ AskTwitter(c) \/ Fail(c)
      BY <2>2, <3>4, StepEnds
    <3>5. ASSUME NEW b \in Call, b # c, Serve(b) \/ Fail(b) \/ \E d \in Deed : Arrive(b, d)
          PROVE  calls'[c] = calls[c]
      BY <1>0, <3>5 DEF Serve, Fail, Arrive, Follow, Unfollow, AddToBookmark, RemoveFromBookmark,
         AddWallet, ReadUser, PostInvites, StoreInvites, AskTwitter, Answers, Goes, Verdict
    <3>6. CASE Exit
      BY <1>0, <2>2, <3>1, <3>6 DEF Exit, CallState
    <3>7. \/ Startup \/ Tick \/ UNCHANGED socialVars
          \/ \E w \in writes : Land(w) \/ RejectWrite(w)
          => calls'[c] = calls[c]
      BY DEF Startup, Start, MigrateUser, FinishMigration, Tick, socialVars, Land, RejectWrite
    <3> QED
      BY <3>1, <3>2, <3>3, <3>4, <3>5, <3>6, <3>7 DEF Next, Serve
  <2> QED
    BY <2>1, <2>2 DEF Pending
<1>4. Shown'
  <2>1. CASE VerifiedSame
    BY <1>1, <2>1 DEF VerifiedSame, Shown
  <2>2. ASSUME NEW w \in writes, Land(w), w.field = "twitterVerified"
        PROVE  Shown'
    <3>1. w.call \in Call /\ w.by \in User /\ w.value \in BOOLEAN
      BY <1>0, <2>2 DEF Write
    <3>2. \A v \in User : users'[v].twitterVerified =
             IF v = w.by THEN w.value ELSE users[v].twitterVerified
      BY <1>0, <2>2, <3>1 DEF Land, UserDoc
    <3>3. w.value => Shows(w.call, w.by)'
      BY <1>1, <2>2, <3>1 DEF Pending
    <3> QED
      BY <1>1, <3>1, <3>2, <3>3 DEF Shown
  <2> QED
    BY <2>1, <2>2, FrameStep
<1> QED
  BY <1>3, <1>4

\* Who is shown as verified has shown a wallet that is still linked.
THEOREM VerifiedByTweets == Spec => []VerifiedByTweet
<1>1. Init => Typed /\ Pending /\ Shown
  <2>1. Init => \A u \in User : users[u].twitterVerified = FALSE
    BY DEF Init, Earlier
  <2>2. Init => writes = {} /\ \A c \in Call : calls[c].stage = "idle"
    BY DEF Init
  <2>3. Init => Pending
    BY <2>2 DEF Pending
  <2>4. Init => Shown
    BY <2>1 DEF Shown
  <2> QED
    BY <2>3, <2>4, TypedInit
<1>2. Typed /\ Pending /\ Shown /\ [Next]_socialVars => (Typed /\ Pending /\ Shown)'
  BY TypedStep, VerifyStep
<1>3. Shown => VerifiedByTweet
  BY DEF Shown, Shows, VerifiedByTweet
<1> QED
  BY <1>1, <1>2, <1>3, PTL DEF Spec

-----------------------------------------------------------------------------
(* The promise to the members: Social implements Community *)

\* How far the migration is: requests run only after it, an account has old
\* bookmarks or new ones, and without a tear only those already migrated have new.
Settled ==
    /\ server.mode = "serving" => changelog
    /\ server.mode # "serving" => \A c \in Call : calls[c].stage \notin Running
    /\ server.mode = "migrating" =>
          ~changelog /\ \A u \in User \ server.todo : users[u].bookmarkIds = {}
    /\ changelog => \A u \in User : users[u].bookmarkIds = {}
    /\ \A u \in User : users[u].bookmarks = {} \/ users[u].bookmarkIds = {}
    /\ ~changelog /\ ~torn =>
          \A u \in User : users[u].bookmarks = {}
                            \/ (server.mode = "migrating" /\ u \notin server.todo)

IdsSame == \A u \in User : users'[u].bookmarkIds = users[u].bookmarkIds
MarksSame == IdsSame /\ \A u \in User : users'[u].bookmarks = users[u].bookmarks
FollowersSame == \A u \in User : users'[u].followerIds = users[u].followerIds

\* What each operation leaves alone of the fields that make bonds.
LEMMA BondFrame ==
    ASSUME Typed
    PROVE  /\ \A c \in Call :
                /\ Follow(c) \/ Unfollow(c) => MarksSame /\ WalletsSame
                /\ AddToBookmark(c) \/ RemoveFromBookmark(c) =>
                      IdsSame /\ FollowersSame /\ WalletsSame
                /\ AddWallet(c) => MarksSame /\ FollowersSame
                /\ StoreInvites(c) => MarksSame /\ FollowersSame /\ WalletsSame
           /\ \A w \in writes : Land(w) => MarksSame /\ FollowersSame /\ WalletsSame
           /\ \A u \in User : MigrateUser(u) => FollowersSame /\ WalletsSame
<1>1. users \in [User -> UserDoc] /\ writes \subseteq Write
  BY DEF Typed, TypeOK
<1>2. ASSUME NEW c \in Call, Follow(c) \/ Unfollow(c)
      PROVE  MarksSame /\ WalletsSame
  <2>1. CASE calls[c].deed.on \in User
    BY <1>1, <1>2, <2>1 DEF Follow, Unfollow, Edit, MarksSame, IdsSame, WalletsSame, UserDoc
  <2>2. CASE calls[c].deed.on \notin User
    BY <1>2, <2>2 DEF Follow, Unfollow, Edit, MarksSame, IdsSame, WalletsSame
  <2> QED
    BY <2>1, <2>2
<1>3. ASSUME NEW c \in Call, AddToBookmark(c) \/ RemoveFromBookmark(c)
      PROVE  IdsSame /\ FollowersSame /\ WalletsSame
  BY <1>1, <1>3 DEF AddToBookmark, RemoveFromBookmark, IdsSame, FollowersSame, WalletsSame, UserDoc
<1>4. ASSUME NEW c \in Call, AddWallet(c)
      PROVE  MarksSame /\ FollowersSame
  BY <1>1, <1>4 DEF AddWallet, MarksSame, IdsSame, FollowersSame, UserDoc
<1>5. ASSUME NEW c \in Call, StoreInvites(c)
      PROVE  MarksSame /\ FollowersSame /\ WalletsSame
  BY <1>1, <1>5 DEF StoreInvites, MarksSame, IdsSame, FollowersSame, WalletsSame, UserDoc
<1>6. ASSUME NEW w \in writes, Land(w)
      PROVE  MarksSame /\ FollowersSame /\ WalletsSame
  <2>1. CASE w.field = "lastActivity"
    BY <1>1, <1>6, <2>1 DEF Land, MarksSame, IdsSame, FollowersSame, WalletsSame, UserDoc
  <2>2. CASE w.field # "lastActivity"
    BY <1>1, <1>6, <2>2 DEF Land, MarksSame, IdsSame, FollowersSame, WalletsSame, UserDoc
  <2> QED
    BY <2>1, <2>2
<1>7. ASSUME NEW u \in User, MigrateUser(u)
      PROVE  FollowersSame /\ WalletsSame
  BY <1>1, <1>7 DEF MigrateUser, FollowersSame, WalletsSame, UserDoc
<1> QED
  BY <1>2, <1>3, <1>4, <1>5, <1>6, <1>7

\* A request that makes a step was running, so the server is listening.
LEMMA Listening ==
    ASSUME Typed, Settled, NEW c \in Call, Serve(c) \/ Fail(c)
    PROVE  server.mode = "serving" /\ changelog
<1>1. calls[c].stage \in Running
  BY DEF Serve, Fail, Running, Follow, Unfollow, AddToBookmark, RemoveFromBookmark,
     AddWallet, ReadUser, PostInvites, StoreInvites, AskTwitter, At
<1> QED
  BY <1>1 DEF Settled

LEMMA SettledStep ==
    ASSUME Typed, Settled, [Next]_socialVars
    PROVE  Settled'
<1>0. /\ users \in [User -> UserDoc] /\ calls \in [Call -> CallState] /\ server \in Server
      /\ server.todo \subseteq User /\ torn \in BOOLEAN
  BY DEF Typed, TypeOK, Server
<1>1. CASE Start
  <2>1. CASE changelog
    BY <1>1, <2>1 DEF Start, Settled, Idle
  <2>2. CASE ~changelog
    BY <1>1, <2>2 DEF Start, Settled
  <2> QED
    BY <2>1, <2>2
<1>2. ASSUME NEW u \in User, MigrateUser(u)
      PROVE  Settled'
  <2>1. /\ users'[u].bookmarkIds = {} /\ \A v \in User \ {u} : users'[v] = users[v]
        /\ server'.todo = server.todo \ {u} /\ server'.mode = "migrating"
        /\ server.mode = "migrating" /\ u \in server.todo
    BY <1>0, <1>2 DEF MigrateUser, UserDoc, Server
  <2> QED
    BY <1>2, <2>1 DEF MigrateUser, Settled
<1>3. CASE FinishMigration
  BY <1>3 DEF FinishMigration, Settled, Idle
<1>4. ASSUME NEW c \in Call, Serve(c) \/ Fail(c)
      PROVE  Settled'
  <2>1. server' = server /\ changelog' = changelog /\ torn' = torn
    BY <1>4 DEF Serve, Fail, Follow, Unfollow, AddToBookmark, RemoveFromBookmark,
       AddWallet, ReadUser, PostInvites, StoreInvites, AskTwitter
  <2>2. IdsSame
    BY <1>4, BondFrame DEF Serve, Fail, ReadUser, PostInvites, AskTwitter, MarksSame, IdsSame
  <2> QED
    BY <1>4, <2>1, <2>2, Listening DEF Settled, IdsSame
<1>5. ASSUME NEW c \in Call, NEW d \in Deed, Arrive(c, d)
      PROVE  Settled'
  BY <1>5 DEF Arrive, Settled
<1>6. ASSUME NEW w \in writes, Land(w) \/ RejectWrite(w)
      PROVE  Settled'
  <2>1. MarksSame
    BY <1>6, BondFrame DEF RejectWrite, MarksSame, IdsSame
  <2> QED
    BY <1>6, <2>1 DEF Land, RejectWrite, Settled, MarksSame, IdsSame
<1>7. CASE Exit
  <2>1. \A c \in Call : calls'[c].stage \notin Running
    BY <1>0, <1>7 DEF Exit, Running, CallState
  <2>2. /\ server'.mode = "down" /\ users' = users /\ changelog' = changelog
        /\ torn' = (torn \/ (server.mode = "migrating" /\ server.todo # User))
    BY <1>7 DEF Exit, Idle
  <2>3. ~changelog' /\ ~torn' => \A u \in User : users'[u].bookmarks = {}
    BY <2>2 DEF Settled
  <2> QED
    BY <2>1, <2>2, <2>3 DEF Settled
<1>8. CASE Tick \/ UNCHANGED socialVars
  BY <1>8 DEF Tick, socialVars, Settled
<1> QED
  BY <1>1, <1>2, <1>3, <1>4, <1>5, <1>6, <1>7, <1>8 DEF Next, Startup

\* Bonds as triples.
Holds(b) ==
    \/ \E x \in User, y \in User : b = <<"follows", x, y>> /\ x \in users[y].followerIds
    \/ \E x \in User, n \in Nft : b = <<"saves", x, n>> /\ n \in Saved(x)
    \/ \E x \in User, w \in Wallet : b = <<"links", x, w>> /\ w \in Linked(x)

LEMMA BondFacts ==
    /\ \A b : b \in Bonds <=> Holds(b)
    /\ \A b : b \in Bonds' <=> Holds(b)'
<1>1. \A b : b \in Bonds <=> Holds(b)
  BY DEF Bonds, Holds
<1>2. \A b : b \in Bonds' <=> Holds(b)'
  BY DEF Bonds, Holds
<1> QED
  BY <1>1, <1>2

\* The sets behind the bonds, kept by what keeps the fields.
LEMMA SameFacts ==
    /\ MarksSame => \A u \in User : Saved(u)' = Saved(u)
    /\ WalletsSame => \A u \in User : Linked(u)' = Linked(u)
BY DEF MarksSame, IdsSame, WalletsSame, Saved, Linked

LEMMA BondsSame ==
    ASSUME FollowersSame, \A u \in User : Saved(u)' = Saved(u), WalletsSame
    PROVE  Bonds' = Bonds
<1>1. \A b : Holds(b)' <=> Holds(b)
  BY SameFacts DEF Holds, FollowersSame
<1> QED
  BY <1>1, BondFacts

\* The wish and the answer of one request are all that its step changes.
LEMMA OpenFacts ==
    ASSUME NEW c \in Call, \A d \in Call \ {c} : calls'[d] = calls[d]
    PROVE  /\ \A d \in Call \ {c} : Open'[d] = Open[d]
           /\ \A d \in Call \ {c} : d \in Kept' <=> d \in Kept
BY DEF Open, Kept, AboutBond, WishOf

\* A bond that a request is about, and the wish to make or break it.
LEMMA DeedWish ==
    ASSUME NEW d \in Deed, d.op \notin {"invite", "verifyTwitter"},
           d.op \in {"follow", "unfollow"} => d.on # Nobody
    PROVE  WishOf(d) \in Promise!Wish
<1>2. CASE d.op \in {"follow", "unfollow"}
  <2>1. d.by \in User /\ d.on \in User
    BY <1>2, DeedFacts
  <2>2. \/ WishOf(d) = [make |-> TRUE, bond |-> <<"follows", d.by, d.on>>]
        \/ WishOf(d) = [make |-> FALSE, bond |-> <<"follows", d.by, d.on>>]
    <3>1. CASE d.op = "follow"
      BY <3>1 DEF WishOf
    <3>2. CASE d.op = "unfollow"
      <4>1. (d.op = "follow") = FALSE
        BY <3>2
      <4>2. WishOf(d) = [make |-> d.op = "follow", bond |-> <<"follows", d.by, d.on>>]
        BY <3>2 DEF WishOf
      <4> QED
        BY <4>1, <4>2, Zenon
    <3> QED
      BY <1>2, <3>1, <3>2
  <2> DEFINE b == <<"follows", d.by, d.on>>
  <2>3. b \in Promise!Bond /\ b[1] # "links"
    BY <2>1 DEF Promise!Bond
  <2>4. WishOf(d) = [make |-> TRUE, bond |-> b] \/ WishOf(d) = [make |-> FALSE, bond |-> b]
    BY <2>2
  <2> HIDE DEF b
  <2>5. WishOf(d) \in Promise!Wish
    <3> DEFINE Breakable == {x \in Promise!Bond : x[1] # "links"}
    <3>1. b \in Breakable
      BY <2>3
    <3> HIDE DEF Breakable
    <3>2. /\ [make |-> TRUE, bond |-> b] \in [make: {TRUE}, bond: Promise!Bond]
          /\ [make |-> FALSE, bond |-> b] \in [make: {FALSE}, bond: Breakable]
      BY <2>3, <3>1
    <3>3. Promise!Wish = [make: {TRUE}, bond: Promise!Bond] \cup [make: {FALSE}, bond: Breakable]
      BY DEF Promise!Wish, Breakable
    <3> QED
      BY <2>4, <3>2, <3>3
  <2> QED
    BY <2>5
<1>3. CASE d.op \in {"addToBookmark", "removeFromBookmark"}
  <2>1. d.by \in User /\ d.on \in Nft
    BY <1>3, DeedFacts
  <2>2. \/ WishOf(d) = [make |-> TRUE, bond |-> <<"saves", d.by, d.on>>]
        \/ WishOf(d) = [make |-> FALSE, bond |-> <<"saves", d.by, d.on>>]
    <3>1. CASE d.op = "addToBookmark"
      BY <3>1 DEF WishOf
    <3>2. CASE d.op = "removeFromBookmark"
      <4>1. (d.op = "addToBookmark") = FALSE
        BY <3>2
      <4>2. WishOf(d) = [make |-> d.op = "addToBookmark", bond |-> <<"saves", d.by, d.on>>]
        BY <3>2 DEF WishOf
      <4> QED
        BY <4>1, <4>2, Zenon
    <3> QED
      BY <1>3, <3>1, <3>2
  <2> DEFINE b == <<"saves", d.by, d.on>>
  <2>3. b \in Promise!Bond /\ b[1] # "links"
    BY <2>1 DEF Promise!Bond
  <2>4. WishOf(d) = [make |-> TRUE, bond |-> b] \/ WishOf(d) = [make |-> FALSE, bond |-> b]
    BY <2>2
  <2> HIDE DEF b
  <2>5. WishOf(d) \in Promise!Wish
    <3> DEFINE Breakable == {x \in Promise!Bond : x[1] # "links"}
    <3>1. b \in Breakable
      BY <2>3
    <3> HIDE DEF Breakable
    <3>2. /\ [make |-> TRUE, bond |-> b] \in [make: {TRUE}, bond: Promise!Bond]
          /\ [make |-> FALSE, bond |-> b] \in [make: {FALSE}, bond: Breakable]
      BY <2>3, <3>1
    <3>3. Promise!Wish = [make: {TRUE}, bond: Promise!Bond] \cup [make: {FALSE}, bond: Breakable]
      BY DEF Promise!Wish, Breakable
    <3> QED
      BY <2>4, <3>2, <3>3
  <2> QED
    BY <2>5
<1>4. CASE d.op = "addWallet"
  <2>1. d.by \in User /\ d.on \in Wallet
    BY <1>4, DeedFacts
  <2>2. WishOf(d) = [make |-> TRUE, bond |-> <<"links", d.by, d.on>>]
    BY <1>4 DEF WishOf
  <2>3. WishOf(d) \in Promise!Wish
    BY <2>1, <2>2 DEF Promise!Wish, Promise!Bond
  <2> QED
    BY <2>3
<1> QED
  BY <1>2, <1>3, <1>4, DeedFacts

LEMMA WishFacts ==
    ASSUME Typed, NEW c \in Call, AboutBond(c), calls[c].stage # "idle"
    PROVE  WishOf(calls[c].deed) \in Promise!Wish /\ WishOf(calls[c].deed) # NoDeed
<1>1. calls[c].deed \in Deed
  BY DEF Typed, Shape
<1> QED
  BY <1>1, DeedWish, NoDeedIsNone DEF AboutBond

\* An answer to a request about a bond fulfils it.
LEMMA FulfilStep ==
    ASSUME Typed, NEW c \in Call, AboutBond(c), calls[c].stage = "write",
           calls'[c].stage = "done", calls'[c].deed = calls[c].deed,
           \A d \in Call \ {c} : calls'[d] = calls[d],
           Bonds' = IF WishOf(calls[c].deed).make THEN Bonds \cup {WishOf(calls[c].deed).bond}
                                                  ELSE Bonds \ {WishOf(calls[c].deed).bond},
           torn' = torn
    PROVE  Promise!Fulfil(c)
<1>1. Open[c] = WishOf(calls[c].deed) /\ WishOf(calls[c].deed) # NoDeed
  BY WishFacts DEF Open
<1>2. Open' = [Open EXCEPT ![c] = NoDeed]
  <2>1. Open'[c] = NoDeed
    BY DEF Open
  <2>2. \A d \in Call \ {c} : Open'[d] = Open[d]
    BY OpenFacts
  <2>3. DOMAIN Open = Call /\ DOMAIN Open' = Call
    BY DEF Open
  <2>4. Open = [d \in DOMAIN Open |-> Open[d]] /\ Open' = [d \in DOMAIN Open' |-> Open'[d]]
    BY DEF Open
  <2> HIDE DEF Open
  <2> QED
    BY <2>1, <2>2, <2>3, <2>4
<1>3. Kept' = Kept \cup {c}
  <2>1. c \in Kept'
    BY DEF Kept, AboutBond
  <2>2. \A d \in Call \ {c} : d \in Kept' <=> d \in Kept
    BY OpenFacts
  <2>3. Kept \subseteq Call /\ Kept' \subseteq Call
    BY DEF Kept
  <2> QED
    BY <2>1, <2>2, <2>3
<1> QED
  BY <1>1, <1>2, <1>3 DEF Promise!Fulfil

\* A step of a request that is about no bond, or of none, changes no promise.
LEMMA QuietStep ==
    ASSUME NEW c \in Call, calls'[c].deed = calls[c].deed, ~AboutBond(c),
           \A d \in Call \ {c} : calls'[d] = calls[d], Bonds' = Bonds, torn' = torn
    PROVE  UNCHANGED Promise!communityVars
<1>1. Open'[c] = Open[c] /\ (c \in Kept' <=> c \in Kept)
  BY DEF Open, Kept, AboutBond
<1>2. \A d \in Call : Open'[d] = Open[d]
  BY <1>1, OpenFacts
<1>3. Open = [d \in Call |-> Open[d]] /\ Open' = [d \in Call |-> Open'[d]]
  BY DEF Open
<1>4. Kept' = Kept
  <2>1. \A d \in Call : d \in Kept' <=> d \in Kept
    BY <1>1, OpenFacts
  <2>2. Kept \subseteq Call /\ Kept' \subseteq Call
    BY DEF Kept
  <2> QED
    BY <2>1, <2>2
<1>5. Open' = Open
  <2> HIDE DEF Open
  <2> QED
    BY <1>2, <1>3
<1> QED
  BY <1>4, <1>5 DEF Promise!communityVars

LEMMA SameCalls ==
    ASSUME calls' = calls, Bonds' = Bonds, torn' = torn
    PROVE  UNCHANGED Promise!communityVars
BY DEF Promise!communityVars, Open, Kept, AboutBond, WishOf

\* What an answer does to the requests.
LEMMA AnswerChanges ==
    ASSUME Typed, NEW c \in Call, NEW a, Answers(c, a)
    PROVE  /\ calls'[c].stage = "done" /\ calls'[c].deed = calls[c].deed
           /\ \A d \in Call \ {c} : calls'[d] = calls[d]
BY DEF Typed, TypeOK, CallState, Answers

\* follow and unfollow.
LEMMA FollowStep ==
    ASSUME Typed, NEW c \in Call, Follow(c) \/ Unfollow(c)
    PROVE  Promise!Fulfil(c) \/ UNCHANGED Promise!communityVars
<1> DEFINE d == calls[c].deed
<1>1. /\ calls'[c].stage = "done" /\ calls'[c].deed = d
      /\ \A e \in Call \ {c} : calls'[e] = calls[e]
  BY AnswerChanges DEF Follow, Unfollow
<1>2. /\ d \in Deed /\ calls[c].stage = "write" /\ d.op \in {"follow", "unfollow"}
      /\ torn' = torn /\ d.by \in User /\ users \in [User -> UserDoc]
      /\ d.on \in User \cup {Nobody} /\ d # NoDeed
  BY DeedFacts, NoDeedIsNone DEF Follow, Unfollow, At, Typed, TypeOK, Shape
<1>3. (\A u \in User : Saved(u)' = Saved(u)) /\ (\A u \in User : Linked(u)' = Linked(u))
  BY BondFrame, SameFacts
<1>4. CASE d.on \notin User
  <2>1. Bonds' = Bonds
    <3>1. users' = users
      BY <1>4 DEF Follow, Unfollow, Edit
    <3> QED
      BY <3>1 DEF Bonds, Saved, Linked
  <2>2. ~AboutBond(c)
    BY <1>2, <1>4 DEF AboutBond
  <2> QED
    BY <1>1, <1>2, <2>1, <2>2, QuietStep
<1>5. CASE d.on \in User
  <2> DEFINE b == <<"follows", d.by, d.on>>
  <2>1. \A v \in User \ {d.on} : users'[v].followerIds = users[v].followerIds
    BY <1>2, <1>5 DEF Follow, Unfollow, Edit
  <2>2. AboutBond(c)
    BY <1>2, <1>5, SocialConstants DEF AboutBond
  <2>3. ASSUME Follow(c)
        PROVE  Bonds' = Bonds \cup {b} /\ WishOf(d).make = TRUE /\ WishOf(d).bond = b
    <3>1. users'[d.on].followerIds = users[d.on].followerIds \cup {d.by}
      BY <1>2, <1>5, <2>3 DEF Follow, Edit, UserDoc
    <3>2. \A x, y \in User : x \in users'[y].followerIds
                               <=> x \in users[y].followerIds \/ (x = d.by /\ y = d.on)
      BY <1>2, <2>1, <3>1
    <3>3. \A z : Holds(z)' <=> Holds(z) \/ z = b
      BY <1>2, <1>3, <1>5, <3>2 DEF Holds
    <3>4. d.op = "follow"
      BY <2>3 DEF Follow, At
    <3> QED
      BY <3>3, <3>4, BondFacts DEF WishOf
  <2>4. ASSUME Unfollow(c)
        PROVE  Bonds' = Bonds \ {b} /\ WishOf(d).make = FALSE /\ WishOf(d).bond = b
    <3>1. users'[d.on].followerIds = users[d.on].followerIds \ {d.by}
      BY <1>2, <1>5, <2>4 DEF Unfollow, Edit, UserDoc
    <3>2. \A x, y \in User : x \in users'[y].followerIds
                               <=> x \in users[y].followerIds /\ ~(x = d.by /\ y = d.on)
      BY <1>2, <2>1, <3>1
    <3>3. \A z : Holds(z)' <=> Holds(z) /\ z # b
      BY <1>2, <1>3, <1>5, <3>2 DEF Holds
    <3>4. d.op = "unfollow"
      BY <2>4 DEF Unfollow, At
    <3> QED
      BY <3>3, <3>4, BondFacts DEF WishOf
  <2>5. Bonds' = IF WishOf(d).make THEN Bonds \cup {WishOf(d).bond} ELSE Bonds \ {WishOf(d).bond}
    BY <2>3, <2>4
  <2> QED
    BY <1>1, <1>2, <2>2, <2>5, FulfilStep
<1> QED
  BY <1>4, <1>5

\* What is left of an NFT when its subdocuments are removed.
LEMMA MarkFacts ==
    ASSUME NEW S, NEW n
    PROVE  {x.nft : x \in {y \in S : y.nft # n}} = {x.nft : x \in S} \ {n}
<1>1. \A e : e \in {x.nft : x \in {y \in S : y.nft # n}} <=> e \in {x.nft : x \in S} /\ e # n
  OBVIOUS
<1> QED
  BY <1>1

\* addToBookmark and removeFromBookmark, with no old bookmarks left.
LEMMA BookmarkStep ==
    ASSUME Typed, Settled, NEW c \in Call, AddToBookmark(c) \/ RemoveFromBookmark(c)
    PROVE  Promise!Fulfil(c)
<1> DEFINE d == calls[c].deed
           b == <<"saves", d.by, d.on>>
<1>0. PICK u \in User : u = d.by
  BY DeedFacts DEF AddToBookmark, RemoveFromBookmark, At, Typed, Shape
<1>1. /\ calls'[c].stage = "done" /\ calls'[c].deed = d
      /\ \A e \in Call \ {c} : calls'[e] = calls[e]
  BY AnswerChanges DEF AddToBookmark, RemoveFromBookmark
<1>2. /\ d \in Deed /\ calls[c].stage = "write" /\ d.op \in {"addToBookmark", "removeFromBookmark"}
      /\ torn' = torn /\ d.by \in User /\ users \in [User -> UserDoc]
      /\ d.on \in Nft /\ d # NoDeed
  BY DeedFacts, NoDeedIsNone DEF AddToBookmark, RemoveFromBookmark, At, Typed, TypeOK, Shape
<1>3. AboutBond(c)
  BY <1>2 DEF AboutBond
<1>4. FollowersSame /\ (\A v \in User : Linked(v)' = Linked(v)) /\ IdsSame
  BY BondFrame, SameFacts
<1>5. \A v \in User : users[v].bookmarkIds = {} /\ users'[v].bookmarkIds = {}
  BY <1>4, Listening DEF Serve, Settled, IdsSame
<1>6. \A v \in User : /\ Saved(v) = {x.nft : x \in users[v].bookmarks}
                      /\ Saved(v)' = {x.nft : x \in users'[v].bookmarks}
  BY <1>5 DEF Saved
<1>7. \A v \in User \ {u} : users'[v].bookmarks = users[v].bookmarks
  BY <1>0, <1>2 DEF AddToBookmark, RemoveFromBookmark
<1>8. \A v \in User \ {u} : Saved(v)' = Saved(v)
  BY <1>6, <1>7
<1>9. ASSUME AddToBookmark(c)
      PROVE  Bonds' = Bonds \cup {b} /\ WishOf(d).make = TRUE /\ WishOf(d).bond = b
  <2>1. users'[u].bookmarks = users[u].bookmarks \cup {[nft |-> d.on, addedAt |-> calls[c].now]}
    BY <1>0, <1>2, <1>9 DEF AddToBookmark, UserDoc
  <2>2. Saved(u)' = Saved(u) \cup {d.on}
    <3> DEFINE new == [nft |-> d.on, addedAt |-> calls[c].now]
    <3>1. new.nft = d.on
      OBVIOUS
    <3> HIDE DEF new
    <3>2. users'[u].bookmarks = users[u].bookmarks \cup {new}
      BY <2>1 DEF new
    <3>3. \A e : e \in Saved(u)' <=> e \in Saved(u) \/ e = d.on
      BY <1>6, <3>1, <3>2
    <3> QED
      BY <3>3
  <2>3. \A z : Holds(z)' <=> Holds(z) \/ z = b
    <3>1. \A v \in User, n \in Nft :
             n \in Saved(v)' <=> n \in Saved(v) \/ (v = u /\ n = d.on)
      BY <1>8, <2>2
    <3> QED
      BY <1>0, <1>2, <1>4, <3>1 DEF Holds, FollowersSame
  <2>4. d.op = "addToBookmark"
    BY <1>9 DEF AddToBookmark, At
  <2> QED
    BY <2>3, <2>4, BondFacts DEF WishOf
<1>10. ASSUME RemoveFromBookmark(c)
       PROVE  Bonds' = Bonds \ {b} /\ WishOf(d).make = FALSE /\ WishOf(d).bond = b
  <2>1. users'[u].bookmarks = {x \in users[u].bookmarks : x.nft # d.on}
    BY <1>0, <1>2, <1>10 DEF RemoveFromBookmark, UserDoc
  <2>2. Saved(u)' = Saved(u) \ {d.on}
    BY <1>0, <1>6, <2>1, MarkFacts
  <2>3. \A z : Holds(z)' <=> Holds(z) /\ z # b
    <3>1. \A v \in User, n \in Nft :
             n \in Saved(v)' <=> n \in Saved(v) /\ ~(v = u /\ n = d.on)
      BY <1>8, <2>2
    <3> QED
      BY <1>0, <1>2, <1>4, <3>1 DEF Holds, FollowersSame
  <2>4. d.op = "removeFromBookmark"
    BY <1>10 DEF RemoveFromBookmark, At
  <2> QED
    BY <2>3, <2>4, BondFacts DEF WishOf
<1>11. Bonds' = IF WishOf(d).make THEN Bonds \cup {WishOf(d).bond} ELSE Bonds \ {WishOf(d).bond}
  BY <1>9, <1>10
<1> QED
  BY <1>1, <1>2, <1>3, <1>11, FulfilStep

\* addWallet, which may find the wallet linked already.
LEMMA LinkStep ==
    ASSUME Typed, NEW c \in Call, AddWallet(c)
    PROVE  Promise!Fulfil(c)
<1> DEFINE d == calls[c].deed
           b == <<"links", d.by, d.on>>
<1>0. PICK u \in User : u = d.by
  BY DeedFacts DEF AddWallet, At, Typed, Shape
<1>1. /\ calls'[c].stage = "done" /\ calls'[c].deed = d
      /\ \A e \in Call \ {c} : calls'[e] = calls[e]
  BY AnswerChanges DEF AddWallet
<1>2. /\ d \in Deed /\ calls[c].stage = "write" /\ d.op = "addWallet"
      /\ torn' = torn /\ d.by \in User /\ users \in [User -> UserDoc]
      /\ d.on \in Wallet /\ d # NoDeed
  BY DeedFacts, NoDeedIsNone DEF AddWallet, At, Typed, TypeOK, Shape
<1>3. AboutBond(c)
  BY <1>2 DEF AboutBond
<1>4. FollowersSame /\ \A v \in User : Saved(v)' = Saved(v)
  BY BondFrame, SameFacts
<1>5. Linked(u)' = Linked(u) \cup {d.on} /\ \A v \in User \ {u} : Linked(v)' = Linked(v)
  <2>1. \A v \in User \ {u} : users'[v].wallets = users[v].wallets
    BY <1>0, <1>2 DEF AddWallet
  <2>2. \/ d.on \in Linked(u) /\ users' = users
        \/ users'[u].wallets = users[u].wallets \cup {[walletId |-> d.on, date |-> calls[c].now]}
    BY <1>0, <1>2 DEF AddWallet, UserDoc
  <2> QED
    <3> DEFINE new == [walletId |-> d.on, date |-> calls[c].now]
    <3>1. new.walletId = d.on
      OBVIOUS
    <3> HIDE DEF new
    <3>2. \/ d.on \in Linked(u) /\ users'[u].wallets = users[u].wallets
          \/ users'[u].wallets = users[u].wallets \cup {new}
      BY <2>2 DEF new
    <3>3. \A e : e \in Linked(u)' <=> e \in Linked(u) \/ e = d.on
      BY <3>1, <3>2 DEF Linked
    <3>4. \A v \in User \ {u} : Linked(v)' = Linked(v)
      BY <2>1 DEF Linked
    <3> QED
      BY <3>3, <3>4
<1>6. \A z : Holds(z)' <=> Holds(z) \/ z = b
  <2>1. \A v \in User, w \in Wallet :
           w \in Linked(v)' <=> w \in Linked(v) \/ (v = u /\ w = d.on)
    BY <1>5
  <2> QED
    BY <1>0, <1>2, <1>4, <2>1 DEF Holds, FollowersSame
<1>7. Bonds' = Bonds \cup {b} /\ WishOf(d).make = TRUE /\ WishOf(d).bond = b
  BY <1>2, <1>6, BondFacts DEF WishOf
<1> QED
  BY <1>1, <1>2, <1>3, <1>7, FulfilStep

LEMMA SettledInit ==
    ASSUME Init
    PROVE  Settled
<1>1. \A u \in User : /\ changelog => users[u].bookmarkIds = {}
                      /\ ~changelog => users[u].bookmarks = {}
  BY DEF Init, Earlier
<1>2. \A c \in Call : calls[c].stage \notin Running
  BY DEF Init, Running
<1> QED
  BY <1>1, <1>2 DEF Init, Idle, Settled

LEMMA PromiseInit ==
    ASSUME Init
    PROVE  Promise!CommunityInit
<1>1. \A u \in User : users[u].followerIds = {} /\ Linked(u) = {}
  BY DEF Init, Earlier, Linked
<1>2. Bonds \subseteq ({"saves"} \X User \X Nft)
  BY <1>1, BondFacts DEF Holds
<1>3. Open = [c \in Call |-> NoDeed] /\ Kept = {}
  BY DEF Init, Open, Kept, AboutBond
<1> QED
  BY <1>2, <1>3 DEF Promise!CommunityInit, Init

\* Requests that fail, one or all, abandon their wishes.
LEMMA AbandonStep ==
    ASSUME Typed, NEW A \in SUBSET Call,
           \A c \in A : calls'[c].stage \in {"failed", "lost"} /\ calls[c].stage \in Running,
           \A c \in Call \ A : calls'[c] = calls[c],
           users' = users, torn' \in {torn, TRUE}
    PROVE  Promise!Abandon
<1>1. Bonds' = Bonds
  BY DEF Bonds, Saved, Linked
<1>2. \A c \in Call : Open'[c] = IF c \in A THEN NoDeed ELSE Open[c]
  BY DEF Open, AboutBond, WishOf
<1>3. Open' = [c \in Call |-> IF c \in A THEN NoDeed ELSE Open[c]]
  <2>1. Open' = [c \in Call |-> Open'[c]]
    BY DEF Open
  <2> HIDE DEF Open
  <2> QED
    BY <1>2, <2>1
<1>4. Kept' = Kept
  <2>1. \A c \in Call : c \in Kept' <=> c \in Kept
    BY DEF Kept, AboutBond, Running
  <2>2. Kept \subseteq Call /\ Kept' \subseteq Call
    BY DEF Kept
  <2> QED
    BY <2>1, <2>2
<1> QED
  BY <1>1, <1>3, <1>4 DEF Promise!Abandon

\* Subdocuments made of NFTs are of those NFTs.
Stamped(S, now) == {[nft |-> n, addedAt |-> now] : n \in S}

LEMMA NamesOfStamped ==
    ASSUME NEW S, NEW now
    PROVE  \A e : (\E b \in Stamped(S, now) : b.nft = e) <=> e \in S
<1>1. \A n : [nft |-> n, addedAt |-> now].nft = n
  OBVIOUS
<1>2. \A b : b \in Stamped(S, now) <=> \E n \in S : b = [nft |-> n, addedAt |-> now]
  BY DEF Stamped
<1>3. ASSUME NEW e, NEW b \in Stamped(S, now), b.nft = e
      PROVE  e \in S
  BY <1>1, <1>2, <1>3
<1>4. ASSUME NEW e \in S
      PROVE  \E b \in Stamped(S, now) : b.nft = e
  <2>1. [nft |-> e, addedAt |-> now] \in Stamped(S, now)
    BY <1>2
  <2> QED
    BY <1>1, <2>1
<1> QED
  BY <1>3, <1>4

\* A migrated account saves what it saved, or a torn migration forgets it all.
LEMMA MigrateStep ==
    ASSUME Typed, Settled, NEW u \in User, MigrateUser(u)
    PROVE  UNCHANGED Promise!communityVars \/ Promise!Forget(u)
<1>1. /\ users \in [User -> UserDoc] /\ torn \in BOOLEAN /\ torn' = torn /\ calls' = calls
      /\ server.mode = "migrating" /\ u \in server.todo /\ ~changelog
  BY DEF MigrateUser, Typed, TypeOK, Settled
<1>2. FollowersSame /\ WalletsSame /\ \A v \in User : Linked(v)' = Linked(v)
  BY BondFrame, SameFacts
<1>3. \A v \in User \ {u} : Saved(v)' = Saved(v)
  <2>1. \A v \in User \ {u} : users'[v] = users[v]
    BY <1>1 DEF MigrateUser
  <2> QED
    BY <2>1 DEF Saved
<1>4. Saved(u)' = users[u].bookmarkIds
  <2>1. /\ users'[u].bookmarkIds = {}
        /\ users'[u].bookmarks = Stamped(users[u].bookmarkIds, server.since)
    BY <1>1 DEF MigrateUser, UserDoc, Stamped
  <2>2. \A e : e \in Saved(u)' <=> \E b \in users'[u].bookmarks : b.nft = e
    BY <2>1 DEF Saved
  <2>3. \A e : e \in Saved(u)' <=> e \in users[u].bookmarkIds
    BY <2>1, <2>2, NamesOfStamped
  <2> QED
    BY <2>3
<1>5. CASE users[u].bookmarks = {}
  <2>1. Saved(u) = users[u].bookmarkIds
    BY <1>5 DEF Saved
  <2>2. Bonds' = Bonds
    BY <1>2, <1>3, <1>4, <2>1, BondsSame
  <2> QED
    BY <1>1, <2>2, SameCalls
<1>6. CASE users[u].bookmarks # {}
  <2>1. torn /\ users[u].bookmarkIds = {}
    BY <1>1, <1>6 DEF Settled
  <2>2. \A z : Holds(z)' <=> Holds(z) /\ z \notin ({"saves"} \X {u} \X Nft)
    BY <1>2, <1>3, <1>4, <2>1 DEF Holds, FollowersSame
  <2>3. Bonds' = Bonds \ ({"saves"} \X {u} \X Nft)
    BY <2>2, BondFacts
  <2>4. Open' = Open /\ Kept' = Kept
    BY <1>1 DEF Open, Kept, AboutBond, WishOf
  <2> QED
    BY <1>1, <2>1, <2>3, <2>4 DEF Promise!Forget
<1> QED
  BY <1>5, <1>6

\* A request that arrives about a bond asks for it.
LEMMA ArriveStep ==
    ASSUME Typed, NEW c \in Call, NEW d \in Deed, Arrive(c, d)
    PROVE  UNCHANGED Promise!communityVars \/ \E w \in Promise!Wish : Promise!Ask(c, w)
<1>1. /\ calls \in [Call -> CallState] /\ calls[c].stage = "idle"
      /\ calls'[c].deed = d /\ \A e \in Call \ {c} : calls'[e] = calls[e]
      /\ calls'[c].stage = IF d.op \in {"invite", "verifyTwitter"} THEN "read" ELSE "write"
      /\ users' = users /\ torn' = torn
  BY DEF Arrive, Typed, TypeOK, CallState
<1>2. Bonds' = Bonds
  BY <1>1 DEF Bonds, Saved, Linked
<1>3. Open[c] = NoDeed /\ c \notin Kept
  BY <1>1 DEF Open, Kept
<1>4. Kept' = Kept
  <2>1. c \notin Kept'
    BY <1>1 DEF Kept
  <2>2. Kept \subseteq Call /\ Kept' \subseteq Call
    BY DEF Kept
  <2> QED
    BY <1>1, <1>3, <2>1, <2>2, OpenFacts
<1>5. /\ Open' = [e \in Call |-> Open'[e]] /\ Open = [e \in Call |-> Open[e]]
      /\ \A e \in Call \ {c} : Open'[e] = Open[e]
  BY <1>1, OpenFacts DEF Open
<1>6. CASE ~AboutBond(c)'
  <2>1. Open'[c] = NoDeed
    BY <1>6 DEF Open
  <2>2. Open' = Open
    <3> HIDE DEF Open
    <3> QED
      BY <1>3, <1>5, <2>1
  <2> QED
    BY <1>1, <1>2, <1>4, <2>2 DEF Promise!communityVars
<1>7. CASE AboutBond(c)'
  <2>1. /\ d # NoDeed /\ d.op \notin {"invite", "verifyTwitter"}
        /\ (d.op \in {"follow", "unfollow"} => d.on # Nobody)
    BY <1>1, <1>7 DEF AboutBond
  <2>2. WishOf(d) \in Promise!Wish
    BY <2>1, DeedWish
  <2>3. Open'[c] = WishOf(d)
    BY <1>1, <1>7, <2>1 DEF Open, WishOf
  <2>4. Open' = [Open EXCEPT ![c] = WishOf(d)]
    <3> HIDE DEF Open
    <3> QED
      BY <1>5, <2>3
  <2> QED
    BY <1>1, <1>2, <1>3, <1>4, <2>2, <2>4 DEF Promise!Ask
<1> QED
  BY <1>6, <1>7

LEMMA PromiseStep ==
    ASSUME Typed, Settled, [Next]_socialVars
    PROVE  [Promise!CommunityNext]_(Promise!communityVars)
<1>0. calls \in [Call -> CallState] /\ torn \in BOOLEAN
  BY DEF Typed, TypeOK
<1>1. CASE Start \/ FinishMigration \/ Tick \/ UNCHANGED socialVars
  <2>1. users' = users /\ calls' = calls /\ torn' = torn
    BY <1>1 DEF Start, FinishMigration, Tick, socialVars
  <2>2. Bonds' = Bonds
    BY <2>1 DEF Bonds, Saved, Linked
  <2> QED
    BY <2>1, <2>2, SameCalls
<1>2. ASSUME NEW u \in User, MigrateUser(u)
      PROVE  [Promise!CommunityNext]_(Promise!communityVars)
  BY <1>2, MigrateStep DEF Promise!CommunityNext
<1>3. ASSUME NEW c \in Call, \/ Follow(c) \/ Unfollow(c) \/ AddToBookmark(c)
                             \/ RemoveFromBookmark(c) \/ AddWallet(c)
      PROVE  [Promise!CommunityNext]_(Promise!communityVars)
  BY <1>3, FollowStep, BookmarkStep, LinkStep DEF Promise!CommunityNext
<1>4. ASSUME NEW c \in Call, ReadUser(c) \/ PostInvites(c) \/ StoreInvites(c) \/ AskTwitter(c)
      PROVE  [Promise!CommunityNext]_(Promise!communityVars)
  <2>1. /\ calls'[c].deed = calls[c].deed /\ \A d \in Call \ {c} : calls'[d] = calls[d]
        /\ torn' = torn
    <3>1. CASE ReadUser(c)
      BY <1>0, <3>1 DEF ReadUser, CallState
    <3>2. CASE PostInvites(c)
      BY <1>0, <3>2 DEF PostInvites, Goes, CallState
    <3>3. CASE StoreInvites(c)
      BY <1>0, <3>3 DEF StoreInvites, Answers, CallState
    <3>4. CASE AskTwitter(c)
      <4>1. torn' = torn
        BY <3>4 DEF AskTwitter
      <4>2. PICK tweet, verified : Verdict(c, tweet, verified)
        BY <3>4 DEF AskTwitter
      <4> QED
        BY <1>0, <4>1, <4>2 DEF Verdict, CallState
    <3> QED
      BY <1>4, <3>1, <3>2, <3>3, <3>4
  <2>2. calls[c].deed.op \in {"invite", "verifyTwitter"}
    BY <1>4 DEF ReadUser, PostInvites, StoreInvites, AskTwitter, At, Typed, Shape
  <2>3. FollowersSame /\ MarksSame /\ WalletsSame
    <3>1. CASE StoreInvites(c)
      BY <3>1, BondFrame
    <3>2. CASE ReadUser(c) \/ PostInvites(c) \/ AskTwitter(c)
      BY <3>2 DEF ReadUser, PostInvites, AskTwitter, FollowersSame, MarksSame, IdsSame, WalletsSame
    <3> QED
      BY <1>4, <3>1, <3>2
  <2>4. Bonds' = Bonds
    BY <2>3, SameFacts, BondsSame
  <2>5. ~AboutBond(c)
    BY <2>2 DEF AboutBond
  <2> QED
    BY <2>1, <2>4, <2>5, QuietStep
<1>5. ASSUME NEW c \in Call, Fail(c)
      PROVE  [Promise!CommunityNext]_(Promise!communityVars)
  <2>1. /\ calls'[c].stage = "failed" /\ calls[c].stage \in Running
        /\ \A d \in Call \ {c} : calls'[d] = calls[d] /\ users' = users /\ torn' = torn
    BY <1>0, <1>5 DEF Fail, Goes, CallState
  <2>2. {c} \in SUBSET Call /\ users' = users /\ torn' = torn
    BY <1>5 DEF Fail
  <2>3. Promise!Abandon
    BY <2>1, <2>2, AbandonStep
  <2> QED
    BY <2>3 DEF Promise!CommunityNext
<1>6. ASSUME NEW c \in Call, NEW d \in Deed, Arrive(c, d)
      PROVE  [Promise!CommunityNext]_(Promise!communityVars)
  BY <1>6, ArriveStep DEF Promise!CommunityNext
<1>7. ASSUME NEW w \in writes, Land(w) \/ RejectWrite(w)
      PROVE  [Promise!CommunityNext]_(Promise!communityVars)
  <2>1. FollowersSame /\ MarksSame /\ WalletsSame /\ calls' = calls /\ torn' = torn
    BY <1>7, BondFrame DEF Land, RejectWrite, FollowersSame, MarksSame, IdsSame, WalletsSame
  <2>2. Bonds' = Bonds
    BY <2>1, SameFacts, BondsSame
  <2> QED
    BY <2>1, <2>2, SameCalls
<1>8. CASE Exit
  <2> DEFINE A == {c \in Call : calls[c].stage \in Running}
  <2>1. A \in SUBSET Call /\ users' = users /\ torn' \in {torn, TRUE}
    BY <1>0, <1>8 DEF Exit
  <2>2. \A c \in A : calls'[c].stage \in {"failed", "lost"} /\ calls[c].stage \in Running
    BY <1>0, <1>8 DEF Exit, CallState
  <2>3. \A c \in Call \ A : calls'[c] = calls[c]
    BY <1>8 DEF Exit
  <2> HIDE DEF A
  <2>4. Promise!Abandon
    BY <2>1, <2>2, <2>3, AbandonStep
  <2> QED
    BY <2>4 DEF Promise!CommunityNext
<1> QED
  BY <1>1, <1>2, <1>3, <1>4, <1>5, <1>6, <1>7, <1>8 DEF Next, Startup, Serve

\* Social implements Community: each operation makes or breaks the one bond it
\* names in one step, or abandons it, and only a torn migration forgets.
THEOREM SocialKeepsPromise == Spec => CommunityPromise
<1>1. Init => Typed /\ Settled /\ Promise!CommunityInit
  BY TypedInit, SettledInit, PromiseInit
<1>2. Typed /\ Settled /\ [Next]_socialVars => (Typed /\ Settled)'
  BY TypedStep, SettledStep
<1>3. Typed /\ Settled /\ [Next]_socialVars => [Promise!CommunityNext]_(Promise!communityVars)
  BY PromiseStep
<1> QED
  BY <1>1, <1>2, <1>3, PTL DEF Spec, CommunityPromise, Promise!CommunitySpec
=============================================================================
