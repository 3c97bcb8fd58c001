------------------------------- MODULE Social --------------------------------
(***************************************************************************)
(* The social operations of UserService - follow, bookmarks, wallets,      *)
(* invitations, Twitter verification - and the migration of bookmarks that *)
(* runs before the server accepts requests.                                *)
(*                                                                         *)
(* A step is what runs between two awaits.  An update that is not awaited  *)
(* is an element of writes: it lands, rejects or dies with the process     *)
(* after the request that issued it was answered.  Dates are readings of a *)
(* clock, taken where the code says new Date().                            *)
(***************************************************************************)
EXTENDS Naturals, FiniteSets

CONSTANTS
    User,        \* the stored accounts
    Actor,       \* those whose owners send requests
    Nobody,      \* an id that no account has
    Nft,         \* NFTs to bookmark
    Wallet,      \* wallet addresses
    MailList,    \* lists of emails to invite
    NoList,      \* the invitations of an account that invited nobody
    Call,        \* one id per request
    NoDeed,      \* a request that has not arrived
    MaxClock,    \* bound: the latest reading of the clock
    MaxFaults,   \* bound: rejected operations
    MaxExits     \* bound: how often the process exits

ASSUME SocialConstants ==
    /\ Actor \subseteq User /\ Nobody \notin User
    /\ NoList \notin MailList
    /\ MaxClock \in Nat /\ MaxFaults \in Nat /\ MaxExits \in Nat

VARIABLES
    server,      \* the process: its mode, and the progress of its migration
    changelog,   \* whether the changelog lists the migration
    users,       \* the users collection
    calls,       \* requests: stage, what is asked, local variables, answer
    writes,      \* updates issued and not awaited
    posted,      \* invitations sent: <<author, list>>
    clock, faults, exits,
    dropped,     \* ghost: requests whose un-awaited update was lost
    torn         \* ghost: an exit left a migration half done

socialVars == <<server, changelog, users, calls, writes, posted, clock, faults, exits,
                dropped, torn>>

-----------------------------------------------------------------------------
(* Documents and requests *)

Time == 0 .. MaxClock

\* bookmarkIds is what the migration replaces by bookmarks.  A subdocument has
\* no id, so $addToSet compares it as a whole, date included.
UserDoc == [bookmarkIds: SUBSET Nft,
            bookmarks: SUBSET [nft: Nft, addedAt: Time],
            followerIds: SUBSET User,
            wallets: SUBSET [walletId: Wallet, date: Time],
            inviteFriends: MailList \cup {NoList},
            twitterVerified: BOOLEAN,
            lastActivity: Time]

Deed == [op: {"follow", "unfollow"}, by: Actor, on: User \cup {Nobody}]
          \cup [op: {"addToBookmark", "removeFromBookmark"}, by: Actor, on: Nft]
          \cup [op: {"addWallet"}, by: Actor, on: Wallet]
          \cup [op: {"invite"}, by: Actor, on: MailList]
          \cup [op: {"verifyTwitter"}, by: Actor, on: {Nobody}]

Running == {"read", "ask", "write"}

\* now: the date taken on arrival; known: the wallets read; tweet: the words of
\* the tweet that are wallet addresses.
CallState == [stage: Running \cup {"idle", "done", "failed", "lost"}, deed: Deed \cup {NoDeed},
              now: Time, known: SUBSET Wallet, tweet: SUBSET Wallet,
              answer: {"none", "null", "true", "false"}]

Write == [call: Call, by: User, field: {"lastActivity"}, value: Time]
           \cup [call: Call, by: User, field: {"twitterVerified"}, value: BOOLEAN]

Server == [mode: {"down", "migrating", "serving"}, todo: SUBSET User, since: Time]
Idle(mode) == [mode |-> mode, todo |-> {}, since |-> 0]

Saved(u) == users[u].bookmarkIds \cup {b.nft : b \in users[u].bookmarks}
Linked(u) == {w.walletId : w \in users[u].wallets}

-----------------------------------------------------------------------------
\* Accounts from before the migration, or from an earlier life of the server.
Earlier(migrated, now) ==
    [bookmarkIds: IF migrated THEN {{}} ELSE SUBSET Nft,
     bookmarks: IF migrated THEN SUBSET [nft: Nft, addedAt: 0 .. now] ELSE {{}},
     followerIds: {{}}, wallets: {{}}, inviteFriends: {NoList},
     twitterVerified: {FALSE}, lastActivity: {0}]

Init ==
    /\ server = Idle("down")
    /\ changelog \in BOOLEAN
    /\ clock \in Time
    /\ users \in [User -> Earlier(changelog, clock)]
    /\ calls = [c \in Call |-> [stage |-> "idle", deed |-> NoDeed, now |-> 0, known |-> {},
                                tweet |-> {}, answer |-> "none"]]
    /\ writes = {} /\ posted = {}
    /\ faults = 0 /\ exits = 0
    /\ dropped = {} /\ torn = FALSE

-----------------------------------------------------------------------------
(* Start-up and migration *)

\* onModuleInit: migrate-mongo runs what the changelog does not list yet.
Start ==
    /\ server.mode = "down"
    /\ server' = IF changelog THEN Idle("serving")
                 ELSE [mode |-> "migrating", todo |-> User, since |-> clock]
    /\ UNCHANGED <<changelog, users, calls, writes, posted, clock, faults, exits, dropped, torn>>

\* up() for one user of the cursor: bookmarkIds || [] replaces the bookmarks,
\* whatever they are, and is unset.
MigrateUser(u) ==
    /\ server.mode = "migrating" /\ u \in server.todo
    /\ users' = [users EXCEPT
         ![u].bookmarks = {[nft |-> n, addedAt |-> server.since] : n \in users[u].bookmarkIds},
         ![u].bookmarkIds = {}]
    /\ server' = [server EXCEPT !.todo = @ \ {u}]
    /\ UNCHANGED <<changelog, calls, writes, posted, clock, faults, exits, dropped, torn>>

\* Only now does migrate-mongo list the migration; then the server listens.
FinishMigration ==
    /\ server.mode = "migrating" /\ server.todo = {}
    /\ changelog' = TRUE
    /\ server' = Idle("serving")
    /\ UNCHANGED <<users, calls, writes, posted, clock, faults, exits, dropped, torn>>

-----------------------------------------------------------------------------
(* Requests *)

At(c, stage, op) == calls[c].stage = stage /\ calls[c].deed.op = op
Goes(c, stage) == calls' = [calls EXCEPT ![c].stage = stage]
Answers(c, a) == calls' = [calls EXCEPT ![c].stage = "done", ![c].answer = a]

\* findOneAndUpdate({ _id }, ...): an unknown id is no error.
Edit(u, doc) == users' = IF u \in User THEN [users EXCEPT ![u] = doc] ELSE users

Arrive(c, d) ==
    /\ server.mode = "serving" /\ calls[c].stage = "idle"
    /\ calls' = [calls EXCEPT ![c].deed = d, ![c].now = clock,
           ![c].stage = IF d.op \in {"invite", "verifyTwitter"} THEN "read" ELSE "write"]
    /\ UNCHANGED <<server, changelog, users, writes, posted, clock, faults, exits, dropped, torn>>

\* Mutant: the two ids are swapped.
FollowSwapped(c) ==
    /\ At(c, "write", "follow")
    /\ LET d == calls[c].deed
       IN  Edit(d.by, [users[d.by] EXCEPT !.followerIds = @ \cup {d.on}])
    /\ Answers(c, "true")
    /\ UNCHANGED <<server, changelog, writes, posted, clock, faults, exits, dropped, torn>>

Follow(c) ==
    /\ At(c, "write", "follow")
    /\ LET d == calls[c].deed
       IN  Edit(d.on, [users[d.on] EXCEPT !.followerIds = @ \cup {d.by}])
    /\ Answers(c, "true")
    /\ UNCHANGED <<server, changelog, writes, posted, clock, faults, exits, dropped, torn>>

Unfollow(c) ==
    /\ At(c, "write", "unfollow")
    /\ LET d == calls[c].deed
       IN  Edit(d.on, [users[d.on] EXCEPT !.followerIds = @ \ {d.by}])
    /\ Answers(c, "true")
    /\ UNCHANGED <<server, changelog, writes, posted, clock, faults, exits, dropped, torn>>

AddToBookmark(c) ==
    /\ At(c, "write", "addToBookmark")
    /\ LET d == calls[c].deed
       IN  users' = [users EXCEPT
              ![d.by].bookmarks = @ \cup {[nft |-> d.on, addedAt |-> calls[c].now]}]
    /\ Answers(c, "true")
    /\ UNCHANGED <<server, changelog, writes, posted, clock, faults, exits, dropped, torn>>

\* Mutant: one subdocument is removed, as if there were never two.
RemoveFromBookmarkOnce(c) ==
    /\ At(c, "write", "removeFromBookmark")
    /\ LET d   == calls[c].deed
           old == {b \in users[d.by].bookmarks : b.nft = d.on}
       IN  users' = [users EXCEPT
              ![d.by].bookmarks = IF old = {} THEN @ ELSE @ \ {CHOOSE b \in old : TRUE}]
    /\ Answers(c, "true")
    /\ UNCHANGED <<server, changelog, writes, posted, clock, faults, exits, dropped, torn>>

\* $pull removes every subdocument of the NFT.
RemoveFromBookmark(c) ==
    /\ At(c, "write", "removeFromBookmark")
    /\ LET d == calls[c].deed
       IN  users' = [users EXCEPT ![d.by].bookmarks = {b \in @ : b.nft # d.on}]
    /\ Answers(c, "true")
    /\ UNCHANGED <<server, changelog, writes, posted, clock, faults, exits, dropped, torn>>

\* The call issues an update and awaits it not.
Issue(c, field, value) ==
    writes' = writes \cup {[call |-> c, by |-> calls[c].deed.by, field |-> field, value |-> value]}

\* Mutant: $addToSet alone, which compares dates too.
AddWalletUnfiltered(c) ==
    /\ At(c, "write", "addWallet")
    /\ LET d == calls[c].deed
       IN  users' = [users EXCEPT
              ![d.by].wallets = @ \cup {[walletId |-> d.on, date |-> calls[c].now]}]
    /\ Answers(c, "true")
    /\ Issue(c, "lastActivity", clock)
    /\ UNCHANGED <<server, changelog, posted, clock, faults, exits, dropped, torn>>

\* The filter asks that no wallet has the id: the update then finds nothing,
\* and the answer is null.
AddWallet(c) ==
    /\ At(c, "write", "addWallet")
    /\ LET d == calls[c].deed IN
       \/ /\ d.on \notin Linked(d.by)
          /\ users' = [users EXCEPT
                ![d.by].wallets = @ \cup {[walletId |-> d.on, date |-> calls[c].now]}]
          /\ Answers(c, "true")
       \/ /\ d.on \in Linked(d.by)
          /\ Answers(c, "null")
          /\ UNCHANGED users
    /\ Issue(c, "lastActivity", clock)
    /\ UNCHANGED <<server, changelog, posted, clock, faults, exits, dropped, torn>>

\* Mutant: invitations are stored first.
ReadUserStoreFirst(c) ==
    /\ calls[c].stage = "read"
    /\ calls' = [calls EXCEPT ![c].known = Linked(calls[c].deed.by),
           ![c].stage = IF calls[c].deed.op = "invite" THEN "write" ELSE "ask"]
    /\ UNCHANGED <<server, changelog, users, writes, posted, clock, faults, exits, dropped, torn>>

\* getByIdOrThrow: the wallets of the moment, for verifyTwitter.
ReadUser(c) ==
    /\ calls[c].stage = "read"
    /\ calls' = [calls EXCEPT ![c].known = Linked(calls[c].deed.by), ![c].stage = "ask"]
    /\ UNCHANGED <<server, changelog, users, writes, posted, clock, faults, exits, dropped, torn>>

PostInvites(c) ==
    /\ At(c, "ask", "invite")
    /\ posted' = posted \cup {<<calls[c].deed.by, calls[c].deed.on>>}
    /\ Goes(c, "write")
    /\ UNCHANGED <<server, changelog, users, writes, clock, faults, exits, dropped, torn>>

\* $set: the list of an earlier call is replaced.
StoreInvites(c) ==
    /\ At(c, "write", "invite")
    /\ LET d == calls[c].deed IN users' = [users EXCEPT ![d.by].inviteFriends = d.on]
    /\ Answers(c, "true")
    /\ UNCHANGED <<server, changelog, writes, posted, clock, faults, exits, dropped, torn>>

Verdict(c, tweet, verified) ==
    calls' = [calls EXCEPT ![c].stage = "done", ![c].tweet = tweet,
                           ![c].answer = IF verified THEN "true" ELSE "false"]

\* Mutant: any wallet address in the tweet will do.
AskTwitterAnyWallet(c) ==
    /\ At(c, "ask", "verifyTwitter")
    /\ \E tweet \in SUBSET Wallet :
          Verdict(c, tweet, tweet # {}) /\ Issue(c, "twitterVerified", tweet # {})
    /\ UNCHANGED <<server, changelog, users, posted, clock, faults, exits, dropped, torn>>

\* Mutant: the verdict is returned and never stored.
AskTwitterOnly(c) ==
    /\ At(c, "ask", "verifyTwitter")
    /\ \E tweet \in SUBSET Wallet : Verdict(c, tweet, tweet \cap calls[c].known # {})
    /\ UNCHANGED <<server, changelog, users, writes, posted, clock, faults, exits, dropped, torn>>

\* The words of the tweet against the wallets read before; the update is issued
\* and the answer given.  A tweet not found is an error like any other (Fail).
AskTwitter(c) ==
    /\ At(c, "ask", "verifyTwitter")
    /\ \E tweet \in SUBSET Wallet :
          LET verified == tweet \cap calls[c].known # {}
          IN  Verdict(c, tweet, verified) /\ Issue(c, "twitterVerified", verified)
    /\ UNCHANGED <<server, changelog, users, posted, clock, faults, exits, dropped, torn>>

\* An update that nobody awaits takes effect.
Land(w) ==
    /\ users' = IF w.field = "lastActivity"
                  THEN [users EXCEPT ![w.by].lastActivity = w.value]
                  ELSE [users EXCEPT ![w.by].twitterVerified = w.value]
    /\ writes' = writes \ {w}
    /\ UNCHANGED <<server, changelog, calls, posted, clock, faults, exits, dropped, torn>>

-----------------------------------------------------------------------------
(* Faults and time *)

\* MongoDB, the mail provider or Twitter rejects what the request awaits.
Fail(c) ==
    /\ calls[c].stage \in Running /\ faults < MaxFaults
    /\ Goes(c, "failed")
    /\ faults' = faults + 1
    /\ UNCHANGED <<server, changelog, users, writes, posted, clock, exits, dropped, torn>>

RejectWrite(w) ==
    /\ faults < MaxFaults
    /\ faults' = faults + 1
    /\ writes' = writes \ {w}
    /\ dropped' = dropped \cup {w.call}
    /\ UNCHANGED <<server, changelog, users, calls, posted, clock, exits, torn>>

\* The process exits, or a rejected update of the migration ends it at start.
Exit ==
    /\ server.mode # "down" /\ exits < MaxExits
    /\ exits' = exits + 1
    /\ server' = Idle("down")
    /\ calls' = [c \in Call |-> IF calls[c].stage \in Running
                                  THEN [calls[c] EXCEPT !.stage = "lost"] ELSE calls[c]]
    /\ writes' = {}
    /\ dropped' = dropped \cup {w.call : w \in writes}
    /\ torn' = (torn \/ (server.mode = "migrating" /\ server.todo # User))
    /\ UNCHANGED <<changelog, users, posted, clock, faults>>

Tick ==
    /\ clock < MaxClock
    /\ clock' = clock + 1
    /\ UNCHANGED <<server, changelog, users, calls, writes, posted, faults, exits, dropped, torn>>

Startup == Start \/ FinishMigration \/ \E u \in User : MigrateUser(u)

Serve(c) ==
    \/ Follow(c) \/ Unfollow(c)
    \/ AddToBookmark(c) \/ RemoveFromBookmark(c)
    \/ AddWallet(c)
    \/ ReadUser(c) \/ PostInvites(c) \/ StoreInvites(c) \/ AskTwitter(c)

Next ==
    \/ Startup
    \/ \E c \in Call : Serve(c) \/ Fail(c) \/ \E d \in Deed : Arrive(c, d)
    \/ \E w \in writes : Land(w) \/ RejectWrite(w)
    \/ Exit
    \/ Tick

Spec == Init /\ [][Next]_socialVars

\* The event loop resumes every continuation, and drivers answer or time out.
Fairness ==
    /\ WF_socialVars(Startup)
    /\ \A c \in Call : WF_socialVars(Serve(c))
    /\ \A w \in Write : WF_socialVars(w \in writes /\ Land(w))

FairSpec == Spec /\ Fairness

-----------------------------------------------------------------------------
(* What the members are promised: the abstract specification *)

Bonds ==
    {b \in {"follows"} \X User \X User : b[2] \in users[b[3]].followerIds}
      \cup {b \in {"saves"} \X User \X Nft : b[3] \in Saved(b[2])}
      \cup {b \in {"links"} \X User \X Wallet : b[3] \in Linked(b[2])}

WishOf(d) ==
    CASE d.op \in {"follow", "unfollow"} ->
              [make |-> d.op = "follow", bond |-> <<"follows", d.by, d.on>>]
      [] d.op \in {"addToBookmark", "removeFromBookmark"} ->
              [make |-> d.op = "addToBookmark", bond |-> <<"saves", d.by, d.on>>]
      [] OTHER -> [make |-> TRUE, bond |-> <<"links", d.by, d.on>>]

\* A request about a bond is open from its arrival to its one update.
AboutBond(c) == /\ calls[c].deed # NoDeed
                /\ calls[c].deed.op \notin {"invite", "verifyTwitter"}
                /\ calls[c].deed.op \in {"follow", "unfollow"} => calls[c].deed.on # Nobody
Open == [c \in Call |-> IF AboutBond(c) /\ calls[c].stage = "write"
                          THEN WishOf(calls[c].deed) ELSE NoDeed]
Kept == {c \in Call : AboutBond(c) /\ calls[c].stage = "done"}

Promise == INSTANCE Community WITH
    Member <- User, Item <- Nft, Purse <- Wallet, Asker <- Call, NoWish <- NoDeed,
    bonds <- Bonds, open <- Open, kept <- Kept, torn <- torn

ASSUME NoDeedIsNone == NoDeed \notin Deed /\ NoDeed \notin Promise!Wish

\* Each follow, unfollow, bookmark, unbookmark and addWallet changes the one
\* bond it names, once, between its arrival and its answer, and nothing else
\* changes a bond: not the migration, unless it was torn, and not a repeated
\* bookmark (user.service.ts:161-210).
CommunityPromise == Promise!CommunitySpec

-----------------------------------------------------------------------------
(* Properties *)

\* Documents, requests and updates keep their types.
TypeOK ==
    /\ server \in Server /\ changelog \in BOOLEAN
    /\ users \in [User -> UserDoc]
    /\ calls \in [Call -> CallState]
    /\ writes \subseteq Write
    /\ posted \subseteq (User \X MailList)
    /\ clock \in Time /\ faults \in 0 .. MaxFaults /\ exits \in 0 .. MaxExits
    /\ dropped \subseteq Call /\ torn \in BOOLEAN

\* A user has a wallet once, however many addWallet calls race, at whatever
\* dates: the filter and the update are one operation (user.service.ts:161-172).
WalletOnce ==
    \A u \in User : \A v, w \in users[u].wallets : v.walletId = w.walletId => v = w

\* Who is shown as verified has shown a wallet in a tweet which is one of the
\* user's wallets still, though the update lands after the answer and wallets
\* are read before the tweet (user.service.ts:225-231).
VerifiedByTweet ==
    \A u \in User : users[u].twitterVerified =>
        \E c \in Call : /\ calls[c].deed \in Deed
                        /\ calls[c].deed.op = "verifyTwitter" /\ calls[c].deed.by = u
                        /\ calls[c].answer = "true"
                        /\ calls[c].tweet \cap Linked(u) # {}

\* A stored list of invitations was mailed, whatever failed on the way
\* (user.service.ts:212-223).
InviteesWereMailed ==
    \A u \in User : users[u].inviteFriends # NoList => <<u, users[u].inviteFriends>> \in posted

\* A user told to be verified is so eventually, or the update is known to be
\* lost: nobody awaits it (user.service.ts:229).
VerdictReachesUser ==
    \A c \in Call : \A u \in User :
        (calls[c].answer = "true" /\ calls[c].deed.op = "verifyTwitter" /\ calls[c].deed.by = u)
            ~> (users[u].twitterVerified \/ c \in dropped)

\* "bookmarkIds: [...] => bookmarks: [...]" (the migration's comment): no step
\* of the migration takes a bookmark away.
MigrationKeepsBookmarks ==
    [][server.mode = "migrating" => \A u \in User : Saved(u) \subseteq Saved(u)']_socialVars
=============================================================================
