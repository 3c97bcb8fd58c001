------------------------------- MODULE Requests -------------------------------
(***************************************************************************)
(* What happens to a GraphQL request: the context resolves its token, the  *)
(* guards of each root field decide, the resolver queries or writes, data  *)
(* loaders fetch what the answer refers to, and field rules have the last  *)
(* word.  Requests interleave at every await.                              *)
(*                                                                         *)
(* Details of accounts and sessions are in Accounts and Sessions, of       *)
(* prices and images in Catalogue, of the index's upkeep in SearchIndex.   *)
(***************************************************************************)
EXTENDS Queries

CONSTANTS
    User, Nft, Collection,   \* ids
    Tag, Licence, Gram,      \* names of tags and of licences, n-grams of texts
    Call,                    \* one id per request
    NoRequest,               \* a request that has not arrived
    Case,                    \* bound: databases to start from, and what is asked of them
    ProfilesPerPage, NftsPerPage, CollectionsPerPage,   \* parts of a page of the newsfeed
    HitsPerPage,             \* the length of a page of the search
    MaxFaults                \* bound: rejected operations

ASSUME RequestConstants ==
    /\ None \notin User /\ MaxFaults \in Nat
    /\ {ProfilesPerPage, NftsPerPage, CollectionsPerPage, HitsPerPage} \subseteq Nat \ {0}
    /\ User \cap Nft = {} /\ User \cap Collection = {} /\ Nft \cap Collection = {}
    /\ \A ids \in UNION {SUBSET User, SUBSET Nft, SUBSET Collection, SUBSET Tag} : ids # None
    /\ None # {"Sold"}

VARIABLES
    ruled,        \* whether the rules of the abstract BaseUser reach its subclass User
    users, nfts, collections, tags, licences,   \* collections: functions from ids
    history,      \* the NFT history, oldest first
    index,        \* the search index
    fetching,     \* started fetches of collections' images: the step that comes next
    bucket,       \* collections whose image is stored
    touching,     \* updates of lastActivity that nobody awaits
    clock,        \* counts what is dated
    calls,        \* requests
    asked, left,  \* what clients may still ask, and how often
    faults

stores == <<users, nfts, collections, tags, licences, history, index>>
images == <<fetching, bucket>>
requestVars == <<ruled, stores, images, touching, clock, calls, asked, left, faults>>

-----------------------------------------------------------------------------
(* Endpoints and tokens *)

RoleEndpoint == {"me", "updateMe", "createNft", "createCollection"}
DevEndpoint == {"_devRunElasticsearchNftTestSuite"}
PublicEndpoint == {"users", "nfts", "collections", "nftHistory", "getAllTags", "licences",
                   "signup", "createTag", "createLicence", "nftSearch", "nftFeed", "newsfeed"}
Endpoint == RoleEndpoint \cup DevEndpoint \cup PublicEndpoint

\* The Authorization header: nothing, what no token can be read from (not a
\* bearer, forged, expired), or a token of a type.
Nothing == [kind |-> "nothing"]
Junk == [kind |-> "junk"]
Token(type, sub, role) == [kind |-> type, sub |-> sub, role |-> role]

NoPayload == [sub |-> None, role |-> None]

\* Mutant: any token signed by the server will do.
ContextOfAnyToken(header) ==
    [payload |-> IF header.kind \in {"Auth", "Refresh"}
                   THEN [sub |-> header.sub, role |-> header.role] ELSE NoPayload,
     error |-> header.kind = "junk"]

\* The context never throws: a guard or a rule looks at the error later.
Context(header) ==
    [payload |-> IF header.kind = "Auth" THEN [sub |-> header.sub, role |-> header.role]
                                         ELSE NoPayload,
     error |-> header.kind \in {"junk", "Refresh"}]

DevEndpointGuard(devToken) ==
    CASE devToken = "none" -> "UNAUTHENTICATED" [] devToken = "wrong" -> "FORBIDDEN"
      [] devToken = "right" -> "OK"

RolesGuard(ctx) ==
    IF ctx.error \/ ctx.payload = NoPayload THEN "UNAUTHENTICATED"
    ELSE IF ctx.payload.role # "User" THEN "FORBIDDEN" ELSE "OK"

\* Mutant: the error is looked at before the policy of the endpoint.
GuardErrorFirst(e, ctx, devToken) ==
    IF ctx.error THEN "UNAUTHENTICATED"
    ELSE CASE e \in PublicEndpoint -> "OK" [] e \in DevEndpoint -> DevEndpointGuard(devToken)
           [] e \in RoleEndpoint -> RolesGuard(ctx)

\* EndpointAuthMonitorGuard lets an endpoint pass by its policy, whose own guard
\* comes next.
Guard(e, ctx, devToken) ==
    CASE e \in PublicEndpoint -> "OK" [] e \in DevEndpoint -> DevEndpointGuard(devToken)
      [] e \in RoleEndpoint -> RolesGuard(ctx)

-----------------------------------------------------------------------------
(* What is stored and what may be asked *)

\* What the Mongoose schemas require of documents, at a time.
UserDoc(user, now) ==
    /\ {"rev", "lastActivity", "followerIds", "bookmarks", "tagsId"} \subseteq DOMAIN user
    /\ user.rev \in Nat /\ user.lastActivity \in 0..now /\ user.tagsId \in SUBSET Tag
SaleDoc(sale) ==
    /\ sale.kind \in {"FixedPrice", "Auction", "OpenToOffer"}
    /\ sale.kind = "FixedPrice" => sale.price \in Int
    /\ sale.kind = "Auction" => sale.startingPrice \in Int /\ sale.highestBid \in Nat
NftDoc(nft, now) ==
    /\ nft.tagIds \in SUBSET Tag /\ nft.grams \in SUBSET Gram
    /\ nft.createdAt \in 0..now /\ nft.creatorId \in User
    /\ nft.collectionId \in Collection /\ SaleDoc(nft.sale)
CollectionDoc(k, now) ==
    /\ {"mintAddress", "tagIds", "creatorId", "createdAt", "thumbnail"} \subseteq DOMAIN k
    /\ k.createdAt \in 0..now /\ k.thumbnail \in {"link", "stored"}
    /\ k.tagIds \in SUBSET Tag /\ k.creatorId \in User

\* What the schema of GraphQL lets in: a document that is to be created has the
\* fields of its kind, whose tags, creator and date the service sets; pages are
\* integers.  (The page of nftFeed is a Float there; fractions are left out.)
ValidField(f) ==
    /\ f.endpoint \in Endpoint
    /\ f.endpoint = "signup" =>
          UserDoc(f.doc, 0) /\ f.doc.followerIds = {} /\ f.doc.bookmarks = {}
    /\ f.endpoint = "updateMe" => f.tagsId = None \/ f.tagsId \in SUBSET Tag
    /\ f.endpoint \in {"createNft", "createCollection"} =>
          {"tagIds", "creatorId", "createdAt"} \subseteq DOMAIN f.doc
    /\ f.endpoint = "createNft" =>
          /\ {"grams", "collectionId", "sale"} \subseteq DOMAIN f.doc
          /\ f.doc.grams \in SUBSET Gram /\ f.doc.collectionId \in Collection
          /\ SaleDoc(f.doc.sale)
    /\ f.endpoint = "createCollection" =>
          {"mintAddress", "thumbnail"} \subseteq DOMAIN f.doc /\ f.doc.thumbnail = "link"
    /\ f.endpoint \in {"nfts", "collections"} =>
          /\ DOMAIN f.args = {"page", "perPage", "sortField", "sortOrder"}
          /\ {f.args.page, f.args.perPage} \subseteq Int \cup {None}
    /\ f.endpoint \in {"newsfeed", "nftSearch", "nftFeed"} => f.page \in Int \cup {None}
    /\ f.endpoint = "createTag" => f.name \in Tag
    /\ f.endpoint = "createLicence" => f.name \in Licence

\* A document has a root field, and the server signs tokens of users.
ValidRequest(r) ==
    /\ r.header.kind = "Auth" /\ r.header.role = "User" => r.header.sub \in User
    /\ r.devToken \in {"none", "wrong", "right"}
    /\ Len(r.fields) \in Nat \ {0} /\ DOMAIN r.fields = 1..Len(r.fields)
    /\ \A i \in DOMAIN r.fields : ValidField(r.fields[i])

\* A database that the services wrote, of which no image has been fetched.  What
\* is bookmarked or recorded is not checked, but is no NFT that is still to be made.
Consistent(case) ==
    /\ case.clock \in Nat /\ case.left \in Nat
    /\ IsFiniteSet(DOMAIN case.users) /\ IsFiniteSet(DOMAIN case.nfts)
    /\ IsFiniteSet(DOMAIN case.collections)
    /\ DOMAIN case.users \subseteq User /\ DOMAIN case.nfts \subseteq Nft
    /\ DOMAIN case.collections \subseteq Collection /\ case.indexed \subseteq DOMAIN case.nfts
    /\ DOMAIN case.tags \subseteq Tag /\ DOMAIN case.licences \subseteq Licence
    /\ \A u \in DOMAIN case.users : UserDoc(case.users[u], case.clock)
    /\ \A n \in DOMAIN case.nfts :
          NftDoc(case.nfts[n], case.clock) /\ case.nfts[n].tagIds \subseteq DOMAIN case.tags
    /\ \A k \in DOMAIN case.collections :
          /\ CollectionDoc(case.collections[k], case.clock) /\ case.collections[k].thumbnail = "link"
          /\ case.collections[k].tagIds \subseteq DOMAIN case.tags
    /\ \A k, l \in DOMAIN case.collections :
          k # l => case.collections[k].mintAddress # case.collections[l].mintAddress
    /\ \A u \in DOMAIN case.users : case.users[u].bookmarks \cap Nft \subseteq DOMAIN case.nfts
    /\ \A i \in DOMAIN case.history :
          case.history[i].nftId \in Nft => case.history[i].nftId \in DOMAIN case.nfts
    /\ \A r \in case.asked : ValidRequest(r)

ASSUME RequestCases == \A case \in Case : Consistent(case)

-----------------------------------------------------------------------------
(* Requests *)

\* A request has a header, a dev token and root fields, several if a mutation;
\* a field names its endpoint and arguments.
Rows == [users |-> <<>>, nfts |-> <<>>, collections |-> <<>>, records |-> <<>>]

\* Of the current field, rows: what it returned; stamp: the date of what it makes;
\* due: loaders still to run; hits, preferences: of a search.  cache, shown: users
\* loaded and versions handed out; read: users in the answer.  Ghosts: began, the
\* versions of users at arrival; made, what was inserted; ran, resolvers started;
\* after, calls done at arrival; active, dates of activity when profiles were read.
NoCall == [stage |-> "idle", ask |-> NoRequest, ctx |-> [payload |-> NoPayload, error |-> FALSE],
           at |-> 0, rows |-> Rows, stamp |-> 0, due |-> {}, cache |-> <<>>, shown |-> {},
           read |-> {}, allowed |-> {}, hits |-> <<>>, preferences |-> NoPreferences, code |-> "none",
           began |-> <<>>, made |-> {}, ran |-> {}, after |-> {}, active |-> <<>>]

\* A step that changes its request only.
OnlyCalls == UNCHANGED <<ruled, stores, images, touching, clock, asked, left, faults>>

Field(call) == call.ask.fields[call.at]
Me(call) == call.ctx.payload.sub
At(c, stage, e) == calls[c].stage = stage /\ Field(calls[c]).endpoint = e
Becomes(c, call) == calls' = [calls EXCEPT ![c] = call]
Answered(call, code) == [call EXCEPT !.stage = "done", !.code = code]
Answers(c, code) == Becomes(c, Answered(calls[c], code))

\* The next root field: its guards run before its resolver.
Resolved(call, at) ==
    LET e == call.ask.fields[at].endpoint
        verdict == Guard(e, call.ctx, call.ask.devToken)
    IN  IF verdict = "OK"
          THEN [call EXCEPT !.stage = "run", !.at = at, !.ran = @ \cup {e}, !.rows = Rows]
          ELSE Answered([call EXCEPT !.at = at], verdict)

Init ==
    /\ ruled \in BOOLEAN
    /\ \E case \in Case :
          /\ users = case.users /\ nfts = case.nfts /\ collections = case.collections
          /\ tags = case.tags /\ licences = case.licences /\ history = case.history
          /\ index = [n \in case.indexed |->
                        DocumentMapping(n, case.nfts[n], case.history, case.users)]
          /\ asked = case.asked /\ left = case.left /\ clock = case.clock
    /\ fetching = {} /\ bucket = {} /\ touching = {} /\ faults = 0
    /\ calls = [c \in Call |-> NoCall]

Arrive(c, r) ==
    /\ calls[c].stage = "idle" /\ left > 0
    /\ left' = left - 1
    /\ Becomes(c, Resolved([NoCall EXCEPT !.ask = r, !.ctx = Context(r.header),
                                          !.began = [u \in DOMAIN users |-> users[u].rev],
                                          !.after = {d \in Call : calls[d].stage = "done"}], 1))
    /\ UNCHANGED <<ruled, stores, images, touching, clock, asked, faults>>

-----------------------------------------------------------------------------
(* What an answer refers to *)

\* The documents of users in rows are kept as they were read.
Profile(u) == [_id |-> u, rev |-> users[u].rev, tagsId |-> users[u].tagsId]
Profiles(s) == [i \in DOMAIN s |-> Profile(s[i])]
Ids(s) == {s[i]._id : i \in DOMAIN s}

CollectionKeys(call) == {nfts[n].collectionId : n \in ToSet(call.rows.nfts)}
NftKeys(call) == UNION {users[u].bookmarks : u \in Ids(call.rows.users)}
TagKeys(call) ==
    UNION ({nfts[n].tagIds : n \in ToSet(call.rows.nfts)}
             \cup {collections[k].tagIds : k \in ToSet(call.rows.collections)}
             \cup {user.tagsId : user \in ToSet(call.rows.users)})
Owners(call) == {nfts[n].ownerId : n \in ToSet(call.rows.nfts)}
\* A record of the history refers to its seller and buyer, or to an owner.
Parties(record) ==
    IF record.kind = "Sold" THEN {record.sellerId, record.buyerId} ELSE {record.ownerId}
UserKeys(call) ==
    {nfts[n].creatorId : n \in ToSet(call.rows.nfts)}
      \cup (IF call.ask.owners THEN Owners(call) \ {None} ELSE {})
      \cup {collections[k].creatorId : k \in ToSet(call.rows.collections)}
      \cup UNION {users[u].followerIds : u \in Ids(call.rows.users)}
      \cup UNION {Parties(history[i]) : i \in ToSet(call.rows.records)}
\* The creators of the collections of NFTs are asked for when those are loaded.
LateUserKeys(call) == {collections[k].creatorId : k \in CollectionKeys(call)}

Refs == {"collections", "nfts", "tags"}
Keys(call, loader) ==
    CASE loader = "collections" -> CollectionKeys(call) [] loader = "nfts" -> NftKeys(call)
      [] loader = "tags" -> TagKeys(call) [] loader = "users" -> UserKeys(call)
Stored(loader) ==
    CASE loader = "collections" -> DOMAIN collections [] loader = "nfts" -> DOMAIN nfts
      [] loader = "tags" -> DOMAIN tags

\* A resolver returns; the fields below it call the loaders.
Returning(call, rows) ==
    LET next == [call EXCEPT !.stage = "load", !.rows = rows, !.read = @ \cup Ids(rows.users)]
    IN  [next EXCEPT !.due = {l \in Refs \cup {"users"} : Keys(next, l) # {}}]
Returns(c, rows) == Becomes(c, Returning(calls[c], rows))

\* One query for all keys of a loader, and one error for all if one is missing.
LoadRefs(c) ==
    \E loader \in calls[c].due \cap Refs :
        /\ calls[c].stage = "load"
        /\ IF Keys(calls[c], loader) \subseteq Stored(loader)
             THEN Becomes(c, [calls[c] EXCEPT !.due = (@ \ {loader})
                        \cup (IF loader = "collections" THEN {"lateUsers"} ELSE {})])
             ELSE Answers(c, "INTERNAL")
        /\ OnlyCalls

\* Mutant: each resolver makes a loader of its own.
LoadUsersAnew(c) ==
    \E loader \in calls[c].due \cap {"users", "lateUsers"} :
        LET keys == IF loader = "users" THEN UserKeys(calls[c]) ELSE LateUserKeys(calls[c])
        IN  /\ calls[c].stage = "load"
            /\ IF keys \subseteq DOMAIN users
                 THEN Becomes(c, [calls[c] EXCEPT !.due = @ \ {loader},
                        !.shown = @ \cup {<<u, users[u].rev>> : u \in keys},
                        !.read = @ \cup keys])
                 ELSE Answers(c, "INTERNAL")
            /\ OnlyCalls

\* The loader of users, which the request's context keeps: only keys that it
\* has not loaded yet are queried, and what it has loaded is handed out again.
LoadUsers(c) ==
    \E loader \in calls[c].due \cap {"users", "lateUsers"} :
        LET keys   == IF loader = "users" THEN UserKeys(calls[c]) ELSE LateUserKeys(calls[c])
            cached == DOMAIN calls[c].cache
            cache  == [u \in cached \cup keys |->
                          IF u \in cached THEN calls[c].cache[u] ELSE users[u].rev]
        IN  /\ calls[c].stage = "load"
            /\ IF keys \ cached \subseteq DOMAIN users
                 THEN Becomes(c, [calls[c] EXCEPT !.due = @ \ {loader}, !.cache = cache,
                        !.shown = @ \cup {<<u, cache[u]>> : u \in keys},
                        !.read = @ \cup keys])
                 ELSE Answers(c, "INTERNAL")
            /\ OnlyCalls

\* The two rules of a user's document d: one's own, or allowed by this request.
\* The first throws where the token could not be read.
CanReadHisOwn(call, d) == Me(call) = d
CanReadAuthorized(call, d) == d \in call.allowed

\* Field rules have their say after everything.  What the second says may count
\* or not when the first has thrown.
Verdicts(call) ==
    CASE ~ruled \/ call.read = {} -> {"OK"}
      [] ruled /\ call.read # {} /\ call.ctx.error ->
            {"UNAUTHORIZED"} \cup
              (IF \A d \in call.read : CanReadAuthorized(call, d) THEN {"OK"} ELSE {})
      [] OTHER -> {IF \A d \in call.read : CanReadHisOwn(call, d) \/ CanReadAuthorized(call, d)
                     THEN "OK" ELSE "FORBIDDEN"}

\* The field is complete.  An NFT without an owner fails where its owner, which
\* is never null in the schema, is selected.
Finish(c) ==
    LET call == calls[c] IN
    /\ call.stage = "load" /\ call.due = {}
    /\ \/ /\ call.ask.owners /\ None \in Owners(call)
          /\ Answers(c, "INTERNAL")
       \/ /\ ~(call.ask.owners /\ None \in Owners(call))
          /\ IF call.at < Len(call.ask.fields) THEN Becomes(c, Resolved(call, call.at + 1))
             ELSE \E code \in Verdicts(call) : Answers(c, code)
    /\ OnlyCalls

-----------------------------------------------------------------------------
(* Reading *)

\* getMany of each service: what a query may return.
GetUsers(filter, page) ==
    Find({u \in DOMAIN users : UserMatches(filter, u, users[u])}, users, page)
GetNfts(filter, page) == Find({n \in DOMAIN nfts : NftMatches(filter, n, nfts[n])}, nfts, page)
GetCollections(filter, page) ==
    Find({k \in DOMAIN collections : CollectionMatches(filter, k, collections[k])},
         collections, page)
GetRecords(filter, page) ==
    Find({i \in DOMAIN history : HistoryMatches(filter, history[i])}, history, page)
GetTags(filter, page) ==
    Find({t \in DOMAIN tags : NameMatches(filter, t)}, tags, [page EXCEPT !.field = "index"])
GetLicences(filter, page) ==
    Find({l \in DOMAIN licences : NameMatches(filter, l)}, licences, page)

\* A listing by pages: the limit is checked, then the query is sent; answers are
\* the rows it may return.
Lists(c, e, answers) ==
    LET f == Field(calls[c]) IN
    /\ At(c, "run", e)
    /\ IF OverLimit(f.args) THEN Answers(c, "BAD_USER_INPUT")
       ELSE IF SkipRefused(ToMongo(f.args)) \/ (e = "nfts" /\ NftFilterRefused(f.filter))
         THEN Answers(c, "INTERNAL")
       ELSE \E rows \in answers : Returns(c, rows)
    /\ OnlyCalls

ListUsers(c) ==
    LET f == Field(calls[c]) IN
    Lists(c, "users",
          {[Rows EXCEPT !.users = Profiles(s)] : s \in GetUsers(f.filter, ToMongo(f.args))})
ListNfts(c) ==
    LET f == Field(calls[c]) IN
    Lists(c, "nfts", {[Rows EXCEPT !.nfts = s] : s \in GetNfts(f.filter, ToMongo(f.args))})
ListCollections(c) ==
    LET f == Field(calls[c]) IN
    Lists(c, "collections",
          {[Rows EXCEPT !.collections = s] : s \in GetCollections(f.filter, ToMongo(f.args))})
ListHistory(c) ==
    LET f == Field(calls[c]) IN
    Lists(c, "nftHistory",
          {[Rows EXCEPT !.records = s] : s \in GetRecords(f.filter, ToMongo(f.args))})

\* All tags, in the order of their indexes, and all licences, without pages.
ListTags(c) ==
    /\ At(c, "run", "getAllTags")
    /\ \E s \in GetTags(AnyName, Unpaged) : Returns(c, Rows)
    /\ OnlyCalls

ListLicences(c) ==
    /\ At(c, "run", "licences")
    /\ \E s \in GetLicences(AnyName, Unpaged) : Returns(c, Rows)
    /\ OnlyCalls

ReadMe(c) ==
    /\ At(c, "run", "me")
    /\ IF Me(calls[c]) \in DOMAIN users
         THEN Returns(c, [Rows EXCEPT !.users = <<Profile(Me(calls[c]))>>])
         ELSE Answers(c, "BAD_USER_INPUT")
    /\ OnlyCalls

\* Mutant: one more is skipped than a page holds.
FeedPageShort(f, size, field) ==
    [skip |-> Or(f.page, 0) * (size + 1), limit |-> size, field |-> field, sort |-> "Desc"]

\* The newsfeed's three queries, one after the other.  Its items are shuffled
\* by a seed, so their order says nothing and is left out.
FeedPage(f, size, field) ==
    [skip |-> Or(f.page, 0) * size, limit |-> size, field |-> field, sort |-> "Desc"]

ReadFeedProfiles(c) ==
    LET page == FeedPage(Field(calls[c]), ProfilesPerPage, "lastActivity") IN
    /\ At(c, "run", "newsfeed")
    /\ IF SkipRefused(page) THEN Answers(c, "INTERNAL")
       ELSE \E s \in GetUsers(AnyUser, page) :
              Becomes(c, [calls[c] EXCEPT !.stage = "feedNfts", !.rows.users = Profiles(s),
                            !.active = [u \in DOMAIN users |-> users[u].lastActivity]])
    /\ OnlyCalls

ReadFeedNfts(c) ==
    /\ At(c, "feedNfts", "newsfeed")
    /\ \E s \in GetNfts(AnyNft, FeedPage(Field(calls[c]), NftsPerPage, "createdAt")) :
          Becomes(c, [calls[c] EXCEPT !.stage = "feedCollections", !.rows.nfts = s])
    /\ OnlyCalls

ReadFeedCollections(c) ==
    LET page == FeedPage(Field(calls[c]), CollectionsPerPage, "createdAt") IN
    /\ At(c, "feedCollections", "newsfeed")
    /\ \E s \in GetCollections(AnyCollection, page) :
          Returns(c, [calls[c].rows EXCEPT !.collections = s])
    /\ OnlyCalls

\* nftFeed: the preferences of whoever the token is of, if there is a token.
\* There are three more queries after the user's; what they read is what no request
\* of this module writes.
Prefer(c) ==
    LET me == Me(calls[c]) IN
    /\ At(c, "run", "nftFeed")
    /\ IF me # None /\ me \notin DOMAIN users THEN Answers(c, "INTERNAL")
       ELSE Becomes(c, [calls[c] EXCEPT !.stage = "search", !.preferences =
                IF me = None THEN NoPreferences ELSE Preferences(me, users, nfts, history)])
    /\ OnlyCalls

SearchArgs(call) ==
    LET f == Field(call)  likes == call.preferences
    IN  [titleOrDescription |-> f.titleOrDescription, saleKinds |-> f.saleKinds,
         minPrice |-> f.minPrice, maxPrice |-> f.maxPrice, requiredTagIds |-> f.tagIds,
         recentBuyerIds |-> likes.recentBuyerIds, bookmarkedByUserIds |-> likes.bookmarkedByUserIds,
         viewerIds |-> likes.viewerIds, favoredTagIds |-> likes.favoredTagIds,
         creatorIds |-> likes.creatorIds, collectionIds |-> likes.collectionIds]

Search(c) ==
    LET f == Field(calls[c])
        page == [Unpaged EXCEPT !.skip = Or(f.page, 0) * HitsPerPage, !.limit = HitsPerPage]
    IN  /\ At(c, "run", "nftSearch") \/ At(c, "search", "nftFeed")
        /\ IF SkipRefused(page) THEN Answers(c, "INTERNAL")
           ELSE \E s \in Hits(SearchArgs(calls[c]), index) :
                  Becomes(c, [calls[c] EXCEPT !.stage = "fetch", !.hits = Cut(s, page)])
        /\ OnlyCalls

FetchHits(c) ==
    /\ At(c, "fetch", "nftSearch") \/ At(c, "fetch", "nftFeed")
    /\ Returns(c, [Rows EXCEPT !.nfts = Present(calls[c].hits, nfts)])
    /\ OnlyCalls

\* The offline tests of the search read nothing of what is modelled.
RunTests(c) ==
    /\ At(c, "run", "_devRunElasticsearchNftTestSuite")
    /\ Returns(c, Rows)
    /\ OnlyCalls

-----------------------------------------------------------------------------
(* Writing *)

Put(docs, id, doc) == [x \in DOMAIN docs \cup {id} |-> IF x = id THEN doc ELSE docs[x]]

NewProfile(c, u) == [_id |-> u, rev |-> 0, tagsId |-> Field(calls[c]).doc.tagsId]

\* Mutant: the permission to read the new document is not the request's own.
SignUpForAll(c) ==
    \E u \in User \ DOMAIN users :
        /\ At(c, "run", "signup")
        /\ users' = Put(users, u, [Field(calls[c]).doc EXCEPT !.createdAt = clock + 1])
        /\ clock' = clock + 1
        /\ calls' = [d \in Call |->
              IF d # c THEN [calls[d] EXCEPT !.allowed = @ \cup {u}]
              ELSE [calls[c] EXCEPT !.stage = "load", !.read = @ \cup {u},
                      !.rows = [Rows EXCEPT !.users = <<NewProfile(c, u)>>],
                      !.allowed = @ \cup {u}, !.made = @ \cup {u}]]
        /\ UNCHANGED <<ruled, nfts, collections, tags, licences, history, index, images, touching,
                       asked, left, faults>>

\* The new user may be read by this request (setAsAuthorizedDocument).
SignUp(c) ==
    \E u \in User \ DOMAIN users :
        /\ At(c, "run", "signup")
        /\ users' = Put(users, u, [Field(calls[c]).doc EXCEPT !.createdAt = clock + 1])
        /\ clock' = clock + 1
        /\ Becomes(c, [calls[c] EXCEPT !.stage = "load", !.read = @ \cup {u},
                         !.rows = [Rows EXCEPT !.users = <<NewProfile(c, u)>>],
                         !.allowed = @ \cup {u}, !.made = @ \cup {u}])
        /\ UNCHANGED <<ruled, nfts, collections, tags, licences, history, index, images, touching,
                       asked, left, faults>>

\* updateUser, of which rev is what was updated, and the tags that the feed prefers.
\* Tags must exist; they are never deleted, so asking an await earlier is the same.
\* The date of activity is taken now and stored whenever it lands.  Without a
\* document nothing is returned where the schema has no null.
UpdateMe(c) ==
    LET me     == Me(calls[c])
        tagsId == Field(calls[c]).tagsId
        new    == [users[me] EXCEPT !.rev = @ + 1, !.tagsId = IF tagsId = None THEN @ ELSE tagsId]
    IN
    /\ At(c, "run", "updateMe")
    /\ IF tagsId # None /\ Missing(tagsId, DOMAIN tags) # {}
         THEN Answers(c, "BAD_USER_INPUT") /\ UNCHANGED <<users, touching, clock>>
       ELSE
         /\ IF me \in DOMAIN users
              THEN /\ users' = [users EXCEPT ![me] = new]
                   /\ Returns(c, [Rows EXCEPT !.users =
                                    <<[_id |-> me, rev |-> new.rev, tagsId |-> new.tagsId]>>])
              ELSE Answers(c, "INTERNAL") /\ UNCHANGED users
         /\ clock' = clock + 1
         /\ touching' = touching \cup {[user |-> me, at |-> clock + 1]}
    /\ UNCHANGED <<ruled, nfts, collections, tags, licences, history, index, images, asked, left,
                   faults>>

Touch(t) ==
    /\ touching' = touching \ {t}
    /\ users' = IF t.user \in DOMAIN users
                  THEN [users EXCEPT ![t.user].lastActivity = t.at] ELSE users
    /\ UNCHANGED <<ruled, nfts, collections, tags, licences, history, index, images, clock, calls,
                   asked, left, faults>>

\* Names are unique indexes.
CreateTag(c) ==
    LET f == Field(calls[c]) IN
    /\ At(c, "run", "createTag")
    /\ IF f.name \in DOMAIN tags THEN Answers(c, "CONFLICT") /\ UNCHANGED tags
       ELSE Returns(c, Rows) /\ tags' = Put(tags, f.name, [index |-> f.index])
    /\ UNCHANGED <<ruled, users, nfts, collections, licences, history, index, images, touching,
                   clock, asked, left, faults>>

CreateLicence(c) ==
    LET f == Field(calls[c]) IN
    /\ At(c, "run", "createLicence")
    /\ IF f.name \in DOMAIN licences THEN Answers(c, "CONFLICT") /\ UNCHANGED licences
       ELSE Returns(c, Rows) /\ licences' = Put(licences, f.name, [index |-> 0])
    /\ UNCHANGED <<ruled, users, nfts, collections, tags, history, index, images, touching, clock,
                   asked, left, faults>>

\* The validation of inputs wants a list, which the schema lets be absent.
ValidInput(f) == f.tagIds # None

\* The tags are to exist.  The document is dated before it is sent.
ValidateTags(c) ==
    LET f == Field(calls[c]) IN
    /\ At(c, "run", "createNft") \/ At(c, "run", "createCollection")
    /\ IF ~ValidInput(f) \/ Missing(f.tagIds, DOMAIN tags) # {}
         THEN Answers(c, "BAD_USER_INPUT") /\ UNCHANGED clock
         ELSE /\ clock' = clock + 1
              /\ Becomes(c, [calls[c] EXCEPT !.stage = "insert", !.stamp = clock + 1])
    /\ UNCHANGED <<ruled, stores, images, touching, asked, left, faults>>

\* Mutant: as of NFTs, there is no index on the mint address.
InsertCollectionUnindexed(c) ==
    \E k \in Collection \ DOMAIN collections :
        /\ At(c, "insert", "createCollection")
        /\ collections' = Put(collections, k, [Field(calls[c]).doc EXCEPT
                !.tagIds = Field(calls[c]).tagIds, !.creatorId = Me(calls[c]),
                !.createdAt = calls[c].stamp])
        /\ Becomes(c, [calls[c] EXCEPT !.stage = "load", !.made = @ \cup {k}])
        /\ UNCHANGED <<ruled, users, nfts, tags, licences, history, index, images, touching, clock,
                       asked, left, faults>>

\* The mint address is a unique index.  A handler of the image is started.
InsertCollection(c) ==
    LET f == Field(calls[c])
        taken == \E k \in DOMAIN collections : collections[k].mintAddress = f.doc.mintAddress
    IN
    /\ At(c, "insert", "createCollection")
    /\ \/ taken /\ Answers(c, "CONFLICT") /\ UNCHANGED <<collections, fetching>>
       \/ /\ ~taken
          /\ \E k \in Collection \ DOMAIN collections :
                /\ collections' = Put(collections, k, [f.doc EXCEPT !.tagIds = f.tagIds,
                      !.creatorId = Me(calls[c]), !.createdAt = calls[c].stamp])
                /\ Becomes(c, [calls[c] EXCEPT !.stage = "load", !.made = @ \cup {k},
                      !.rows = [Rows EXCEPT !.collections = <<k>>],
                      !.due = {"users"} \cup (IF f.tagIds = {} THEN {} ELSE {"tags"})])
                /\ fetching' = fetching \cup {[collection |-> k, step |-> "fetch"]}
    /\ UNCHANGED <<ruled, users, nfts, tags, licences, history, index, bucket, touching, clock,
                   asked, left, faults>>

\* fetchCollectionImageBlockchain up to the end of its upload.
FetchImage(j) ==
    /\ j.step = "fetch"
    /\ bucket' = bucket \cup {j.collection}
    /\ fetching' = (fetching \ {j}) \cup {[j EXCEPT !.step = "update"]}
    /\ UNCHANGED <<ruled, stores, touching, clock, calls, asked, left, faults>>

\* updateThumbnail, its last await.
UpdateThumbnail(j) ==
    /\ j.step = "update"
    /\ collections' = [collections EXCEPT ![j.collection].thumbnail = "stored"]
    /\ fetching' = fetching \ {j}
    /\ UNCHANGED <<ruled, users, nfts, tags, licences, history, index, bucket, touching, clock,
                   calls, asked, left, faults>>

\* Mutant: the creator is left out.
InsertNftAnonymous(c) ==
    \E n \in Nft \ DOMAIN nfts :
        /\ At(c, "insert", "createNft")
        /\ nfts' = Put(nfts, n, [Field(calls[c]).doc EXCEPT !.tagIds = Field(calls[c]).tagIds,
                                                            !.createdAt = calls[c].stamp])
        /\ Becomes(c, [calls[c] EXCEPT !.stage = "load", !.made = @ \cup {n},
                !.rows = [Rows EXCEPT !.nfts = <<n>>], !.due = {"users", "collections"}])
        /\ UNCHANGED <<ruled, users, collections, tags, licences, history, index, images, touching,
                       clock, asked, left, faults>>

\* Neither the collection nor the mint address is checked, nobody owns the NFT,
\* and the index does not hear of it (SearchIndex says why).
InsertNft(c) ==
    \E n \in Nft \ DOMAIN nfts :
        LET f == Field(calls[c]) IN
        /\ At(c, "insert", "createNft")
        /\ nfts' = Put(nfts, n, [f.doc EXCEPT !.tagIds = f.tagIds, !.creatorId = Me(calls[c]),
                                              !.createdAt = calls[c].stamp])
        /\ Becomes(c, [calls[c] EXCEPT !.stage = "load", !.made = @ \cup {n},
                !.rows = [Rows EXCEPT !.nfts = <<n>>],
                !.due = {"users", "collections"} \cup (IF f.tagIds = {} THEN {} ELSE {"tags"})])
        /\ UNCHANGED <<ruled, users, collections, tags, licences, history, index, images, touching,
                       clock, asked, left, faults>>

-----------------------------------------------------------------------------
(* Specification *)

Running(call) == call.stage \notin {"idle", "done"}

\* A query or an update is rejected.
Fail(c) ==
    /\ Running(calls[c]) /\ faults < MaxFaults
    /\ faults' = faults + 1
    /\ Answers(c, "INTERNAL")
    /\ UNCHANGED <<ruled, stores, images, touching, clock, asked, left>>

\* The chain, the download, the bucket or MongoDB rejects; nobody hears of it.
FailFetch(j) ==
    /\ faults < MaxFaults
    /\ faults' = faults + 1
    /\ fetching' = fetching \ {j}
    /\ UNCHANGED <<ruled, stores, bucket, touching, clock, calls, asked, left>>

Listing(c) == ListUsers(c) \/ ListNfts(c) \/ ListCollections(c) \/ ListHistory(c)
                \/ ListTags(c) \/ ListLicences(c)

Read(c) == Listing(c) \/ ReadMe(c) \/ ReadFeedProfiles(c) \/ ReadFeedNfts(c)
             \/ ReadFeedCollections(c) \/ Prefer(c) \/ Search(c) \/ FetchHits(c) \/ RunTests(c)

Write(c) == SignUp(c) \/ UpdateMe(c) \/ CreateTag(c) \/ CreateLicence(c) \/ ValidateTags(c)
              \/ InsertCollection(c) \/ InsertNft(c)

Next ==
    \/ \E c \in Call :
          \/ \E r \in asked : Arrive(c, r)
          \/ Read(c) \/ Write(c) \/ LoadRefs(c) \/ LoadUsers(c) \/ Finish(c) \/ Fail(c)
    \/ \E j \in fetching : FetchImage(j) \/ UpdateThumbnail(j) \/ FailFetch(j)
    \/ \E t \in touching : Touch(t)

Spec == Init /\ [][Next]_requestVars

-----------------------------------------------------------------------------
(* Properties *)

Stages == {"idle", "run", "feedNfts", "feedCollections", "search", "fetch", "insert", "load",
           "done"}
Codes == {"none", "OK", "UNAUTHENTICATED", "FORBIDDEN", "UNAUTHORIZED", "BAD_USER_INPUT",
          "CONFLICT", "INTERNAL"}

\* Type invariant: every document keeps its shape, whoever wrote it.
TypeOK ==
    /\ ruled \in BOOLEAN /\ clock \in Nat /\ left \in Nat /\ faults \in 0..MaxFaults
    /\ DOMAIN users \subseteq User /\ DOMAIN index \subseteq DOMAIN nfts
    /\ DOMAIN nfts \subseteq Nft /\ DOMAIN collections \subseteq Collection
    /\ DOMAIN tags \subseteq Tag /\ DOMAIN licences \subseteq Licence
    /\ \A u \in DOMAIN users : UserDoc(users[u], clock)
    /\ \A n \in DOMAIN nfts : NftDoc(nfts[n], clock)
    /\ \A k \in DOMAIN collections : CollectionDoc(collections[k], clock)
    /\ fetching \subseteq [collection: DOMAIN collections, step: {"fetch", "update"}]
    /\ bucket \subseteq DOMAIN collections
    /\ \A t \in touching : t.user \in User /\ t.at \in 1..clock
    /\ \A c \in Call :
          /\ calls[c].stage \in Stages /\ calls[c].code \in Codes
          /\ (calls[c].code = "none") = (calls[c].stage # "done")

\* What only users may do is only ever done for the bearer of an Auth token of
\* a user, whatever token or field came before in the request, and what it makes
\* is that user's; the development endpoints run for the development token
\* (endpoint-auth-monitor.guard.ts, role.guard.ts, graphql.module.ts context).
GuardedRunsAuthenticated ==
    \A c \in Call : LET call == calls[c] IN
        /\ call.ran \cap DevEndpoint # {} => call.ask.devToken = "right"
        /\ call.ran \cap RoleEndpoint # {} =>
              /\ call.ask.header.kind = "Auth" /\ call.ask.header.role = "User"
              /\ \A n \in call.made \cap Nft : nfts[n].creatorId = call.ask.header.sub
              /\ \A k \in call.made \cap Collection :
                    collections[k].creatorId = call.ask.header.sub

\* No guard keeps anybody from a public endpoint, whatever the token ("do not
\* throw, since this may be a public endpoint", graphql.module.ts:88).  What may
\* refuse the answer afterwards is a rule of BaseUser, where those are in force:
\* if the answer shows users and the token cannot be used, or if it shows a user
\* who is neither the requester nor made by this request.
PublicFieldsAnswered ==
    \A c \in Call : LET call == calls[c] IN
        (/\ call.stage = "done"
         /\ \A i \in DOMAIN call.ask.fields : call.ask.fields[i].endpoint \in PublicEndpoint)
          => /\ call.code # "UNAUTHENTICATED"
             /\ call.code = "UNAUTHORIZED" =>
                   ruled /\ call.read # {} /\ call.ask.header.kind \in {"junk", "Refresh"}
             /\ call.code = "FORBIDDEN" =>
                   ruled /\ ~(call.read \subseteq {Me(call)} \cup (call.made \cap User))

\* Where the rules of BaseUser are in force, an answer shows the requester and
\* users that this very request made, and nobody else, whichever loaders and
\* other requests brought their documents (authz-rules.ts, setAsAuthorizedDocument).
ForeignDocsWithheld ==
    \A c \in Call :
        ruled /\ calls[c].code = "OK" =>
            calls[c].read \subseteq {Me(calls[c])} \cup calls[c].made

\* One answer never shows two versions of one user's document by the loader, and
\* none from before the request, though the request itself and others update it
\* between two loads (get-or-create-dataloader.ts:23-36).
LoaderShowsOneVersion ==
    \A c \in Call : \A one \in calls[c].shown :
        /\ \A other \in calls[c].shown : one[1] = other[1] => one[2] = other[2]
        /\ one[1] \in DOMAIN calls[c].began => one[2] >= calls[c].began[one[1]]

\* No two collections have one mint address, a thumbnail in the bucket is an image
\* that is there, whatever step of its fetch failed, and the tags of what was
\* validated first and inserted later exist (tag.service.ts validateIdsExist).
CollectionsSound ==
    /\ \A k, l \in DOMAIN collections :
          k # l => collections[k].mintAddress # collections[l].mintAddress
    /\ \A k \in DOMAIN collections : collections[k].thumbnail = "stored" => k \in bucket
    /\ \A k \in DOMAIN collections : collections[k].tagIds \subseteq DOMAIN tags
    /\ \A n \in DOMAIN nfts : nfts[n].tagIds \subseteq DOMAIN tags

\* Pages.  d follows c: it asks for the next page of the same, after c's answer.
Asks(c, E) ==
    /\ calls[c].code = "OK" /\ Len(calls[c].ask.fields) = 1 /\ calls[c].at = 1
    /\ Field(calls[c]).endpoint \in E
Follows(d, c, page(_)) ==
    /\ c \in calls[d].after
    /\ page(Field(calls[d])) = page(Field(calls[c])) + 1

MadeSince(c) == UNION {calls[e].made : e \in Call \ calls[c].after}

\* Between two full pages, or after the last, no document is left out: rows and
\* next are what two pages hold, beyond(x, y) that x is sorted after y.
Contiguous(ids, rows, next, size, beyond(_, _)) ==
    \A x \in ids :
        Cardinality(rows) = size /\ (\A y \in rows : beyond(x, y)) =>
            \/ x \in next
            \/ Cardinality(next) = size /\ \A y \in next : ~beyond(y, x)

Docs(e) == IF e = "nfts" THEN nfts ELSE collections
Matches(f, id) == IF f.endpoint = "nfts" THEN NftMatches(f.filter, id, nfts[id])
                                         ELSE CollectionMatches(f.filter, id, collections[id])
ListedPage(f) == Or(f.args.page, 0)
Listed(c) == IF Field(calls[c]).endpoint = "nfts" THEN ToSet(calls[c].rows.nfts)
                                                  ELSE ToSet(calls[c].rows.collections)

\* Following pages of a listing sorted by date: whatever is created meanwhile,
\* the second page leaves out nothing that was there when it was asked for, and
\* repeats nothing unless something was created or two have one date
\* (graphqlToMongoPagination, paginateQuery).
PagesAreSlices ==
    \A c, d \in Call :
        (/\ Asks(c, {"nfts", "collections"}) /\ Asks(d, {Field(calls[c]).endpoint})
         /\ LET f == Field(calls[c])  g == Field(calls[d]) IN
            /\ f.filter = g.filter /\ f.args.sortField = "createdAt"
            /\ [f.args EXCEPT !.page = None] = [g.args EXCEPT !.page = None]
            /\ Follows(d, c, ListedPage)) =>
        LET f    == Field(calls[c])
            docs == Docs(f.endpoint)
            ids  == {x \in DOMAIN docs \ MadeSince(d) : Matches(f, x)}
            beyond(x, y) == IF f.args.sortOrder = "Desc"
                              THEN docs[x].createdAt < docs[y].createdAt
                              ELSE docs[x].createdAt > docs[y].createdAt
        IN  /\ Contiguous(ids, Listed(c), Listed(d), Limit(f.args), beyond)
            /\ (/\ MadeSince(c) = {}
                /\ \A x, y \in ids : x # y => docs[x].createdAt # docs[y].createdAt) =>
                  Listed(c) \cap Listed(d) = {}

\* Following pages of the newsfeed leave out no NFT, no collection and, as far as
\* nobody's activity was set back, no profile, though they are read one after the
\* other and others write between (newsfeed.service.ts:40-82).
FeedSkipsNothing ==
    \A c, d \in Call :
        (/\ Asks(c, {"newsfeed"}) /\ Asks(d, {"newsfeed"})
         /\ Follows(d, c, LAMBDA f : Or(f.page, 0))) =>
        LET then == calls[c].active
            now  == calls[d].active
            older(docs, x, y) == docs[x].createdAt < docs[y].createdAt
        IN  /\ Contiguous(DOMAIN nfts \ MadeSince(d), ToSet(calls[c].rows.nfts),
                   ToSet(calls[d].rows.nfts), NftsPerPage, LAMBDA x, y : older(nfts, x, y))
            /\ Contiguous(DOMAIN collections \ MadeSince(d), ToSet(calls[c].rows.collections),
                   ToSet(calls[d].rows.collections), CollectionsPerPage,
                   LAMBDA x, y : older(collections, x, y))
            /\ (\A u \in DOMAIN then : then[u] <= now[u]) =>
                  Contiguous({u \in DOMAIN then : then[u] = now[u]}, Ids(calls[c].rows.users),
                      Ids(calls[d].rows.users), ProfilesPerPage,
                      LAMBDA x, y : IF y \in Ids(calls[c].rows.users)
                                      THEN then[x] < then[y] ELSE now[x] < now[y])

\* A search that fits a page finds exactly the indexed NFTs that have all the
\* tags asked for, one of the kinds, the text, and a price within both bounds,
\* which for an auction is its highest bid and for open offers nothing
\* (getElasticsearchNftSearchQuery on getDocumentMapping).
SearchAnswersExactly ==
    \A c \in Call :
        Asks(c, {"nftSearch"}) /\ Or(Field(calls[c]).page, 0) = 0 =>
        LET f == Field(calls[c])
            sale(n) == nfts[n].sale
            price(n) == IF sale(n).kind = "FixedPrice" THEN sale(n).price
                        ELSE IF sale(n).highestBid > 0 THEN sale(n).highestBid
                        ELSE sale(n).startingPrice
            priced(n) == sale(n).kind # "OpenToOffer"
            found == {n \in DOMAIN index :
                /\ f.saleKinds # None => sale(n).kind \in f.saleKinds
                /\ f.minPrice # None => priced(n) /\ f.minPrice <= price(n)
                /\ f.maxPrice # None => priced(n) /\ price(n) <= f.maxPrice
                /\ f.tagIds # None => \A t \in f.tagIds : t \in nfts[n].tagIds
                /\ f.titleOrDescription # None =>
                      \E g \in f.titleOrDescription : g \in nfts[n].grams}
        IN  Cardinality(found) <= HitsPerPage => ToSet(calls[c].rows.nfts) = found

\* The feed of a user who follows somebody, and has not updated the profile since
\* asking for it, puts what fits the user first: NFTs that those followed have
\* bookmarked or bought last, or that share a tag, the creator or the collection
\* with what the user has bookmarked or bought, though preferences and hits are
\* read while others write (newsfeed.service.ts:84-130 and the search's should clauses).
FeedPrefersFitting ==
    \A c \in Call :
        LET me == Me(calls[c])
            followed == {u \in DOMAIN users : me \in users[u].followerIds}
            liked == users[me].bookmarks
                       \cup {history[i].nftId :
                                i \in {i \in DOMAIN history : history[i].buyerId = me}}
            sold(n) == {i \in DOMAIN history : history[i].nftId = n /\ history[i].kind = "Sold"}
            fits(n) ==
                \/ \E u \in followed : n \in users[u].bookmarks
                \/ \E i \in sold(n) : /\ history[i].buyerId \in followed
                                      /\ Cardinality({j \in sold(n) : j > i}) < BuyersKept
                \/ nfts[n].tagIds \cap users[me].tagsId # {}
                \/ \E l \in liked \cap DOMAIN nfts :
                      \/ nfts[l].tagIds \cap nfts[n].tagIds # {}
                      \/ nfts[l].creatorId = nfts[n].creatorId
                      \/ nfts[l].collectionId = nfts[n].collectionId
            shown == calls[c].rows.nfts
        IN  (/\ Asks(c, {"nftFeed"}) /\ Field(calls[c]).titleOrDescription = None
             /\ me \in DOMAIN calls[c].began /\ calls[c].began[me] = users[me].rev
             /\ followed # {}) =>
                \A i, j \in DOMAIN shown : i < j /\ fits(shown[j]) => fits(shown[i])
=============================================================================
