------------------------------- MODULE Queries -------------------------------
(***************************************************************************)
(* How the services read: filters of MongoDB queries, pages, the search    *)
(* index's documents and its query, and the preferences behind the feed.   *)
(*                                                                         *)
(* Collections are functions from ids to documents.  An optional argument  *)
(* is None when it is absent; a list of alternatives is a set; a regular   *)
(* expression is the set of what it matches; a text is its set of n-grams. *)
(***************************************************************************)
EXTENDS Integers, Sequences, FiniteSets, SequencesExt

CONSTANTS
    None,          \* an absent argument or field
    DefaultLimit,  \* the length of a page when none is asked for
    MaxLimit,      \* the longest page
    BuyersKept     \* how many last buyers an entry of the index lists

ASSUME QueryConstants ==
    /\ DefaultLimit \in Nat \ {0} /\ MaxLimit \in Nat /\ DefaultLimit <= MaxLimit
    /\ BuyersKept \in Nat
    /\ None \notin Int \cup {"createdAt", "lastActivity", "index"}   \* no page, no field

-----------------------------------------------------------------------------
(* Filters *)

\* { $in: option }, of a field and of a field that is a list.
Allows(option, value) == option = None \/ value \in option
AllowsAny(option, values) == option = None \/ option \cap values # {}

NftMatches(f, id, nft) ==
    /\ Allows(f.ids, id)
    /\ Allows(f.creatorIds, nft.creatorId)
    /\ Allows(f.ownerIds, nft.ownerId)
    /\ Allows(f.saleKinds, nft.sale.kind)
    /\ AllowsAny(f.tagIds, nft.tagIds)

\* A price is compared by $last, which is no query operator: MongoDB refuses.
NftFilterRefused(f) == f.minPrice # None \/ f.maxPrice # None

UserMatches(f, id, user) ==
    /\ Allows(f.ids, id)
    /\ Allows(f.nameRegexp, user.nickname)
    /\ Allows(f.email, user.email)
    /\ f.followedByUserId = None \/ f.followedByUserId \in user.followerIds
    /\ AllowsAny(f.bookmarkedNftIds, user.bookmarks)

CollectionMatches(f, id, collection) ==
    Allows(f.ids, id) /\ Allows(f.creatorIds, collection.creatorId)

HistoryMatches(f, record) ==
    /\ Allows(f.nftIds, record.nftId)
    /\ Allows(f.kinds, record.kind)
    /\ Allows(f.buyerIds, record.buyerId)

\* Tags and licences are only ever filtered by id.
NameMatches(f, id) == Allows(f.ids, id)

AnyNft == [ids |-> None, creatorIds |-> None, ownerIds |-> None, saleKinds |-> None,
           tagIds |-> None, minPrice |-> None, maxPrice |-> None]
AnyUser == [ids |-> None, nameRegexp |-> None, email |-> None, followedByUserId |-> None,
            bookmarkedNftIds |-> None]
AnyCollection == [ids |-> None, creatorIds |-> None]
AnyRecord == [nftIds |-> None, kinds |-> None, buyerIds |-> None]
AnyName == [ids |-> None]

\* validateIdsExist: what it throws about.
Missing(ids, stored) == ids \ stored

-----------------------------------------------------------------------------
(* Pages *)

\* JavaScript's || of an optional number.
Or(value, other) == IF value = None \/ value = 0 THEN other ELSE value

\* Mutant: the default of the length is forgotten where pages are skipped.
SkipByAskedLength(args) == Or(args.page, 0) * Or(args.perPage, 0)

\* graphqlToMongoPagination: of arguments, to MongoDB's pagination.
Limit(args) == Or(args.perPage, DefaultLimit)
Skip(args) == Or(args.page, 0) * Limit(args)
OverLimit(args) == Limit(args) > MaxLimit

ToMongo(args) ==
    [skip |-> Skip(args), limit |-> Limit(args), field |-> args.sortField,
     sort |-> IF args.sortOrder = "Desc" THEN "Desc" ELSE "Asc"]

Unpaged == [skip |-> 0, limit |-> None, field |-> None, sort |-> "Asc"]

\* MongoDB refuses a negative skip; a negative limit counts as its opposite.
SkipRefused(p) == p.skip < 0
Cut(s, p) ==
    LET limit == IF p.limit = None THEN Len(s) ELSE IF p.limit < 0 THEN -p.limit ELSE p.limit
    IN  SubSeq(s, p.skip + 1, IF p.skip + limit > Len(s) THEN Len(s) ELSE p.skip + limit)

\* The orders in which a query may return documents: any, but for its sort.
Ordered(ids, docs, p) ==
    {s \in SetToSeqs(ids) : p.field = None \/
        \A i, j \in DOMAIN s : i < j =>
            IF p.sort = "Desc" THEN docs[s[i]][p.field] >= docs[s[j]][p.field]
                               ELSE docs[s[i]][p.field] <= docs[s[j]][p.field]}

\* paginateQuery(find(...)): what may come back.
Find(ids, docs, p) == {Cut(s, p) : s \in Ordered(ids, docs, p)}

-----------------------------------------------------------------------------
(* The search index: its documents *)

NftPrice(sale) ==
    CASE sale.kind = "Auction" -> Or(sale.highestBid, sale.startingPrice)
      [] sale.kind = "FixedPrice" -> sale.price
      [] sale.kind = "OpenToOffer" -> None

\* createBulkIndexPayloads: the last buyers, and who has the NFT bookmarked.
RecentBuyers(id, history) ==
    LET filter == [AnyRecord EXCEPT !.nftIds = {id}, !.kinds = {"Sold"}]
        sold   == {i \in DOMAIN history : HistoryMatches(filter, history[i])}
    IN  {history[i].buyerId :
            i \in {i \in sold : Cardinality({j \in sold : j > i}) < BuyersKept}}
Bookmarkers(id, users) ==
    {u \in DOMAIN users : UserMatches([AnyUser EXCEPT !.bookmarkedNftIds = {id}], u, users[u])}

DocumentMapping(id, nft, history, users) ==
    [grams |-> nft.grams, creatorId |-> nft.creatorId, collectionId |-> nft.collectionId,
     recentBuyerIds |-> RecentBuyers(id, history), bookmarkedByUserIds |-> Bookmarkers(id, users),
     viewerIds |-> {}, saleKind |-> nft.sale.kind, price |-> NftPrice(nft.sale),
     tagIds |-> nft.tagIds]

-----------------------------------------------------------------------------
(* The search index: its query *)

NoPreferences ==
    [recentBuyerIds |-> None, bookmarkedByUserIds |-> None, viewerIds |-> None,
     favoredTagIds |-> None, creatorIds |-> None, collectionIds |-> None]

\* A range never holds of an entry without a price.
InRange(args, price) ==
    args.minPrice # None \/ args.maxPrice # None =>
        /\ price # None
        /\ args.minPrice # None => price >= args.minPrice
        /\ args.maxPrice # None => price <= args.maxPrice

\* Mutant: one of the required tags is enough.
FilteredByAnyTag(args, e) ==
    /\ Allows(args.saleKinds, e.saleKind)
    /\ InRange(args, e.price)
    /\ AllowsAny(args.requiredTagIds, e.tagIds)

Filtered(args, e) ==
    /\ Allows(args.saleKinds, e.saleKind)
    /\ InRange(args, e.price)
    /\ args.requiredTagIds = None \/ args.requiredTagIds \subseteq e.tagIds

\* must: a text shorter than an n-gram has none, and matches nothing.
TextMatches(args, e) == AllowsAny(args.titleOrDescription, e.grams)

Shares(option, values) == option # None /\ option \cap values # {}

\* A hit scores more than zero if a text or a should clause matches; the empty
\* clauses of nobody followed match everything.
Scores(args, e) ==
    \/ args.titleOrDescription # None
    \/ args.recentBuyerIds = {} \/ args.bookmarkedByUserIds = {}
    \/ Shares(args.recentBuyerIds, e.recentBuyerIds)
    \/ Shares(args.bookmarkedByUserIds, e.bookmarkedByUserIds)
    \/ Shares(args.viewerIds, e.viewerIds)
    \/ Shares(args.favoredTagIds, e.tagIds)
    \/ Shares(args.creatorIds, {e.creatorId})
    \/ Shares(args.collectionIds, {e.collectionId})

\* minimum_should_match is 0: should clauses only order the hits.  Recency
\* multiplies the score, so what scores zero stays behind all that does not;
\* otherwise the order depends on weights that are left out here.
Hits(args, index) ==
    LET found == {n \in DOMAIN index : Filtered(args, index[n]) /\ TextMatches(args, index[n])}
    IN  {s \in SetToSeqs(found) : \A i, j \in DOMAIN s :
            i < j /\ Scores(args, index[s[j]]) => Scores(args, index[s[i]])}

\* The documents of the hits, in the order of the hits; missing ones drop out.
Present(hits, docs) ==
    LET kept == {i \in DOMAIN hits : hits[i] \in DOMAIN docs}
    IN  [k \in 1..Cardinality(kept) |->
            hits[CHOOSE i \in kept : Cardinality({j \in kept : j <= i}) = k]]

-----------------------------------------------------------------------------
(* The feed *)

\* Mutant: those who follow the user, not those the user follows.
PreferencesOfFollowers(u, users, nfts, history) ==
    LET followed == users[u].followerIds
        relevant == DOMAIN nfts \cap users[u].bookmarks
    IN  [recentBuyerIds |-> followed, bookmarkedByUserIds |-> followed, viewerIds |-> followed,
         favoredTagIds |-> users[u].tagsId \cup UNION {nfts[n].tagIds : n \in relevant},
         creatorIds |-> {nfts[n].creatorId : n \in relevant},
         collectionIds |-> {nfts[n].collectionId : n \in relevant}]

\* getNftFeedUserPreferences
Preferences(u, users, nfts, history) ==
    LET followed == {v \in DOMAIN users :
                        UserMatches([AnyUser EXCEPT !.followedByUserId = u], v, users[v])}
        bought == {r.nftId : r \in {r \in ToSet(history) :
                        HistoryMatches([AnyRecord EXCEPT !.buyerIds = {u}], r)}}
        relevant == DOMAIN nfts \cap (users[u].bookmarks \cup bought)
    IN  [recentBuyerIds |-> followed, bookmarkedByUserIds |-> followed, viewerIds |-> followed,
         favoredTagIds |-> users[u].tagsId \cup UNION {nfts[n].tagIds : n \in relevant},
         creatorIds |-> {nfts[n].creatorId : n \in relevant},
         collectionIds |-> {nfts[n].collectionId : n \in relevant}]
=============================================================================
