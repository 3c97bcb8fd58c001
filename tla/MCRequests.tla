------------------------------ MODULE MCRequests ------------------------------
(* Requests on small databases.  A case is what is stored and may be asked.  *)
EXTENDS Requests, TLC

CONSTANTS u1, u2, u3, n1, n2, n3, n4, k1, k2, k3, t1, t2, g1, g2, admin

Symmetries == Permutations(Call)

\* Requests
Auth(u) == Token("Auth", u, "User")
Ask(header, fields) ==
    [header |-> header, devToken |-> "none", owners |-> FALSE, fields |-> fields]
Only(endpoint) == [endpoint |-> endpoint]
Page(page, perPage, field, order) ==
    [page |-> page, perPage |-> perPage, sortField |-> field, sortOrder |-> order]
ListingOf(endpoint, filter, args) == [endpoint |-> endpoint, filter |-> filter, args |-> args]
FirstPage == Page(None, None, "createdAt", None)
Feed(page) == [endpoint |-> "newsfeed", page |-> page]
Finding(endpoint) ==
    [endpoint |-> endpoint, titleOrDescription |-> None, saleKinds |-> None, minPrice |-> None,
     maxPrice |-> None, tagIds |-> None, page |-> None]
Update(some) == [endpoint |-> "updateMe", tagsId |-> some]
CreateK(mint, some) ==
    [endpoint |-> "createCollection", tagIds |-> some,
     doc |-> [mintAddress |-> mint, tagIds |-> {}, creatorId |-> None, createdAt |-> 0,
              thumbnail |-> "link"]]

\* Documents
AUser(followers, marks, some, active) ==
    [rev |-> 0, createdAt |-> 1, nickname |-> 1, email |-> 1, followerIds |-> followers,
     bookmarks |-> marks, tagsId |-> some, lastActivity |-> active]
AnNft(u, k, some, sale, grams, date) ==
    [creatorId |-> u, ownerId |-> u, collectionId |-> k, tagIds |-> some, sale |-> sale,
     grams |-> grams, createdAt |-> date]
ACollection(mint, u, date) ==
    [mintAddress |-> mint, tagIds |-> {}, creatorId |-> u, createdAt |-> date,
     thumbnail |-> "link"]
Repriced(n, owner, date) ==
    [nftId |-> n, kind |-> "PriceUpdated", ownerId |-> owner, sellerId |-> None, buyerId |-> None,
     createdAt |-> date]
Sold(n, seller, buyer, date) ==
    [nftId |-> n, kind |-> "Sold", ownerId |-> None, sellerId |-> seller, buyerId |-> buyer,
     createdAt |-> date]
Fixed(price) == [kind |-> "FixedPrice", price |-> price]
Auctioned(start, bid) == [kind |-> "Auction", startingPrice |-> start, highestBid |-> bid]
Offers == [kind |-> "OpenToOffer"]
CreateN(k, some) ==
    [endpoint |-> "createNft", tagIds |-> some,
     doc |-> [AnNft(None, k, {}, Offers, {}, 0) EXCEPT !.ownerId = None]]
SignUpOf(active) == [endpoint |-> "signup", doc |-> AUser({}, {}, {}, active)]

\* Accounts, tags and licences; tokens; mutations of several fields.
Documents ==
    [users |-> u1 :> AUser({u2}, {n1}, {t1}, 0) @@ u2 :> AUser({}, {}, {}, 0),
     nfts |-> n1 :> AnNft(u1, k1, {t1}, Fixed(1), {}, 1),
     collections |-> k1 :> ACollection(1, u1, 1),
     tags |-> t1 :> [index |-> 1], licences |-> <<>>, history |-> <<>>, indexed |-> {},
     left |-> 2, clock |-> 1,
     asked |-> {
        Ask(Auth(u2), <<CreateK(2, {t1})>>),
        Ask(Auth(u1), <<[endpoint |-> "createTag", name |-> t2, index |-> 2], CreateK(2, {t2})>>),
        Ask(Nothing, <<SignUpOf(0), Update(None)>>),
        Ask(Auth(u1), <<ListingOf("nfts", AnyNft, FirstPage)>>),
        Ask(Auth(u2), <<CreateN(k2, {t1})>>),
        [Ask(Auth(u2), <<CreateN(k1, {})>>) EXCEPT !.owners = TRUE],
        Ask(Auth(u2), <<CreateK(4, None)>>), Ask(Auth(u2), <<CreateK(4, {t2})>>),
        Ask(Auth(u1), <<Update({t2})>>), Ask(Auth(u3), <<Update(None)>>),
        Ask(Auth(u3), <<Only("me")>>),
        Ask(Auth(u1), <<Only("me")>>), Ask(Junk, <<Only("me")>>), Ask(Nothing, <<SignUpOf(0)>>),
        Ask(Token("Refresh", u1, "User"), <<Update(None)>>),
        Ask(Token("Auth", admin, "Admin"), <<Update(None)>>),
        Ask(Junk, <<ListingOf("users", [AnyUser EXCEPT !.ids = {u2}], FirstPage)>>),
        Ask(Auth(u1), <<ListingOf("users", [AnyUser EXCEPT !.ids = {u3}], FirstPage)>>),
        Ask(Nothing, <<[endpoint |-> "createLicence", name |-> t1]>>),
        Ask(Nothing, <<Only("_devRunElasticsearchNftTestSuite")>>),
        [Ask(Junk, <<Only("_devRunElasticsearchNftTestSuite")>>) EXCEPT !.devToken = "right"],
        [Ask(Auth(u1), <<Only("_devRunElasticsearchNftTestSuite")>>) EXCEPT !.devToken = "wrong"]}]

\* Loads, a write, and loads again in one request.
Reloading ==
    [Documents EXCEPT !.asked = {
        Ask(Auth(u1), <<CreateK(2, {t1}), Update(None), CreateK(3, {})>>),
        Ask(Auth(u1), <<Update(None)>>)}]

\* Listings, filters and following pages.
Shelf ==
    [users |-> u1 :> AUser({}, {n1}, {}, 0),
     nfts |-> n1 :> AnNft(u1, k1, {t1}, Fixed(1), {}, 1) @@ n2 :> AnNft(u1, k1, {}, Offers, {}, 2)
                @@ n3 :> AnNft(u1, k1, {t1}, Auctioned(1, 0), {}, 3),
     collections |-> k1 :> ACollection(1, u1, 1),
     tags |-> t1 :> [index |-> 2] @@ t2 :> [index |-> 1], licences |-> t1 :> [index |-> 0],
     history |-> <<Repriced(n1, u1, 1)>>,
     indexed |-> {}, left |-> 1, clock |-> 3, asked |-> {}]
Shelves == {
    [Shelf EXCEPT !.left = 3, !.nfts = [n \in {n1, n2, n3} |-> [Shelf.nfts[n] EXCEPT !.tagIds = {}]],
     !.asked = {Ask(Nothing, <<ListingOf("nfts", AnyNft, Page(p, way[1], "createdAt", way[2]))>>) :
                    p \in {None, 1}} \cup {Ask(Auth(u1), <<CreateN(k1, {})>>)}] :
        way \in {<<None, "Asc">>, <<0, "Desc">>, <<2, "Desc">>}} \cup {
    [Shelf EXCEPT !.asked =
        {Ask(Nothing, <<ListingOf("nfts", filter, FirstPage)>>) : filter \in {
            [AnyNft EXCEPT !.tagIds = {t1, t2}], [AnyNft EXCEPT !.saleKinds = {"Auction"}],
            [AnyNft EXCEPT !.creatorIds = {u1}, !.ids = {n1}], [AnyNft EXCEPT !.ownerIds = {u2}],
            [AnyNft EXCEPT !.minPrice = 1]}}
        \cup {Ask(Nothing, <<ListingOf("nfts", AnyNft, Page(p, size, "createdAt", None))>>) :
            p \in {-1, 0, 5}, size \in {-2, 0, 5}}
        \cup {Ask(Auth(u1), <<ListingOf("users", filter, FirstPage)>>) : filter \in {
            [AnyUser EXCEPT !.bookmarkedNftIds = {n1}], [AnyUser EXCEPT !.followedByUserId = u2]}}
        \cup {Ask(Nothing, <<ListingOf("nftHistory", [AnyRecord EXCEPT !.nftIds = {n}], FirstPage)>>) :
            n \in {n1, n2}}
        \cup {Ask(Nothing, <<ListingOf(e, AnyName, FirstPage)>>) : e \in {"getAllTags", "licences"}}
        \cup {Ask(Nothing, <<ListingOf("collections", AnyCollection, FirstPage)>>)}]}

\* The search and the feed made of it.
Market ==
    [users |-> u1 :> AUser({}, {n1}, {t1}, 0) @@ u2 :> AUser({u1}, {n2}, {}, 0)
                 @@ u3 :> AUser({}, {n3}, {t2}, 0),
     nfts |-> n1 :> AnNft(u1, k1, {t1}, Fixed(2), {g1}, 1)
                @@ n2 :> AnNft(u2, k1, {t1, t2}, Auctioned(1, 3), {g1, g2}, 2)
                @@ n3 :> AnNft(u2, k2, {t2}, Auctioned(2, 0), {g2}, 3)
                @@ n4 :> AnNft(u3, k2, {}, Offers, {}, 4),
     collections |-> k1 :> ACollection(1, u1, 1) @@ k2 :> ACollection(2, u2, 2),
     tags |-> t1 :> [index |-> 2] @@ t2 :> [index |-> 1], licences |-> <<>>,
     history |-> <<Sold(n3, u1, u2, 1), Sold(n3, u2, u3, 2)>>,
     indexed |-> {n1, n2, n3, n4}, left |-> 1, clock |-> 4,
     asked |->
        {Ask(Nothing, <<[Finding("nftSearch") EXCEPT !.minPrice = low, !.maxPrice = high]>>) :
            low \in {None, 2}, high \in {None, 2}}
        \cup {Ask(Nothing, <<[Finding("nftSearch") EXCEPT !.tagIds = some, !.titleOrDescription = text]>>) :
            some \in {None, {t1, t2}}, text \in {None, {}, {g1}}}
        \cup {Ask(Nothing, <<[Finding("nftSearch") EXCEPT !.saleKinds = {"FixedPrice"}, !.page = p]>>) :
            p \in {-1, 0, 1}}
        \cup {Ask(header, <<Finding("nftFeed")>>) :
            header \in {Nothing, Auth(u1), Auth(u2), Auth(u3), Token("Auth", admin, "Admin")}}
        \cup {Ask(Nothing, <<Feed(-1)>>), Ask(Auth(u2), <<ListingOf("nftHistory", AnyRecord, FirstPage)>>)}]

\* The feed of somebody whose tags change meanwhile.
Tastes ==
    [Market EXCEPT !.left = 2, !.asked = {
        Ask(Auth(u1), <<Finding("nftFeed")>>), Ask(Auth(u1), <<Update({t2})>>),
        Ask(Auth(u2), <<Update({})>>)}]

\* The newsfeed while others write.
News ==
    [users |-> u1 :> AUser({}, {}, {}, 1) @@ u2 :> AUser({}, {}, {}, 3) @@ u3 :> AUser({}, {}, {}, 2),
     nfts |-> n1 :> AnNft(u1, k1, {}, Offers, {}, 1) @@ n2 :> AnNft(u1, k1, {}, Offers, {}, 2)
                @@ n3 :> AnNft(u1, k1, {}, Offers, {}, 3),
     collections |-> k1 :> ACollection(1, u1, 1),
     tags |-> <<>>, licences |-> <<>>, history |-> <<>>, indexed |-> {}, left |-> 3, clock |-> 3,
     asked |-> {Ask(Nothing, <<Feed(p)>>) : p \in {None, 1}}
                 \cup {Ask(Auth(u1), <<CreateN(k1, {})>>), Ask(Auth(u1), <<Update(None)>>)}]

Cases == {Documents, Reloading, Market, Tastes, News} \cup Shelves
=============================================================================
