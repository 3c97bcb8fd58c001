------------------------------ MODULE SeekProofs ------------------------------
(***************************************************************************)
(* Theorems about searches and the feed: what a search of the index finds, *)
(* and what comes first in a user's feed, while others write.              *)
(***************************************************************************)
EXTENDS PagesProofs

-----------------------------------------------------------------------------
(* Hits *)

\* What a cut holds, in the order of what it is cut from.
LEMMA CutPlaces ==
    ASSUME NEW S, IsFiniteSet(S), NEW s \in SetToSeqs(S), NEW p,
           p.skip \in Nat, p.limit \in Int, p.limit # None
    PROVE  /\ Cut(s, p) \in Seq(S)
           /\ \A i \in DOMAIN Cut(s, p) : /\ i \in Nat /\ p.skip + i \in DOMAIN s
                                          /\ Cut(s, p)[i] = s[p.skip + i]
<1>0. s \in Seq(S) /\ DOMAIN s = 1..Len(s)
  BY OrderFacts
<1>1. PICK len \in Nat : len = Len(s)
  BY OrderFacts
<1>2. PICK skip \in Nat : skip = p.skip
  OBVIOUS
<1>3. PICK n \in Nat : n = IF p.limit < 0 THEN -p.limit ELSE p.limit
  OBVIOUS
<1>10. PICK last \in Nat : last = IF skip + n > len THEN len ELSE skip + n
  OBVIOUS
<1>4. Cut(s, p) = SubSeq(s, skip + 1, last)
  BY <1>1, <1>2, <1>3, <1>10 DEF Cut
<1>5. Cut(s, p) = [i \in 1..(last - skip) |-> s[skip + i]]
  <2>1. Cut(s, p) = [i \in 1..(last - (skip + 1) + 1) |-> s[(skip + 1) + i - 1]]
    BY <1>4
  <2>2. last - (skip + 1) + 1 = last - skip
    OBVIOUS
  <2>3. \A i \in 1..(last - skip) : (skip + 1) + i - 1 = skip + i
    OBVIOUS
  <2> QED  BY <2>1, <2>2, <2>3
<1>6. \A i \in 1..(last - skip) : i \in Nat /\ skip + i \in 1..len
  BY <1>10
<1>7. PICK m \in Nat : 1..(last - skip) = 1..m
  <2>1. CASE skip <= last
    BY <2>1
  <2>2. CASE ~(skip <= last)
    <3>1. 1..(last - skip) = 1..0
      BY <2>2
    <3> QED  BY <3>1
  <2> QED  BY <2>1, <2>2
<1>8. \A i \in 1..m : s[skip + i] \in S
  <2>1. \A k \in 1..len : s[k] \in S
    BY <1>1, OrderFacts
  <2> QED  BY <1>6, <1>7, <2>1
<1>9. Cut(s, p) \in Seq(S)
  <2>1. Cut(s, p) \in [1..m -> S]
    BY <1>5, <1>7, <1>8
  <2> QED  BY <2>1
<1> QED  BY <1>0, <1>1, <1>2, <1>5, <1>6, <1>9

\* Nothing drops out when nothing is missing.
LEMMA NothingMissing ==
    ASSUME NEW S, NEW s \in Seq(S), NEW docs, S \subseteq DOMAIN docs
    PROVE  Present(s, docs) = s
<1>1. PICK m \in Nat : m = Len(s) /\ DOMAIN s = 1..m
  OBVIOUS
<1>2. {i \in DOMAIN s : s[i] \in DOMAIN docs} = 1..m
  BY <1>1
<1>3. \A i \in 0..m : Cardinality(1..i) = i
  <2>1. ASSUME NEW i \in 0..m PROVE Cardinality(1..i) = i
    <3>1. i \in Nat /\ 1 \in Int /\ i \in Int
      OBVIOUS
    <3>2. Cardinality(1..i) = IF 1 > i THEN 0 ELSE i - 1 + 1
      BY <3>1, FS_Interval
    <3> QED  BY <3>1, <3>2
  <2> QED  BY <2>1
<1>4. \A i \in 1..m : {j \in 1..m : j <= i} = 1..i
  OBVIOUS
<1>5. \A i \in 1..m : Cardinality({j \in 1..m : j <= i}) = i
  <2>1. ASSUME NEW i \in 1..m PROVE Cardinality({j \in 1..m : j <= i}) = i
    <3>1. {j \in 1..m : j <= i} = 1..i /\ i \in 0..m
      BY <1>4
    <3> QED  BY <1>3, <3>1
  <2> QED  BY <2>1
<1>6. Cardinality(1..m) = m
  BY <1>3
<1>7. \A k \in 1..m : (CHOOSE i \in 1..m : Cardinality({j \in 1..m : j <= i}) = k) = k
  BY <1>5
<1>10. PICK kept : kept = {i \in DOMAIN s : s[i] \in DOMAIN docs}
  OBVIOUS
<1>11. Present(s, docs) = [k \in 1..Cardinality(kept) |->
             s[CHOOSE i \in kept : Cardinality({j \in kept : j <= i}) = k]]
  BY <1>10 DEF Present
<1>8. Present(s, docs) = [k \in 1..m |-> s[k]]
  <2>1. kept = 1..m /\ Cardinality(kept) = m
    BY <1>2, <1>6, <1>10
  <2>2. Present(s, docs) = [k \in 1..m |->
             s[CHOOSE i \in 1..m : Cardinality({j \in 1..m : j <= i}) = k]]
    BY <1>11, <2>1
  <2> QED  BY <1>7, <2>2
<1>9. s = [k \in 1..m |-> s[k]]
  BY <1>1
<1> QED  BY <1>8, <1>9

-----------------------------------------------------------------------------
(* What the queries behind the index and the feed ask for. *)

LEMMA FollowedFacts ==
    ASSUME NEW u, u # None, NEW v, NEW doc
    PROVE  UserMatches([AnyUser EXCEPT !.followedByUserId = u], v, doc) <=> u \in doc.followerIds
<1>1. [AnyUser EXCEPT !.followedByUserId = u]
         = [ids |-> None, nameRegexp |-> None, email |-> None, followedByUserId |-> u,
            bookmarkedNftIds |-> None]
  BY DEF AnyUser
<1> QED  BY <1>1 DEF UserMatches, Allows, AllowsAny

LEMMA BookmarkersFacts ==
    ASSUME NEW n \in Nft, NEW docs
    PROVE  Bookmarkers(n, docs) = {u \in DOMAIN docs : n \in docs[u].bookmarks}
<1>1. [AnyUser EXCEPT !.bookmarkedNftIds = {n}]
         = [ids |-> None, nameRegexp |-> None, email |-> None, followedByUserId |-> None,
            bookmarkedNftIds |-> {n}]
  BY DEF AnyUser
<1>2. {n} # None
  <2>1. {n} \in SUBSET Nft
    OBVIOUS
  <2>2. {n} \in UNION {SUBSET User, SUBSET Nft, SUBSET Collection, SUBSET Tag}
    BY <2>1
  <2> QED  BY <2>2, RequestConstants
<1>3. \A u \in DOMAIN docs : UserMatches([AnyUser EXCEPT !.bookmarkedNftIds = {n}], u, docs[u])
                                <=> {n} \cap docs[u].bookmarks # {}
  BY <1>1, <1>2 DEF UserMatches, Allows, AllowsAny
<1> QED  BY <1>3 DEF Bookmarkers

LEMMA BuyersFacts ==
    ASSUME NEW u \in User, NEW r
    PROVE  HistoryMatches([AnyRecord EXCEPT !.buyerIds = {u}], r) <=> r.buyerId = u
<1>1. [AnyRecord EXCEPT !.buyerIds = {u}] = [nftIds |-> None, kinds |-> None, buyerIds |-> {u}]
  BY DEF AnyRecord
<1>2. {u} # None
  <2>1. {u} \in SUBSET User
    OBVIOUS
  <2>2. {u} \in UNION {SUBSET User, SUBSET Nft, SUBSET Collection, SUBSET Tag}
    BY <2>1
  <2> QED  BY <2>2, RequestConstants
<1> QED  BY <1>1, <1>2 DEF HistoryMatches, Allows

LEMMA SoldFacts ==
    ASSUME NEW n \in Nft, NEW r
    PROVE  HistoryMatches([AnyRecord EXCEPT !.nftIds = {n}, !.kinds = {"Sold"}], r)
              <=> r.nftId = n /\ r.kind = "Sold"
<1>1. PICK filter : filter = [AnyRecord EXCEPT !.nftIds = {n}, !.kinds = {"Sold"}]
  OBVIOUS
<1>3. filter.nftIds = {n} /\ filter.kinds = {"Sold"} /\ filter.buyerIds = None
  BY <1>1 DEF AnyRecord
<1>2. {n} # None /\ {"Sold"} # None
  <2>1. {n} \in SUBSET Nft
    OBVIOUS
  <2>2. {n} \in UNION {SUBSET User, SUBSET Nft, SUBSET Collection, SUBSET Tag}
    BY <2>1
  <2> QED  BY <2>2, RequestConstants
<1>4. HistoryMatches(filter, r) <=> r.nftId = n /\ r.kind = "Sold"
  BY <1>2, <1>3 DEF HistoryMatches, Allows
<1> QED  BY <1>1, <1>4

\* What a user likes, of the NFTs there are.
Followed(u, docs) == {v \in DOMAIN docs : u \in docs[v].followerIds}
Liked(u, docs, some, records) ==
    DOMAIN some \cap (docs[u].bookmarks
                        \cup {records[i].nftId : i \in {i \in DOMAIN records : records[i].buyerId = u}})

LEMMA PreferencesFacts ==
    ASSUME NEW u \in User, NEW docs, NEW some, NEW records
    PROVE  Preferences(u, docs, some, records) =
             [recentBuyerIds |-> Followed(u, docs), bookmarkedByUserIds |-> Followed(u, docs),
              viewerIds |-> Followed(u, docs),
              favoredTagIds |-> docs[u].tagsId
                 \cup UNION {some[n].tagIds : n \in Liked(u, docs, some, records)},
              creatorIds |-> {some[n].creatorId : n \in Liked(u, docs, some, records)},
              collectionIds |-> {some[n].collectionId : n \in Liked(u, docs, some, records)}]
<1>1. u # None
  BY RequestConstants
<1>2. {v \in DOMAIN docs : UserMatches([AnyUser EXCEPT !.followedByUserId = u], v, docs[v])}
         = Followed(u, docs)
  BY <1>1, FollowedFacts DEF Followed
<1>3. {r.nftId : r \in {r \in ToSet(records) :
                           HistoryMatches([AnyRecord EXCEPT !.buyerIds = {u}], r)}}
         = {records[i].nftId : i \in {i \in DOMAIN records : records[i].buyerId = u}}
  <2>1. {r \in ToSet(records) : HistoryMatches([AnyRecord EXCEPT !.buyerIds = {u}], r)}
           = {r \in ToSet(records) : r.buyerId = u}
    BY BuyersFacts
  <2>2. {r.nftId : r \in {r \in ToSet(records) : r.buyerId = u}}
           = {records[i].nftId : i \in {i \in DOMAIN records : records[i].buyerId = u}}
    BY DEF ToSet
  <2> QED  BY <2>1, <2>2
<1> QED  BY <1>2, <1>3 DEF Preferences, Liked

\* Who signs up follows nobody yet and no new NFT is liked, so the preferences of
\* those who do not update their profile stay.
Grew(docs, later, some, more, records) ==
    /\ DOMAIN docs \subseteq DOMAIN later
    /\ \A u \in DOMAIN docs : SameLikes(later[u], docs[u])
    /\ \A u \in DOMAIN later \ DOMAIN docs :
          later[u].followerIds = {} /\ later[u].bookmarks = {}
    /\ DOMAIN some \subseteq DOMAIN more /\ DOMAIN more \subseteq Nft
    /\ \A n \in DOMAIN some : more[n] = some[n]
    /\ \A u \in DOMAIN docs : docs[u].bookmarks \cap Nft \subseteq DOMAIN some
    /\ \A i \in DOMAIN records : records[i].nftId \in Nft => records[i].nftId \in DOMAIN some

LEMMA PreferencesStay ==
    ASSUME NEW docs, NEW later, NEW some, NEW more, NEW records,
           Grew(docs, later, some, more, records), NEW u \in DOMAIN docs, u \in User,
           later[u].rev = docs[u].rev
    PROVE  Preferences(u, later, more, records) = Preferences(u, docs, some, records)
<1>1. Followed(u, later) = Followed(u, docs)
  BY DEF Followed, Grew, SameLikes
<1>2. later[u].tagsId = docs[u].tagsId /\ later[u].bookmarks = docs[u].bookmarks
  BY DEF Grew, SameLikes
<1>3. PICK liked : liked = Liked(u, docs, some, records)
  OBVIOUS
<1>4. Liked(u, later, more, records) = liked
  BY <1>2, <1>3 DEF Grew, Liked
<1>5. liked \subseteq DOMAIN some
  BY <1>3 DEF Liked
<1>6. \A n \in liked : more[n] = some[n]
  BY <1>5 DEF Grew
<1>7. {more[n].tagIds : n \in liked} = {some[n].tagIds : n \in liked}
  BY <1>6
<1>8. {more[n].creatorId : n \in liked} = {some[n].creatorId : n \in liked}
  BY <1>6
<1>9. {more[n].collectionId : n \in liked} = {some[n].collectionId : n \in liked}
  BY <1>6
<1>10. Preferences(u, docs, some, records) =
          [recentBuyerIds |-> Followed(u, docs), bookmarkedByUserIds |-> Followed(u, docs),
           viewerIds |-> Followed(u, docs),
           favoredTagIds |-> docs[u].tagsId \cup UNION {some[n].tagIds : n \in liked},
           creatorIds |-> {some[n].creatorId : n \in liked},
           collectionIds |-> {some[n].collectionId : n \in liked}]
  BY <1>3, PreferencesFacts
<1>11. Preferences(u, later, more, records) =
          [recentBuyerIds |-> Followed(u, later), bookmarkedByUserIds |-> Followed(u, later),
           viewerIds |-> Followed(u, later),
           favoredTagIds |-> later[u].tagsId \cup UNION {more[n].tagIds : n \in liked},
           creatorIds |-> {more[n].creatorId : n \in liked},
           collectionIds |-> {more[n].collectionId : n \in liked}]
  BY <1>4, PreferencesFacts
<1> QED  BY <1>1, <1>2, <1>7, <1>8, <1>9, <1>10, <1>11

\* Nor do the index's documents.
LEMMA DocumentsStay ==
    ASSUME NEW docs, NEW later, NEW some, NEW more, NEW records,
           Grew(docs, later, some, more, records), NEW n \in DOMAIN some
    PROVE  DocumentMapping(n, more[n], records, later)
              = DocumentMapping(n, some[n], records, docs)
<1>1. n \in Nft /\ more[n] = some[n]
  BY DEF Grew
<1>3. /\ Bookmarkers(n, later) = {u \in DOMAIN later : n \in later[u].bookmarks}
      /\ Bookmarkers(n, docs) = {u \in DOMAIN docs : n \in docs[u].bookmarks}
  BY <1>1, BookmarkersFacts
<1>4. {u \in DOMAIN later : n \in later[u].bookmarks} = {u \in DOMAIN docs : n \in docs[u].bookmarks}
  BY DEF Grew, SameLikes
<1>2. Bookmarkers(n, later) = Bookmarkers(n, docs)
  BY <1>3, <1>4
<1> QED  BY <1>1, <1>2 DEF DocumentMapping
-----------------------------------------------------------------------------
(* The steps of a search and of the feed. *)

Seeker(r) == Alone(r) /\ Field(r).endpoint \in {"nftSearch", "nftFeed"}
HitsPage(f) ==
    [Unpaged EXCEPT !.skip = Or(f.page, 0) * HitsPerPage, !.limit = HitsPerPage]

Prefers(r, s) ==
    /\ Field(r).endpoint = "nftFeed" /\ r.stage = "run" /\ s.stage = "search"
    /\ \/ Me(r) = None /\ s.preferences = NoPreferences
       \/ Me(r) \in DOMAIN users /\ s.preferences = Preferences(Me(r), users, nfts, history)
Finds(r, s) ==
    /\ r.stage = IF Field(r).endpoint = "nftSearch" THEN "run" ELSE "search"
    /\ s.stage = "fetch" /\ s.preferences = r.preferences
    /\ ~SkipRefused(HitsPage(Field(r)))
    /\ \E x \in Hits(SearchArgs(r), index) : s.hits = Cut(x, HitsPage(Field(r)))
Fetches(r, s) ==
    /\ r.stage = "fetch" /\ s.stage = "load" /\ s.preferences = r.preferences
    /\ s.rows.nfts = Present(r.hits, nfts)
SameFinds(r, s) == s.rows = r.rows /\ s.preferences = r.preferences
KeepsFound(r, s) == r.stage = "load" /\ s.stage = "load" /\ SameFinds(r, s)
EndsFound(r, s) == s.stage = "done" /\ (s.code = "OK" => r.stage = "load" /\ SameFinds(r, s))

LEMMA AnsweredFinds ==
    ASSUME NEW r, NEW code, Shaped(r)
    PROVE  SameFinds(r, Answered(r, code))
BY DEF Shaped, Attributes, SameFinds, Answered

LEMMA ReturningFinds ==
    ASSUME NEW r, NEW rows, Shaped(r)
    PROVE  Returning(r, rows).preferences = r.preferences
<1> DEFINE next == [r EXCEPT !.stage = "load", !.rows = rows, !.read = @ \cup Ids(rows.users)]
           due == {l \in Refs \cup {"users"} : Keys(next, l) # {}}
<1>1. Returning(r, rows) = [next EXCEPT !.due = due]
  BY DEF Returning
<1>2. DOMAIN next = Attributes /\ next.preferences = r.preferences
  BY DEF Shaped, Attributes
<1> HIDE DEF next, due
<1> QED  BY <1>1, <1>2 DEF Attributes

LEMMA SeekerSteps ==
    ASSUME Typed, NEW c \in Call, Acts(c), Seeker(calls[c]), NEW s, s = calls'[c]
    PROVE  \/ Prefers(calls[c], s) \/ Finds(calls[c], s) \/ Fetches(calls[c], s)
           \/ KeepsFound(calls[c], s) \/ EndsFound(calls[c], s)
<1> DEFINE r == calls[c]
           f == Field(r)
           me == Me(r)
<1>0. /\ CallsShaped /\ Shaped(r) /\ f.endpoint \in {"nftSearch", "nftFeed"}
      /\ RequestHeld(r) /\ Len(r.ask.fields) = 1 /\ r.at = 1
      /\ \A t : Becomes(c, t) => s = t
  BY DEF Typed, RequestsHeld, CallsShaped, Seeker, Alone, Becomes
<1>1. ASSUME NEW code, Answers(c, code), code # "OK" PROVE EndsFound(r, s)
  BY <1>0, <1>1, AnsweredFacts DEF Answers, EndsFound
<1>2. CASE Prefer(c)
  <2>1. /\ At(c, "run", "nftFeed")
        /\ IF me # None /\ me \notin DOMAIN users THEN Answers(c, "INTERNAL")
           ELSE Becomes(c, [r EXCEPT !.stage = "search", !.preferences =
                   IF me = None THEN NoPreferences ELSE Preferences(me, users, nfts, history)])
    BY <1>2 DEF Prefer
  <2>2. CASE Answers(c, "INTERNAL")
    BY <1>1, <2>2
  <2>3. CASE ~Answers(c, "INTERNAL")
    <3>1. PICK likes : likes = IF me = None THEN NoPreferences
                                            ELSE Preferences(me, users, nfts, history)
      OBVIOUS
    <3>2. s = [r EXCEPT !.stage = "search", !.preferences = likes]
      BY <1>0, <2>1, <2>3, <3>1
    <3>3. s.stage = "search" /\ s.preferences = likes
      BY <1>0, <3>2 DEF Shaped, Attributes
    <3>4. me = None \/ me \in DOMAIN users
      BY <2>1, <2>3
    <3> QED  BY <2>1, <3>1, <3>3, <3>4 DEF Prefers, At
  <2> QED  BY <2>2, <2>3
<1>3. CASE Search(c)
  <2>1. /\ At(c, "run", "nftSearch") \/ At(c, "search", "nftFeed")
        /\ IF SkipRefused(HitsPage(f)) THEN Answers(c, "INTERNAL")
           ELSE \E x \in Hits(SearchArgs(r), index) :
                  Becomes(c, [r EXCEPT !.stage = "fetch", !.hits = Cut(x, HitsPage(f))])
    BY <1>3 DEF Search, HitsPage
  <2>2. CASE SkipRefused(HitsPage(f))
    BY <1>1, <2>1, <2>2
  <2>3. CASE ~SkipRefused(HitsPage(f))
    <3>1. PICK x \in Hits(SearchArgs(r), index) :
             s = [r EXCEPT !.stage = "fetch", !.hits = Cut(x, HitsPage(f))]
      BY <1>0, <2>1, <2>3
    <3>3. PICK hits : hits = Cut(x, HitsPage(f))
      OBVIOUS
    <3>2. s.stage = "fetch" /\ s.hits = hits /\ s.preferences = r.preferences
      BY <1>0, <3>1, <3>3 DEF Shaped, Attributes
    <3> QED  BY <2>1, <2>3, <3>1, <3>2, <3>3 DEF Finds, At
  <2> QED  BY <2>2, <2>3
<1>4. CASE FetchHits(c)
  <2>1. PICK rows : /\ rows = [Rows EXCEPT !.nfts = Present(r.hits, nfts)] /\ Returns(c, rows)
                    /\ At(c, "fetch", "nftSearch") \/ At(c, "fetch", "nftFeed")
    BY <1>4 DEF FetchHits
  <2>2. s.stage = "load" /\ s.rows = rows /\ s.preferences = r.preferences
    BY <1>0, <2>1, ReturningRows, ReturningFinds DEF Returns
  <2>3. s.rows.nfts = Present(r.hits, nfts)
    BY <2>1, <2>2 DEF Rows
  <2> QED  BY <2>1, <2>2, <2>3 DEF Fetches, At
<1>5. CASE LoadRefs(c)
  <2>1. PICK due : /\ r.stage = "load"
                   /\ Becomes(c, [r EXCEPT !.due = due]) \/ Answers(c, "INTERNAL")
    BY <1>5 DEF LoadRefs
  <2>2. CASE Becomes(c, [r EXCEPT !.due = due])
    BY <1>0, <2>1, <2>2 DEF KeepsFound, SameFinds, Shaped, Attributes
  <2> QED  BY <1>1, <2>1, <2>2
<1>6. CASE LoadUsers(c)
  <2>1. PICK due, cache, shown, read :
           /\ r.stage = "load"
           /\ \/ Becomes(c, [r EXCEPT !.due = due, !.cache = cache, !.shown = shown, !.read = read])
              \/ Answers(c, "INTERNAL")
    BY <1>6 DEF LoadUsers
  <2>2. CASE Becomes(c, [r EXCEPT !.due = due, !.cache = cache, !.shown = shown, !.read = read])
    BY <1>0, <2>1, <2>2 DEF KeepsFound, SameFinds, Shaped, Attributes
  <2> QED  BY <1>1, <2>1, <2>2
<1>7. CASE Finish(c)
  <2>1. ~(r.at < Len(r.ask.fields))
    BY <1>0
  <2>2. r.stage = "load" /\ \E code : Answers(c, code)
    BY <1>7, <2>1 DEF Finish
  <2> QED  BY <1>0, <2>2, AnsweredFacts, AnsweredFinds DEF Answers, EndsFound
<1>8. CASE Fail(c)
  BY <1>1, <1>8 DEF Fail
<1>9. CASE \/ Listing(c) \/ ReadMe(c) \/ ReadFeedProfiles(c) \/ ReadFeedNfts(c)
           \/ ReadFeedCollections(c) \/ RunTests(c)
  BY <1>0, <1>9 DEF Listing, ListUsers, ListNfts, ListCollections, ListHistory, Lists, ListTags,
                    ListLicences, ReadMe, ReadFeedProfiles, ReadFeedNfts, ReadFeedCollections,
                    RunTests, At
<1>10. CASE Write(c)
  BY <1>0, <1>10 DEF Write, SignUp, UpdateMe, CreateTag, CreateLicence, ValidateTags,
                     InsertCollection, InsertNft, At
<1> QED
  BY <1>2, <1>3, <1>4, <1>5, <1>6, <1>7, <1>8, <1>9, <1>10 DEF Acts, Read
-----------------------------------------------------------------------------
(* What holds of a search while others write *)

\* Who has not updated the profile since asking has the preferences of then.
BeganHeld(r) ==
    \A u \in DOMAIN r.began :
        u \in DOMAIN users /\ r.began[u] \in Nat /\ r.began[u] <= users[u].rev
NotUpdated(r) == Me(r) \in DOMAIN r.began /\ r.began[Me(r)] = users[Me(r)].rev
PreferredBy(r) ==
    NotUpdated(r) => r.preferences = Preferences(Me(r), users, nfts, history)

\* What is shown is a page of what the index, as it is, has for the request.
FoundBy(r, shown) ==
    /\ HitsPage(Field(r)).skip \in Nat
    /\ \E x \in Hits(SearchArgs(r), index) : shown = Cut(x, HitsPage(Field(r)))

SeekHeld(r) ==
    /\ BeganHeld(r)
    /\ Seeker(r) =>
        /\ Field(r).endpoint = "nftSearch"
             /\ (r.stage \in {"run", "fetch", "load"} \/ r.code = "OK") =>
                r.preferences = NoPreferences
        /\ Field(r).endpoint = "nftFeed"
             /\ (r.stage \in {"search", "fetch", "load"} \/ r.code = "OK") => PreferredBy(r)
        /\ r.stage = "fetch" => FoundBy(r, r.hits)
        /\ r.stage = "load" \/ r.code = "OK" => FoundBy(r, r.rows.nfts)

\* The index is what it would be if it were built again, and nobody likes an NFT
\* that is still to be made.
IndexHeld ==
    /\ \A n \in DOMAIN index : index[n] = DocumentMapping(n, nfts[n], history, users)
    /\ \A u \in DOMAIN users : users[u].bookmarks \cap Nft \subseteq DOMAIN nfts
    /\ \A i \in DOMAIN history : history[i].nftId \in Nft => history[i].nftId \in DOMAIN nfts

SeekersHeld == IndexHeld /\ \A c \in Call : \A r : r = calls[c] => SeekHeld(r)

LEMMA BeganLater ==
    ASSUME Typed, Next, NEW r, BeganHeld(r)
    PROVE  /\ BeganHeld(r)'
           /\ NotUpdated(r)' => NotUpdated(r) /\ Me(r) \in DOMAIN users
                                  /\ users'[Me(r)].rev = users[Me(r)].rev
<1>1. UsersGoOn
  BY UsersNext
<1>2. ASSUME NEW u \in DOMAIN r.began
      PROVE  /\ u \in DOMAIN users /\ u \in DOMAIN users'
             /\ r.began[u] \in Nat /\ r.began[u] <= users'[u].rev
             /\ r.began[u] = users'[u].rev =>
                   r.began[u] = users[u].rev /\ users'[u].rev = users[u].rev
  <2>1. PICK began, old, new \in Nat :
           /\ began = r.began[u] /\ old = users[u].rev /\ new = users'[u].rev
           /\ began <= old /\ old <= new
    BY <1>1 DEF BeganHeld, UsersGoOn
  <2>2. began <= new /\ (began = new => began = old /\ new = old)
    BY <2>1
  <2>3. u \in DOMAIN users /\ u \in DOMAIN users'
    BY <1>1 DEF BeganHeld, UsersGoOn
  <2> QED  BY <2>1, <2>2, <2>3
<1> QED  BY <1>2 DEF BeganHeld, NotUpdated, Me

LEMMA GrewNext ==
    ASSUME Typed, IndexHeld, Next
    PROVE  Grew(users, users', nfts, nfts', history) /\ history' = history /\ index' = index
<1>1. UsersGoOn /\ NftsStay /\ NftsTyped'
  BY UsersNext, NftsNext
<1>2. history' = history /\ index' = index
  BY NextFrames DEF Typed, RequestsHeld
<1> QED  BY <1>1, <1>2 DEF Grew, UsersGoOn, NftsStay, NftsTyped, IndexHeld

LEMMA IndexNext ==
    ASSUME Typed, IndexHeld, Next
    PROVE  IndexHeld'
<1>1. Grew(users, users', nfts, nfts', history) /\ history' = history /\ index' = index
  BY GrewNext
<1>2. DOMAIN index \subseteq DOMAIN nfts
  BY DEF Typed, TypeOK
<1>3. \A n \in DOMAIN index : index'[n] = DocumentMapping(n, nfts'[n], history', users')
  BY <1>1, <1>2, DocumentsStay DEF IndexHeld
<1>4. \A u \in DOMAIN users' : users'[u].bookmarks \cap Nft \subseteq DOMAIN nfts'
  <2>1. ASSUME NEW u \in DOMAIN users PROVE users'[u].bookmarks \cap Nft \subseteq DOMAIN nfts'
    BY <1>1 DEF Grew, SameLikes
  <2>2. ASSUME NEW u \in DOMAIN users' \ DOMAIN users PROVE users'[u].bookmarks = {}
    BY <1>1 DEF Grew
  <2> QED  BY <2>1, <2>2
<1>5. \A i \in DOMAIN history' : history'[i].nftId \in Nft => history'[i].nftId \in DOMAIN nfts'
  BY <1>1 DEF Grew
<1> QED  BY <1>1, <1>3, <1>4, <1>5 DEF IndexHeld

LEMMA SeekLater ==
    ASSUME Typed, IndexHeld, Next, NEW r, SeekHeld(r)
    PROVE  SeekHeld(r)'
<1>1. Grew(users, users', nfts, nfts', history) /\ history' = history /\ index' = index
      /\ DOMAIN users \subseteq User /\ DOMAIN users \subseteq DOMAIN users'
  BY GrewNext DEF Typed, TypeOK, Grew
<1>2. PreferredBy(r) => PreferredBy(r)'
  <2> SUFFICES ASSUME NotUpdated(r)', PreferredBy(r)
               PROVE  r.preferences = Preferences(Me(r), users', nfts', history')
    BY DEF PreferredBy, Me
  <2>1. NotUpdated(r) /\ Me(r) \in DOMAIN users /\ users'[Me(r)].rev = users[Me(r)].rev
    BY BeganLater DEF SeekHeld
  <2>2. Preferences(Me(r), users', nfts', history) = Preferences(Me(r), users, nfts, history)
    BY <1>1, <2>1, PreferencesStay
  <2> QED  BY <1>1, <2>1, <2>2 DEF PreferredBy
<1>3. \A x : FoundBy(r, x) => FoundBy(r, x)'
  BY <1>1 DEF FoundBy
<1>4. BeganHeld(r)'
  BY BeganLater DEF SeekHeld
<1> QED  BY <1>2, <1>3, <1>4 DEF SeekHeld, Seeker, Alone, Field

\* A page of hits is of the index, in an order of what the query finds.
LEMMA FoundFacts ==
    ASSUME Typed, FiniteDocs, NEW args, NEW x \in Hits(args, index)
    PROVE  LET found == {n \in DOMAIN index : Filtered(args, index[n]) /\ TextMatches(args, index[n])}
           IN  found \subseteq DOMAIN index /\ IsFiniteSet(found) /\ x \in SetToSeqs(found)
<1>1. PICK found : found = {n \in DOMAIN index :
                              Filtered(args, index[n]) /\ TextMatches(args, index[n])}
  OBVIOUS
<1>2. x \in SetToSeqs(found)
  BY <1>1 DEF Hits
<1>3. found \subseteq DOMAIN nfts /\ IsFiniteSet(DOMAIN nfts)
  BY <1>1 DEF Typed, TypeOK, FiniteDocs
<1>4. IsFiniteSet(found)
  BY <1>3, FS_Subset
<1> QED  BY <1>1, <1>2, <1>4

LEMMA HitsPageFacts ==
    ASSUME NEW f
    PROVE  /\ HitsPage(f).limit = HitsPerPage /\ HitsPerPage \in Nat \ {0} /\ HitsPerPage # None
           /\ HitsPage(f).skip = Or(f.page, 0) * HitsPerPage
BY RequestConstants, QueryConstants DEF HitsPage, Unpaged

LEMMA FoundInIndex ==
    ASSUME Typed, FiniteDocs, NEW r, NEW shown, FoundBy(r, shown)
    PROVE  shown \in Seq(DOMAIN index)
<1>1. PICK p, args : p = HitsPage(Field(r)) /\ args = SearchArgs(r)
  OBVIOUS
<1>2. PICK x \in Hits(args, index) : shown = Cut(x, p)
  BY <1>1 DEF FoundBy
<1>3. PICK found : found \subseteq DOMAIN index /\ IsFiniteSet(found) /\ x \in SetToSeqs(found)
  BY <1>2, FoundFacts
<1>4. p.skip \in Nat /\ p.limit \in Int /\ p.limit # None
  BY <1>1, HitsPageFacts DEF FoundBy
<1>5. Cut(x, p) \in Seq(found)
  BY <1>3, <1>4, CutPlaces
<1> QED  BY <1>2, <1>3, <1>5

LEMMA SeekActs ==
    ASSUME Typed, FiniteDocs, SeekersHeld, NEW c \in Call, Acts(c), NEW s, s = calls'[c]
    PROVE  SeekHeld(s)
<1> DEFINE r == calls[c]
<1>0. /\ Shaped(r) /\ RequestHeld(r) /\ Running(r) /\ Moves(r, s) /\ SeekHeld(r)
  BY ActsFacts DEF Typed, RequestsHeld, CallsShaped, SeekersHeld, Running
<1>11. s.began = r.began /\ s.ctx = r.ctx
  BY <1>0, MovesFacts
<1>12. BeganHeld(s)
  BY <1>0, <1>11 DEF BeganHeld, SeekHeld
<1> SUFFICES ASSUME Seeker(s) PROVE SeekHeld(s)
  BY <1>12 DEF SeekHeld
<1>1. Field(s) = Field(r) /\ Seeker(r) /\ Me(s) = Me(r)
  <2>1. Alone(r) /\ Field(s) = Field(r)
    BY <1>0, StaysAlone DEF Seeker
  <2> QED  BY <1>11, <2>1 DEF Seeker, Me
<1>2. ValidField(Field(r)) /\ Field(r).endpoint \in {"nftSearch", "nftFeed"}
  BY <1>0, <1>1, FieldFacts DEF Seeker
<1>3. r.code # "OK" /\ (s.stage # "done" => s.code # "OK")
  <2>1. RequestHeld(s)
    BY <1>0, MovesFacts
  <2> QED  BY <1>0, <2>1 DEF RequestHeld, Running
<1>4. \/ Prefers(r, s) \/ Finds(r, s) \/ Fetches(r, s) \/ KeepsFound(r, s) \/ EndsFound(r, s)
  BY <1>1, SeekerSteps
<1>5. ASSUME s.preferences = r.preferences
      PROVE  /\ PreferredBy(r) => PreferredBy(s)
             /\ \A x : FoundBy(r, x) => FoundBy(s, x)
  <2>1. SearchArgs(s) = SearchArgs(r)
    BY <1>1, <1>5 DEF SearchArgs
  <2> QED  BY <1>1, <1>5, <1>11, <2>1 DEF PreferredBy, NotUpdated, FoundBy
<1>6. CASE Prefers(r, s)
  <2>1. PreferredBy(s)
    <3> SUFFICES ASSUME NotUpdated(s)
                 PROVE  s.preferences = Preferences(Me(s), users, nfts, history)
      BY DEF PreferredBy
    <3>1. Me(r) \in DOMAIN users /\ Me(r) # None
      BY <1>1, <1>12, RequestConstants DEF NotUpdated, BeganHeld, Typed, TypeOK
    <3> QED  BY <1>1, <1>6, <3>1 DEF Prefers
  <2> QED  BY <1>1, <1>3, <1>6, <1>12, <2>1 DEF Prefers, SeekHeld
<1>7. CASE Finds(r, s)
  <2>1. /\ r.stage = IF Field(r).endpoint = "nftSearch" THEN "run" ELSE "search"
        /\ s.stage = "fetch" /\ s.preferences = r.preferences
        /\ ~SkipRefused(HitsPage(Field(r)))
    BY <1>7 DEF Finds
  <2>2. HitsPage(Field(r)).skip \in Nat
    <3>1. Field(r).page \in Int \cup {None} /\ HitsPerPage \in Nat \ {0}
      BY <1>2, RequestConstants DEF ValidField
    <3>2. HitsPage(Field(r)).skip = Or(Field(r).page, 0) * HitsPerPage
      BY DEF HitsPage, Unpaged
    <3>3. Or(Field(r).page, 0) \in Nat
      BY <2>1, <3>1, <3>2, PageOfZero DEF SkipRefused
    <3> QED  BY <3>1, <3>2, <3>3, ProductIsNat
  <2>3. FoundBy(r, s.hits)
    BY <1>7, <2>2 DEF Finds, FoundBy
  <2> QED  BY <1>0, <1>1, <1>2, <1>3, <1>5, <1>12, <2>1, <2>3 DEF SeekHeld
<1>8. CASE Fetches(r, s)
  <2>1. FoundBy(r, r.hits) /\ s.preferences = r.preferences /\ r.stage = "fetch" /\ s.stage = "load"
    BY <1>0, <1>1, <1>8 DEF Fetches, SeekHeld
  <2>2. s.rows.nfts = r.hits
    <3>1. PICK hits : hits = r.hits
      OBVIOUS
    <3>2. hits \in Seq(DOMAIN index)
      BY <2>1, <3>1, FoundInIndex
    <3>3. DOMAIN index \subseteq DOMAIN nfts
      BY DEF Typed, TypeOK
    <3> QED  BY <1>8, <3>1, <3>2, <3>3, NothingMissing DEF Fetches
  <2> QED  BY <1>0, <1>1, <1>2, <1>3, <1>5, <1>12, <2>1, <2>2 DEF SeekHeld
<1>9. CASE KeepsFound(r, s)
  BY <1>0, <1>1, <1>3, <1>5, <1>9, <1>12 DEF KeepsFound, SameFinds, SeekHeld
<1>10. CASE EndsFound(r, s)
  BY <1>0, <1>1, <1>3, <1>5, <1>10, <1>12 DEF EndsFound, SameFinds, SeekHeld
<1> QED  BY <1>4, <1>6, <1>7, <1>8, <1>9, <1>10

LEMMA SeekersNext ==
    ASSUME Typed, FiniteDocs, SeekersHeld, Next
    PROVE  SeekersHeld'
<1>1. IndexHeld /\ IndexHeld' /\ CallsShaped
  BY IndexNext DEF SeekersHeld, Typed, RequestsHeld
<1>2. ASSUME NEW r, SeekHeld(r) PROVE SeekHeld(r)'
  BY <1>1, <1>2, SeekLater
<1>3. ASSUME NEW c \in Call, NEW s, s = calls'[c], \E r \in asked : Arrive(c, r) PROVE SeekHeld(s)'
  <2>1. /\ s.code # "OK" /\ s.stage \in {"run", "done"}
        /\ s.stage = "run" => s.preferences = NoPreferences
    BY <1>1, <1>3, ArriveAfter
  <2>3. s.began = [u \in DOMAIN users |-> users[u].rev]
    <3>1. \A r \in asked : ValidRequest(r)
      BY DEF Typed, RequestsHeld
    <3>2. PICK t : Becomes(c, t) /\ Arrived(t)
      BY <1>1, <1>3, <3>1, ArriveFacts
    <3>3. t = s
      BY <1>1, <1>3, <3>2 DEF Becomes, CallsShaped
    <3> QED  BY <3>2, <3>3 DEF Arrived
  <2>4. \A u \in DOMAIN users : users[u].rev \in Nat /\ users[u].rev <= users[u].rev
    BY DEF Typed, TypeOK, UserDoc
  <2>5. BeganHeld(s)
    BY <2>3, <2>4 DEF BeganHeld
  <2>2. SeekHeld(s)
    BY <2>1, <2>5 DEF SeekHeld
  <2> QED  BY <1>2, <2>2
<1>4. ASSUME NEW c \in Call, NEW s, s = calls'[c], Acts(c) PROVE SeekHeld(s)'
  BY <1>2, <1>4, SeekActs
<1>5. ASSUME NEW d \in Call, NEW r, r = calls'[d], r = calls[d] PROVE SeekHeld(r)'
  BY <1>2, <1>5 DEF SeekersHeld
<1>6. \A d \in Call : \A r : r = calls'[d] => SeekHeld(r)'
  BY <1>3, <1>4, <1>5, OneMoves
<1> QED  BY <1>1, <1>6 DEF SeekersHeld

\* Whatever a search or a feed knows stays true until its answer is read, unless its
\* user updates the profile: no request of this module changes NFTs, bookmarks or
\* followers.
THEOREM SeekersAlways == Spec => [](Typed /\ FiniteDocs /\ SeekersHeld)
<1>1. Init => SeekersHeld
  <2> SUFFICES ASSUME Init PROVE SeekersHeld
    OBVIOUS
  <2>1. \A c \in Call : calls[c].stage = "idle" /\ calls[c].code = "none" /\ calls[c].began = <<>>
    BY DEF Init, NoCall
  <2>2. IndexHeld
    <3>1. PICK case \in Case :
             /\ users = case.users /\ nfts = case.nfts /\ history = case.history
             /\ index = [n \in case.indexed |->
                           DocumentMapping(n, case.nfts[n], case.history, case.users)]
      BY DEF Init
    <3> QED  BY <3>1, RequestCases DEF Consistent, IndexHeld
  <2> QED  BY <2>1, <2>2 DEF SeekersHeld, SeekHeld, BeganHeld
<1>2. (Typed /\ PagesHeld) /\ SeekersHeld /\ [Next]_requestVars => SeekersHeld'
  <2> SUFFICES ASSUME Typed, PagesHeld, SeekersHeld, [Next]_requestVars PROVE SeekersHeld'
    OBVIOUS
  <2>1. CASE UNCHANGED requestVars
    <3>1. UNCHANGED <<users, nfts, history, index, calls>>
      BY <2>1 DEF requestVars, stores
    <3>2. \A r : SeekHeld(r)' <=> SeekHeld(r)
      BY <3>1 DEF SeekHeld, BeganHeld, NotUpdated, PreferredBy, FoundBy, Seeker, Alone, Field, Me, SearchArgs
    <3> QED  BY <3>1, <3>2 DEF SeekersHeld, IndexHeld
  <2> QED  BY <2>1, SeekersNext DEF PagesHeld
<1>3. PagesHeld => FiniteDocs
  BY DEF PagesHeld
<1> QED  BY <1>1, <1>2, <1>3, PagesAlways, PTL DEF Spec
-----------------------------------------------------------------------------
(* Searches *)

LEMMA ArgsFacts ==
    ASSUME NEW r
    PROVE  /\ SearchArgs(r).titleOrDescription = Field(r).titleOrDescription
           /\ SearchArgs(r).saleKinds = Field(r).saleKinds
           /\ SearchArgs(r).minPrice = Field(r).minPrice
           /\ SearchArgs(r).maxPrice = Field(r).maxPrice
           /\ SearchArgs(r).requiredTagIds = Field(r).tagIds
           /\ SearchArgs(r).recentBuyerIds = r.preferences.recentBuyerIds
           /\ SearchArgs(r).bookmarkedByUserIds = r.preferences.bookmarkedByUserIds
           /\ SearchArgs(r).viewerIds = r.preferences.viewerIds
           /\ SearchArgs(r).favoredTagIds = r.preferences.favoredTagIds
           /\ SearchArgs(r).creatorIds = r.preferences.creatorIds
           /\ SearchArgs(r).collectionIds = r.preferences.collectionIds
BY DEF SearchArgs

\* What the filter of the query means for an NFT: the range on the mapped price
\* is one on the highest bid, the starting price or the price.
LEMMA FilterFacts ==
    ASSUME Typed, IndexHeld, NEW n \in DOMAIN index, NEW r,
           NEW args, args = SearchArgs(r), NEW f, f = Field(r), NEW sale, sale = nfts[n].sale,
           NEW price, price = IF sale.kind = "FixedPrice" THEN sale.price
                              ELSE IF sale.highestBid > 0 THEN sale.highestBid
                              ELSE sale.startingPrice
    PROVE  Filtered(args, index[n]) /\ TextMatches(args, index[n])
             <=> /\ f.saleKinds # None => sale.kind \in f.saleKinds
                 /\ f.minPrice # None => sale.kind # "OpenToOffer" /\ f.minPrice <= price
                 /\ f.maxPrice # None => sale.kind # "OpenToOffer" /\ price <= f.maxPrice
                 /\ f.tagIds # None => \A t \in f.tagIds : t \in nfts[n].tagIds
                 /\ f.titleOrDescription # None =>
                       \E g \in f.titleOrDescription : g \in nfts[n].grams
<1>1. PICK e : e = index[n]
  OBVIOUS
<1>2. /\ e.grams = nfts[n].grams /\ e.saleKind = sale.kind /\ e.price = NftPrice(sale)
      /\ e.tagIds = nfts[n].tagIds
  BY <1>1 DEF IndexHeld, DocumentMapping
<1>3. SaleDoc(sale)
  BY DEF Typed, TypeOK, NftDoc
<1>4. /\ sale.kind = "OpenToOffer" => e.price = None
      /\ sale.kind # "OpenToOffer" => e.price = price /\ e.price # None
  <2>1. CASE sale.kind = "OpenToOffer"
    BY <1>2, <2>1 DEF NftPrice
  <2>2. CASE sale.kind = "FixedPrice"
    BY <1>2, <1>3, <2>2, QueryConstants DEF NftPrice, SaleDoc
  <2>3. CASE sale.kind = "Auction"
    <3>1. sale.startingPrice \in Int /\ sale.highestBid \in Nat /\ None \notin Int
      BY <1>3, <2>3, QueryConstants DEF SaleDoc
    <3>2. e.price = Or(sale.highestBid, sale.startingPrice)
      BY <1>2, <2>3 DEF NftPrice
    <3> QED  BY <2>3, <3>1, <3>2 DEF Or
  <2> QED  BY <1>3, <2>1, <2>2, <2>3 DEF SaleDoc
<1>5. /\ args.titleOrDescription = f.titleOrDescription /\ args.saleKinds = f.saleKinds
      /\ args.minPrice = f.minPrice /\ args.maxPrice = f.maxPrice
      /\ args.requiredTagIds = f.tagIds
  BY ArgsFacts
<1>6. InRange(args, e.price) <=>
         /\ f.minPrice # None => sale.kind # "OpenToOffer" /\ f.minPrice <= price
         /\ f.maxPrice # None => sale.kind # "OpenToOffer" /\ price <= f.maxPrice
  BY <1>4, <1>5 DEF InRange
<1>7. TextMatches(args, e) <=>
         (f.titleOrDescription # None => \E g \in f.titleOrDescription : g \in nfts[n].grams)
  BY <1>2, <1>5 DEF TextMatches, AllowsAny
<1>8. Filtered(args, e) <=>
         /\ f.saleKinds # None => sale.kind \in f.saleKinds
         /\ InRange(args, e.price)
         /\ f.tagIds # None => \A t \in f.tagIds : t \in nfts[n].tagIds
  BY <1>2, <1>5 DEF Filtered, Allows
<1> QED  BY <1>1, <1>6, <1>7, <1>8

\* A page shows the whole of an order that fits it.
LEMMA CutWhole ==
    ASSUME NEW S, IsFiniteSet(S), NEW s \in SetToSeqs(S), NEW p,
           p.skip = 0, p.limit \in Nat, p.limit # None, Cardinality(S) <= p.limit
    PROVE  ToSet(Cut(s, p)) = S
<1>1. PICK n \in Nat : n = p.limit
  OBVIOUS
<1>2. PICK len \in Nat : len = Len(s) /\ len <= n
  BY <1>1, OrderFacts
<1>3. ToSet(Cut(s, p)) = {s[i] : i \in {i \in 1..Len(s) : p.skip < i /\ i <= p.skip + n}}
  BY <1>1, CutFacts
<1>4. {i \in 1..Len(s) : p.skip < i /\ i <= p.skip + n} = 1..len
  BY <1>2
<1>5. {s[i] : i \in 1..len} = S
  BY <1>2, OrderFacts
<1> QED  BY <1>3, <1>4, <1>5

LEMMA SearchWhenHeld ==
    ASSUME Typed, FiniteDocs, SeekersHeld
    PROVE  SearchAnswersExactly
<1> DEFINE sale(n) == nfts[n].sale
           price(n) == IF sale(n).kind = "FixedPrice" THEN sale(n).price
                       ELSE IF sale(n).highestBid > 0 THEN sale(n).highestBid
                       ELSE sale(n).startingPrice
           priced(n) == sale(n).kind # "OpenToOffer"
           fits(f, n) ==
              /\ f.saleKinds # None => sale(n).kind \in f.saleKinds
              /\ f.minPrice # None => priced(n) /\ f.minPrice <= price(n)
              /\ f.maxPrice # None => priced(n) /\ price(n) <= f.maxPrice
              /\ f.tagIds # None => \A t \in f.tagIds : t \in nfts[n].tagIds
              /\ f.titleOrDescription # None =>
                    \E g \in f.titleOrDescription : g \in nfts[n].grams
<1>1. ASSUME NEW c \in Call, Asks(c, {"nftSearch"}), Or(Field(calls[c]).page, 0) = 0,
             NEW found, found = {n \in DOMAIN index : fits(Field(calls[c]), n)},
             Cardinality(found) <= HitsPerPage
      PROVE  ToSet(calls[c].rows.nfts) = found
  <2>1. PICK r : r = calls[c]
    OBVIOUS
  <2>2. PICK f : f = Field(r)
    OBVIOUS
  <2>3. SeekHeld(r) /\ Seeker(r) /\ r.code = "OK"
    <3>1. Alone(calls[c]) /\ calls[c].code = "OK" /\ Field(calls[c]).endpoint \in {"nftSearch"}
      BY <1>1, AnsweredIsValid
    <3> QED  BY <2>1, <3>1 DEF SeekersHeld, Seeker
  <2>4. PICK p, args : p = HitsPage(f) /\ args = SearchArgs(r)
    OBVIOUS
  <2>5. PICK x \in Hits(args, index) : r.rows.nfts = Cut(x, p)
    BY <2>2, <2>3, <2>4 DEF SeekHeld, FoundBy
  <2>6. PICK all : /\ all = {n \in DOMAIN index : Filtered(args, index[n]) /\ TextMatches(args, index[n])}
                   /\ IsFiniteSet(all) /\ x \in SetToSeqs(all)
    BY <2>5, FoundFacts
  <2>7. \A n \in DOMAIN index : Filtered(args, index[n]) /\ TextMatches(args, index[n]) <=> fits(f, n)
    BY <2>2, <2>4, FilterFacts DEF SeekersHeld
  <2>8. all = found
    <3> HIDE DEF fits
    <3> QED  BY <1>1, <2>1, <2>2, <2>6, <2>7
  <2>9. p.skip = 0 /\ p.limit = HitsPerPage /\ p.limit \in Nat /\ p.limit # None
    <3>1. HitsPerPage \in Nat /\ p.skip = Or(f.page, 0) * HitsPerPage /\ p.limit = HitsPerPage
          /\ HitsPerPage # None
      BY <2>4, HitsPageFacts
    <3>2. Or(f.page, 0) = 0
      BY <1>1, <2>1, <2>2
    <3> QED  BY <3>1, <3>2
  <2>10. ToSet(Cut(x, p)) = all
    <3> HIDE DEF Cut
    <3> QED  BY <1>1, <2>6, <2>8, <2>9, CutWhole
  <2> QED  BY <2>1, <2>5, <2>8, <2>10
<1> QED  BY <1>1 DEF SearchAnswersExactly

\* A search that fits a page finds exactly the indexed NFTs it describes, whatever
\* is written between its query of the index and that of the NFTs
\* (getElasticsearchNftSearchQuery on getDocumentMapping, nft-elasticsearch.service.ts).
THEOREM SearchesAnswerExactly == Spec => []SearchAnswersExactly
BY SeekersAlways, SearchWhenHeld, PTL
-----------------------------------------------------------------------------
(* The feed *)

RecentlySold(n) ==
    LET sold == {i \in DOMAIN history : history[i].nftId = n /\ history[i].kind = "Sold"}
    IN  {i \in sold : Cardinality({j \in sold : j > i}) < BuyersKept}

LEMMA RecentBuyersFacts ==
    ASSUME NEW n \in Nft
    PROVE  RecentBuyers(n, history) = {history[i].buyerId : i \in RecentlySold(n)}
<1>1. PICK filter : filter = [AnyRecord EXCEPT !.nftIds = {n}, !.kinds = {"Sold"}]
  OBVIOUS
<1>2. PICK sold : sold = {i \in DOMAIN history : history[i].nftId = n /\ history[i].kind = "Sold"}
  OBVIOUS
<1>3. {i \in DOMAIN history : HistoryMatches(filter, history[i])} = sold
  BY <1>1, <1>2, SoldFacts
<1>4. RecentBuyers(n, history)
        = {history[i].buyerId : i \in {i \in sold : Cardinality({j \in sold : j > i}) < BuyersKept}}
  BY <1>1, <1>3 DEF RecentBuyers
<1>5. RecentlySold(n) = {i \in sold : Cardinality({j \in sold : j > i}) < BuyersKept}
  BY <1>2 DEF RecentlySold
<1> QED  BY <1>4, <1>5

\* What a feed asks for, of whom a user follows and what the user likes.
FeedArgs(args, me, followed, liked) ==
    /\ args.titleOrDescription = None
    /\ args.recentBuyerIds = followed /\ args.bookmarkedByUserIds = followed
    /\ args.viewerIds = followed
    /\ args.favoredTagIds = users[me].tagsId \cup UNION {nfts[l].tagIds : l \in liked}
    /\ args.creatorIds = {nfts[l].creatorId : l \in liked}
    /\ args.collectionIds = {nfts[l].collectionId : l \in liked}

FitsFeed(n, me, followed, liked) ==
    \/ \E u \in followed : n \in users[u].bookmarks
    \/ \E i \in RecentlySold(n) : history[i].buyerId \in followed
    \/ nfts[n].tagIds \cap users[me].tagsId # {}
    \/ \E l \in liked : \/ nfts[l].tagIds \cap nfts[n].tagIds # {}
                        \/ nfts[l].creatorId = nfts[n].creatorId
                        \/ nfts[l].collectionId = nfts[n].collectionId

\* What scores is what fits: no clause is that of an absent option, nor, once
\* somebody is followed, one that everything matches.
LEMMA ScoresFacts ==
    ASSUME Typed, IndexHeld, NEW n \in DOMAIN index, NEW me \in DOMAIN users, NEW args,
           NEW followed, followed = Followed(me, users), followed # {},
           NEW liked, liked = Liked(me, users, nfts, history),
           FeedArgs(args, me, followed, liked)
    PROVE  Scores(args, index[n]) <=> FitsFeed(n, me, followed, liked)
<1>0. /\ args.titleOrDescription = None
      /\ args.recentBuyerIds = followed /\ args.bookmarkedByUserIds = followed
      /\ args.viewerIds = followed
      /\ args.favoredTagIds = users[me].tagsId \cup UNION {nfts[l].tagIds : l \in liked}
      /\ args.creatorIds = {nfts[l].creatorId : l \in liked}
      /\ args.collectionIds = {nfts[l].collectionId : l \in liked}
  BY DEF FeedArgs
<1>1. /\ DOMAIN users \subseteq User /\ n \in Nft /\ n \in DOMAIN nfts
      /\ users[me].tagsId \in SUBSET Tag
      /\ \A l \in DOMAIN nfts : /\ nfts[l].tagIds \in SUBSET Tag /\ nfts[l].creatorId \in User
                                /\ nfts[l].collectionId \in Collection
  BY DEF Typed, TypeOK, UserDoc, NftDoc
<1>2. liked \subseteq DOMAIN nfts /\ followed \subseteq DOMAIN users
  BY DEF Liked, Followed
<1>3. PICK e : e = index[n]
  OBVIOUS
<1>4. /\ e.tagIds = nfts[n].tagIds /\ e.creatorId = nfts[n].creatorId
      /\ e.collectionId = nfts[n].collectionId /\ e.viewerIds = {}
      /\ e.recentBuyerIds = {history[i].buyerId : i \in RecentlySold(n)}
      /\ e.bookmarkedByUserIds = {u \in DOMAIN users : n \in users[u].bookmarks}
  <2>1. e = DocumentMapping(n, nfts[n], history, users)
    BY <1>3 DEF IndexHeld
  <2> QED  BY <1>1, <2>1, RecentBuyersFacts, BookmarkersFacts DEF DocumentMapping
<1>5. followed # None /\ args.favoredTagIds # None /\ args.creatorIds # None
      /\ args.collectionIds # None
  <2>1. /\ followed \in SUBSET User /\ args.favoredTagIds \in SUBSET Tag
        /\ args.creatorIds \in SUBSET User /\ args.collectionIds \in SUBSET Collection
    BY <1>0, <1>1, <1>2
  <2> QED  BY <2>1, RequestConstants
<1>6. Shares(args.recentBuyerIds, e.recentBuyerIds)
        <=> \E i \in RecentlySold(n) : history[i].buyerId \in followed
  BY <1>0, <1>4, <1>5 DEF Shares
<1>7. Shares(args.bookmarkedByUserIds, e.bookmarkedByUserIds)
        <=> \E u \in followed : n \in users[u].bookmarks
  BY <1>0, <1>2, <1>4, <1>5 DEF Shares
<1>8. ~Shares(args.viewerIds, e.viewerIds)
  BY <1>0, <1>4 DEF Shares
<1>9. Shares(args.favoredTagIds, e.tagIds)
        <=> \/ nfts[n].tagIds \cap users[me].tagsId # {}
            \/ \E l \in liked : nfts[l].tagIds \cap nfts[n].tagIds # {}
  BY <1>0, <1>4, <1>5 DEF Shares
<1>10. Shares(args.creatorIds, {e.creatorId})
         <=> \E l \in liked : nfts[l].creatorId = nfts[n].creatorId
  BY <1>0, <1>4, <1>5 DEF Shares
<1>11. Shares(args.collectionIds, {e.collectionId})
         <=> \E l \in liked : nfts[l].collectionId = nfts[n].collectionId
  BY <1>0, <1>4, <1>5 DEF Shares
<1>12. Scores(args, e)
         <=> \/ Shares(args.recentBuyerIds, e.recentBuyerIds)
             \/ Shares(args.bookmarkedByUserIds, e.bookmarkedByUserIds)
             \/ Shares(args.favoredTagIds, e.tagIds)
             \/ Shares(args.creatorIds, {e.creatorId})
             \/ Shares(args.collectionIds, {e.collectionId})
  BY <1>0, <1>8 DEF Scores
<1> QED  BY <1>3, <1>6, <1>7, <1>9, <1>10, <1>11, <1>12 DEF FitsFeed

\* A page keeps the order of the hits.
LEMMA PageKeepsOrder ==
    ASSUME Typed, FiniteDocs, NEW r, NEW shown, FoundBy(r, shown),
           NEW i \in DOMAIN shown, NEW j \in DOMAIN shown, i < j
    PROVE  /\ shown[i] \in DOMAIN index /\ shown[j] \in DOMAIN index
           /\ Scores(SearchArgs(r), index[shown[j]]) => Scores(SearchArgs(r), index[shown[i]])
<1>1. PICK p, args : p = HitsPage(Field(r)) /\ args = SearchArgs(r)
  OBVIOUS
<1>2. PICK x \in Hits(args, index) : shown = Cut(x, p)
  BY <1>1 DEF FoundBy
<1>3. PICK found : found \subseteq DOMAIN index /\ IsFiniteSet(found) /\ x \in SetToSeqs(found)
  BY <1>2, FoundFacts
<1>4. p.skip \in Nat /\ p.limit \in Int /\ p.limit # None
  BY <1>1, HitsPageFacts DEF FoundBy
<1>5. /\ shown \in Seq(found)
      /\ \A k \in DOMAIN shown : k \in Nat /\ p.skip + k \in DOMAIN x /\ shown[k] = x[p.skip + k]
  <2> HIDE DEF Cut
  <2> QED  BY <1>2, <1>3, <1>4, CutPlaces
<1>6. PICK k \in Nat, l \in Nat : k = p.skip + i /\ l = p.skip + j /\ k < l
  BY <1>4, <1>5
<1>7. k \in DOMAIN x /\ l \in DOMAIN x /\ shown[i] = x[k] /\ shown[j] = x[l]
  BY <1>5, <1>6
<1>8. Scores(args, index[x[l]]) => Scores(args, index[x[k]])
  BY <1>2, <1>6, <1>7 DEF Hits
<1> QED  BY <1>1, <1>3, <1>5, <1>7, <1>8

LEMMA PreferencesNow ==
    ASSUME NEW u \in User, NEW likes, likes = Preferences(u, users, nfts, history)
    PROVE  LET followed == Followed(u, users)
               liked    == Liked(u, users, nfts, history)
           IN  /\ likes.recentBuyerIds = followed /\ likes.bookmarkedByUserIds = followed
               /\ likes.viewerIds = followed
               /\ likes.favoredTagIds =
                     users[u].tagsId \cup UNION {nfts[n].tagIds : n \in liked}
               /\ likes.creatorIds = {nfts[n].creatorId : n \in liked}
               /\ likes.collectionIds = {nfts[n].collectionId : n \in liked}
BY PreferencesFacts

LEMMA FeedOrder ==
    ASSUME Typed, FiniteDocs, SeekersHeld, NEW c \in Call, Asks(c, {"nftFeed"}),
           Field(calls[c]).titleOrDescription = None,
           NEW me, me = Me(calls[c]), me \in DOMAIN users,
           me \in DOMAIN calls[c].began, calls[c].began[me] = users[me].rev,
           NEW followed, followed = Followed(me, users), followed # {},
           NEW liked, liked = Liked(me, users, nfts, history),
           NEW shown, shown = calls[c].rows.nfts,
           NEW i \in DOMAIN shown, NEW j \in DOMAIN shown, i < j,
           FitsFeed(shown[j], me, followed, liked)
    PROVE  FitsFeed(shown[i], me, followed, liked)
<1>1. PICK r : r = calls[c]
  OBVIOUS
<1>2. SeekHeld(r) /\ Seeker(r) /\ r.code = "OK" /\ Field(r).endpoint = "nftFeed"
  <2>1. Alone(calls[c]) /\ calls[c].code = "OK" /\ Field(calls[c]).endpoint \in {"nftFeed"}
    BY AnsweredIsValid
  <2> QED  BY <1>1, <2>1 DEF SeekersHeld, Seeker
<1>3. me \in User /\ Me(r) = me /\ me # None
  BY <1>1, RequestConstants DEF Typed, TypeOK
<1>4. FoundBy(r, shown) /\ r.preferences = Preferences(me, users, nfts, history)
  BY <1>1, <1>2, <1>3 DEF SeekHeld, PreferredBy, NotUpdated
<1>5. PICK likes : likes = Preferences(me, users, nfts, history) /\ likes = r.preferences
  BY <1>4
<1>6. PICK args, f : args = SearchArgs(r) /\ f = Field(r)
  OBVIOUS
<1>7. FeedArgs(args, me, followed, liked)
  <2>1. /\ args.titleOrDescription = f.titleOrDescription
        /\ args.recentBuyerIds = likes.recentBuyerIds
        /\ args.bookmarkedByUserIds = likes.bookmarkedByUserIds
        /\ args.viewerIds = likes.viewerIds /\ args.favoredTagIds = likes.favoredTagIds
        /\ args.creatorIds = likes.creatorIds /\ args.collectionIds = likes.collectionIds
    BY <1>5, <1>6, ArgsFacts
  <2>2. f.titleOrDescription = None
    BY <1>1, <1>6
  <2>3. /\ likes.recentBuyerIds = followed /\ likes.bookmarkedByUserIds = followed
        /\ likes.viewerIds = followed
        /\ likes.favoredTagIds = users[me].tagsId \cup UNION {nfts[n].tagIds : n \in liked}
        /\ likes.creatorIds = {nfts[n].creatorId : n \in liked}
        /\ likes.collectionIds = {nfts[n].collectionId : n \in liked}
    BY <1>3, <1>5, PreferencesNow
  <2> QED  BY <2>1, <2>2, <2>3 DEF FeedArgs
<1>8. IndexHeld
  BY DEF SeekersHeld
<1>9. \A n \in DOMAIN index : Scores(args, index[n]) <=> FitsFeed(n, me, followed, liked)
  BY <1>7, <1>8, ScoresFacts
<1>10. /\ shown[i] \in DOMAIN index /\ shown[j] \in DOMAIN index
       /\ Scores(args, index[shown[j]]) => Scores(args, index[shown[i]])
  BY <1>4, <1>6, PageKeepsOrder
<1> QED  BY <1>9, <1>10

LEMMA FeedWhenHeld ==
    ASSUME Typed, FiniteDocs, SeekersHeld
    PROVE  FeedPrefersFitting
<1> DEFINE me(c) == Me(calls[c])
           followed(c) == {u \in DOMAIN users : me(c) \in users[u].followerIds}
           liked(c) == users[me(c)].bookmarks
                         \cup {history[i].nftId :
                                  i \in {i \in DOMAIN history : history[i].buyerId = me(c)}}
           sold(n) == {i \in DOMAIN history : history[i].nftId = n /\ history[i].kind = "Sold"}
           fits(c, n) ==
              \/ \E u \in followed(c) : n \in users[u].bookmarks
              \/ \E i \in sold(n) : /\ history[i].buyerId \in followed(c)
                                    /\ Cardinality({j \in sold(n) : j > i}) < BuyersKept
              \/ nfts[n].tagIds \cap users[me(c)].tagsId # {}
              \/ \E l \in liked(c) \cap DOMAIN nfts :
                    \/ nfts[l].tagIds \cap nfts[n].tagIds # {}
                    \/ nfts[l].creatorId = nfts[n].creatorId
                    \/ nfts[l].collectionId = nfts[n].collectionId
           shown(c) == calls[c].rows.nfts
<1>1. ASSUME NEW c \in Call, Asks(c, {"nftFeed"}), Field(calls[c]).titleOrDescription = None,
             me(c) \in DOMAIN calls[c].began, calls[c].began[me(c)] = users[me(c)].rev,
             followed(c) # {},
             NEW i \in DOMAIN shown(c), NEW j \in DOMAIN shown(c), i < j, fits(c, shown(c)[j])
      PROVE  fits(c, shown(c)[i])
  <2>1. PICK who, they : who = me(c) /\ they = Followed(who, users)
    OBVIOUS
  <2>2. PICK some, rows : some = Liked(who, users, nfts, history) /\ rows = shown(c)
    OBVIOUS
  <2>3. they = followed(c) /\ some = liked(c) \cap DOMAIN nfts
    BY <2>1, <2>2 DEF Followed, Liked
  <2>4. \A n : RecentlySold(n) = {k \in sold(n) : Cardinality({l \in sold(n) : l > k}) < BuyersKept}
    BY DEF RecentlySold
  <2>5. \A n : fits(c, n) <=> FitsFeed(n, who, they, some)
    BY <2>1, <2>3, <2>4 DEF FitsFeed
  <2>6. FitsFeed(rows[j], who, they, some)
    <3> HIDE DEF fits
    <3> QED  BY <1>1, <2>2, <2>5
  <2>8. who \in DOMAIN users
    BY <1>1, <2>1 DEF SeekersHeld, SeekHeld, BeganHeld
  <2>7. FitsFeed(rows[i], who, they, some)
    BY <1>1, <2>8, <2>1, <2>2, <2>3, <2>6, FeedOrder
  <2> HIDE DEF fits
  <2> QED  BY <2>2, <2>5, <2>7
<1>2. \A c \in Call :
         (/\ Asks(c, {"nftFeed"}) /\ Field(calls[c]).titleOrDescription = None
          /\ me(c) \in DOMAIN calls[c].began /\ calls[c].began[me(c)] = users[me(c)].rev
          /\ followed(c) # {}) =>
             \A i, j \in DOMAIN shown(c) : i < j /\ fits(c, shown(c)[j]) => fits(c, shown(c)[i])
  <2> HIDE DEF me, followed, fits, shown
  <2> QED  BY <1>1
<1> QED  BY <1>2, Zenon DEF FeedPrefersFitting

\* The feed of a user who follows somebody puts first what those bookmarked or
\* bought last and what resembles the user's own likes, through every interleaving
\* of its queries with what others write (newsfeed.service.ts:84-130).
THEOREM FeedsPreferFitting == Spec => []FeedPrefersFitting
BY SeekersAlways, FeedWhenHeld, PTL
=============================================================================
