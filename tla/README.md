# A formal model of the ArtTrade back end

ArtTrade's back end is one NestJS process (Node 16, TypeScript) that serves a
GraphQL API over MongoDB, with Elasticsearch for search, S3 for images, Solana
for NFT metadata, an SMTP provider for mails and Google for one way to sign in.
This directory holds TLA+ modules of its core, TLC configurations that check
them on small instances, and proofs of their main invariants that TLAPS checks
for every size.

All source paths below are relative to `src/src/`.

## 1. Inventory

### The process and what it relies on

One process runs everything. JavaScript is single-threaded: what runs between
two `await`s is atomic, and everything else interleaves, because Node serves
every request and every started async handler on one event loop. MongoDB
operations on one document are atomic; nothing uses a transaction. Node's
`EventEmitter2.emit` calls every subscribed `@OnEvent` method and awaits none
of them. There is no queue, no outbox and no retry: what the process holds in
memory is gone when it exits.

| Component | State it keeps | Operations | Talks to |
|---|---|---|---|
| NFT catalogue (`nft/`) | `nfts` collection | create (three kinds of sale), updateNftFixedPrice, updateThumbnail, increaseViewCount, queries | emits `FetchNftImage`, `NftCreated`, `NftPriceUpdated` |
| NFT history (`nfthistory/`) | history collection, append-only | handlers of created, price updated; queries by NFT | listens to the catalogue |
| Image fetch (`blockchain/`) | images in S3 | handlers that read metadata from Solana, download, resize, upload, then set a thumbnail | listens to catalogue and collections, calls both back |
| Analytics (`analytic/`) | analytics collection | pushEvent, getVisitorCount | calls increaseViewCount without awaiting it |
| Search index (`elasticsearch/`) | one Elasticsearch index derived from NFTs, history and users | price handler, deleteAndReindexAll, search | listens to the catalogue, pages through it |
| Authentication (`auth/`) | hash of one refresh token per account | signIn, refreshAuthToken, for users and admins | user and admin collections |
| Accounts (`user/`) | `users` and `admins` | sign-up, verification, reset, profile, follow, bookmark, wallets, Twitter, invitation | emailing, Google |
| Emailing and email verification | `emailverifications` | create, mail, look up and delete a code | SMTP provider |
| Google sign-in (`google/`) | none | find or create an account, sign in | Google, accounts, authentication |
| Request pipeline (`graphql/`, `auth/guards`, `auth/authz`) | per-request context, authorised documents, loaders | JWT resolution, guards, field rules | every resolver |
| Collections, tags, licences | one collection each | create with unique names and validated tags, updateThumbnail, queries | image fetch, users, tags |
| Newsfeed | none | a page of three queries; the feed of a user: preferences, then the search | catalogue, collections, accounts, history, search index |
| Helpers | per-request caches | pagination, data loaders, scalars, exception filter | everybody |
| Migrations | `changelog`, the documents they rewrite | `up` of what the changelog does not list, at each start | MongoDB |
| Storage, configuration | none after start-up | uploads; reading the environment | S3 |

### Behaviours that are hard to test, and what should hold

* **Events are lost or reordered.** Price handlers of one NFT finish in any
  order; a handler rejects with nobody to see it; the process exits between a
  commit and its event. The history must not lose a change silently, double it
  or invent one, and a misordered history must be due to changes that really
  overlapped.
* **A chain that stops half-way.** The image fetch uploads, then sets the
  thumbnail: a stored thumbnail must refer to an image that is there.
* **A derived store beside its source.** The search index is written by a
  handler and rebuilt by a paging job, with no order between them. It must not
  show a price an NFT never had; it must end at the current price unless one of
  a few named overlaps happened; a job that reports success must be complete.
* **Token rotation.** Two requests on one account sign and store in any order,
  and a reply may be lost after the store. A replaced token must open nothing; a
  client alone on its account must keep its session.
* **Check, then insert.** Sign-up checks email and nickname and inserts later;
  only the email has a unique index.
* **Codes by mail.** A code is created, mailed, used and deleted in separate
  steps; it must act on its own account and must not be spent in vain.
* **Updates nobody awaits.** The verdict of a Twitter verification and the date
  of the last activity are stored after the reply, or never. Who is shown as
  verified must have shown a wallet of theirs; a verdict must not vanish without
  a failure.
* **Sets of subdocuments.** Wallets and bookmarks carry dates, so MongoDB's
  `$addToSet` finds no equal one: a wallet must stay single, and removing a
  bookmark must remove all of its copies.
* **A migration cut short.** It runs user by user before the server listens and
  is listed as done only at its end.
* **Per-request state.** A request's token is resolved before any guard and must
  open neither too much nor too little in any of its fields; its loaders cache;
  the documents it may read are noted while it runs.
* **Boundaries and orders.** Pages, filters in two query languages that must
  mean the same as the documents they filter, and a feed merged of several
  sources while others write.

`PROJECT.json` lists each hazard at the line where it bites, with the properties
that would catch it going wrong, or the reason why none does yet.

## 2. Modules

| Module | Models | Extends |
|---|---|---|
| `Catalogue` | catalogue, history, image fetch, view counter | |
| `SearchIndex` | price handler and reindexing job, composed with the catalogue | `Catalogue` |
| `Sessions` | sign-in and refresh of users and admins | |
| `Accounts` | sign-up, Google sign-in, codes, reset, profile update | |
| `Community` | abstract specification: what the social operations promise | |
| `Social` | follow, bookmarks, wallets, invitations, Twitter, and the migration; implements `Community` | instance of `Community` |
| `Queries` | filters, pages, search documents and query, preferences: operators, no state | |
| `Requests` | GraphQL requests: token, guards, resolvers, loaders, field rules; collections, tags, licences, listings, newsfeed, search | `Queries` |
| `MC…` | the same on small instances, with symmetry where sound | each |
| `CatalogueProofs`, `SearchProofs`, `SessionsProofs`, `AccountsProofs`, `SocialProofs`, `RequestsProofs` | theorems | each |
| `PagesProofs` | theorems on following pages of listings and of the newsfeed | `RequestsProofs` |
| `SeekProofs` | theorems on searches of the index and on the feed of a user | `PagesProofs` |

`SearchIndex` composes the index with the catalogue whose events feed it.
`Requests` composes the pipeline with every resolver that lists or makes
documents; what Accounts, Sessions, Catalogue and Social model in detail (codes,
refresh tokens, prices, bonds) is absent from it, and their fields it does read
(followers, bookmarks, prices, records) are given by its initial states.

### Conventions

* **A step is the code between two awaits**: one database operation and the
  synchronous code that follows. A handler with several awaits is several
  actions in its source order, with a stage (`calls[c].stage`, `reindex[x].pc`,
  the sets `creating` and `answering`, the element of `jobs`) that says where it
  stands.
* **A job** is a started async handler. `Emit` adds the jobs of all
  subscribers; each finishes, rejects (`RejectJob`), or dies with the process
  (`Exit`).
* **A rejection with nobody to catch it.** `event-emitter` does not catch what
  an async listener rejects, and no `unhandledRejection` listener is
  installed, so Node 16 normally ends the process. The model lets `RejectJob`
  and `RefuseRecord` be followed by `Exit` or not, which includes both.
* **Operations have one outcome.** A timeout of an operation that nevertheless
  was applied is not modelled.
* **Ghost variables**, marked as such, record what happened (`emitted`,
  `dropped`, `superseded`, `issued`, …). No guard of a code action reads one to decide what
  the program does; each only serves to state a property.
* **Mutants** in the modules (`\* Mutant: …`) are plausible bugs, not used by
  the specification: with one of them in place of the definition that follows
  it, the property it belongs to fails.

### Catalogue

`nfts` holds documents reduced to what properties tell apart: kind of sale,
price, whether the thumbnail is the original link or the stored image, and the
view count. `createdAt` and `updatedAt` are their dates
(`helpers/default-schema-option.tools.ts:14-17`). Mongoose stamps a write in the process,
before it sends it, and most writes are awaited by nobody; so a write lands with any
date since its NFT's creation (`DateUpdate`, `DateInsert`), whatever landed before it:
two may land in the reverse of their dates or share one, and `updatedAt` may go back.

`CreateNft`/`AnnounceNft` are the two halves of `NftService.create`;
`UpdateNftFixedPrice`/`AnnouncePrice` those of `updateNftFixedPrice`;
`PushEvent`/`StoreAnalytic` those of the analytics service, whose counter runs
as a job because it is not awaited. `RecordHistory` and `RefuseRecord` are the
history's handlers: `RequiredFields` comes from the record schemas and
`SuppliedFields` from the handlers. `FetchImage` and `UpdateThumbnail` are the
image fetch up to its upload and after it.

`Subscribers` follows the identity of event symbols, not their names. Two files
define a class `NftCreatedEvent`, each with a `Symbol()` of its own
(`nfthistory/nft-history.event.ts:6`, `nft/events/nft-created.event.ts:4`).
`NftService` emits the first; the search index subscribes to the second.

### SearchIndex

Extends the catalogue with the index and the calls of `deleteAndReindexAll`
(`DeleteIndex`, `CreateIndex`, `ReadPage`, `BulkIndex`, `Refresh`, and
`AbortReindex` for any await that rejects). `ReadPage` reads documents at one
moment: any page that an order by `updatedAt` allows (`Pages`, `Sorted`, `Limited`),
where two NFTs of one date come in either order, and in another one in the next query.
`BulkIndex` writes what was read, later. A subset of the items of a
bulk request may fail; errors are collected and thrown at the end. The handler
is `ApplyPrice`, or `RefusePrice` where the document is missing (Elasticsearch
then creates a missing index all the same).

`stale` names the NFTs for which an overlap may have left the index behind: two
price changes in flight at once, a change while a page that holds the NFT is
being indexed, or a dropped handler. A lone change or an undisturbed page takes
the NFT out again. `past` is what the pages of a call have shown. `disturbed` names
calls whose index another call deleted, or whose pages shifted (`Shifted`): a write
dated anew an NFT they had shown, or put another among or before those, as one that
lands late does; or a page ended between two NFTs of one date (`EndsInTie`).

### Sessions

`SignIn` begins a request after credentials were found; `Refresh` after the JWT
was verified; `Lookup` is the query by id and hash (`Found`: users are filtered
by id and hash, admins by id); `Sign` signs both tokens; `Save` stores the
hash; `Reply` answers. A token is its account and the second it was signed in,
because that determines a JWT with the same payload: two sign-ins in one
second make equal tokens. `Tick` advances the clock, so tokens expire.

### Accounts

Five ways for a request to arrive, and one action per awaited operation after
that; `calls[c]` carries what the request's local variables hold. `Fail` makes
any await reject; `Exit` loses every running request. The unique index on
email is `EmailFree`; there is none on nickname. `findOne({email})` returns any
one of the matching verification documents (`FindCode`). Initial states contain
accounts from earlier sign-ups whose code is unused or used. A reset link
carries the same kind of code as a verification link, and either may be followed with
either operation, as in the code.

Left out: avatars and covers (uploads whose result is only stored), the
`lastActivity` date, texts of mails. An un-awaited `updateLastestActivity` in
`updateUser` has no effect on anything modelled.

### Community and Social

`Community` says what members may rely on. Bonds (follows, saves, links) are
one set. A request that asks to make or break a bond does that to this one bond
in one step, and is then kept; or it is abandoned, and changes nothing. Nothing
else changes bonds, but that a torn migration may forget what members saved.

`Social` is `UserService`'s social operations: one action per awaited operation,
`writes` for updates that are issued and not awaited (`Issue`, `Land`,
`RejectWrite`), `Fail` and `Exit` as in Accounts. An unknown user id updates
nothing and is no error (`Edit`). `Start`, `MigrateUser` and `FinishMigration`
are migrate-mongo's `up`: it runs at each start as long as the changelog does
not list it, one user per step, before the server accepts requests. Initial
states are of both kinds, migrated or not. `dropped` and `torn` are ghosts: which
un-awaited updates were lost, and whether an exit left a migration half done.

The refinement mapping reads bonds off the documents (`Bonds`): a repeated
bookmark is two subdocuments and one bond, a bookmark is one before and after its
migration. A follow is one list, in the document of who is followed, so making
it is one update.

### Queries and Requests

`Queries` translates how services read. An optional argument is `None` where it
is absent, a filter is a predicate on documents, a page is a skip, a limit and a
sort field (`Limit`, `Skip`, `Find`), where an absent or zero limit is the default;
sorting leaves ties open, as MongoDB does.
`DocumentMapping` is an entry of the search index, `Filtered` and `Score` its
query, `Preferences` what a user's feed passes to it. Texts are sets of n-grams.
Following and bookmarking are actions of `Social`, and the upkeep of the index is that
of `SearchIndex`: in `Requests` nobody follows or bookmarks meanwhile, and the index
is as it was built before the requests came. What a feed does read while it changes
is the user's own profile: `UpdateMe` validates the ids of tags and stores them (the
rest of an update only counts up the profile's version).

In `Requests` a request has a header, a development token and root fields; the
fields of a mutation run one after the other. `Context` resolves the token
before anything else and keeps an error for later; `Guard` decides for each
field; the resolver reads or writes in one action per awaited operation; then
loaders fetch what the answer refers to (`LoadRefs`, `LoadUsers`), with one
cache per request, and `Finish` applies field rules. `Touch` is the un-awaited
update of `lastActivity`; `FetchImage`, `UpdateThumbnail` and `FailFetch` the
handler that fetches a new collection's image. A document is dated before it is
sent (`stamp`), so documents may be stored in another order than that of
`createdAt`.

Two behaviours of libraries are left open: whether rules declared on the abstract
class `BaseUser` reach `User` (`ruled`), and what a disjunction of rules answers when
its first throws. The properties say what holds in each case:
`PublicFieldsAnswered` names the refusals that rules in force may make,
`ForeignDocsWithheld` claims something only where they are.

Runs and proofs start from a `Case`: what is stored, and which requests may
come. `Consistent` says which cases there can be: documents have the fields that
the Mongoose schemas require and dates of the past, the ids of tags are those of
tags that are stored, mint addresses are unique, no image has been fetched yet
(`UserDoc`, `NftDoc`, `CollectionDoc`); and a request is one that the GraphQL schema
lets in, with a token that the server signed, if with any (`ValidRequest`,
`ValidField`). TLC evaluates it on every case of the runs. The page of `nftFeed` is a
`Float` in the schema; it is an integer here, and what a fraction does is left out.

## 3. Runs

| Run | Question | Instance |
|---|---|---|
| `catalogue` | Does the price history lose, double or invent changes, and do changes reach it? Do thumbnails refer to images, and do images get there? Is a view counted once? | 1 NFT, 2 prices, 2 price changes, 1 view, 1 failure, 1 exit |
| `search_paging` | Do pages keep their limit, is a rebuilt index complete while writes land in any order of their dates, and does the job end? | 2 NFTs, pages of 1, 3 dates, 1 view |
| `search_races` | Where may the index lag behind, does it show only what was so, and is a rebuild that another one meets honest? | 1 NFT, 2 price changes, 2 rebuilds, 1 fault, 1 exit |
| `sessions` | Do replaced tokens stay dead, and lone clients signed in? | 1 user, 1 admin, 3 requests, 3 instants, 1 exit |
| `accounts` | Are emails distinct, and do codes do their work on the right account? | 3 requests, 1 older account, 2 emails, 1 fault or exit |
| `social` | Do the social operations keep their promise (`Community`)? Are wallets single, invitations mailed, verdicts backed and stored? | 2 users, one of whom sends 2 requests, 1 NFT, 2 wallets, 2 dates, 1 fault, 1 exit, with and without migration |
| `requests` | Do guards, rules, loaders, pages, filters and feeds do what they are for, while requests interleave? | 9 databases of up to 3 users, 4 NFTs, 3 collections; 1 to 3 requests of those listed for each; 1 fault |
| `creation_record` | *violated*: every announced creation is recorded | 1 NFT |
| `reindex_all` | *violated*: a lone rebuild indexes every NFT | 2 NFTs, pages of 1, 3 dates that differ |
| `created_indexed` | *violated*: a created NFT is indexed | 1 NFT |
| `nicknames` | *violated*: nicknames are distinct | 2 sign-ups |
| `migration` | *violated*: the migration takes no bookmark away | 2 users, 1 exit |

### Why these bounds

* Two price changes are enough for a misordered history and for a record that
  is dropped beside one that is kept. Two prices suffice, since only equality is
  compared. One NFT suffices, because actions on different NFTs share only the
  bounds and the order of `updatedAt`, which `search_paging` exercises
  with two. With one NFT no two dates are compared, so one date suffices (`MaxDate` 0).
* Paging needs a page that is not the last, and an NFT that moves across a page
  boundary: two NFTs and pages of one. A view count or a thumbnail dates an NFT
  anew as a price change does; `search_paging` has those and no prices, since only the
  dates matter to what is paged past. Three dates (`MaxDate` 2) let a write land
  before, between and after two others or beside one of them. A fault of an item or an
  await is in `search_races`, whose pages have one item; that a middle page's errors
  count as the last one's do is proved (`RebuildIndexesAll`). `reindex_all`
  looks only at states where no two NFTs have one date (`CONSTRAINT DatesDiffer`), so that what it finds is
  not the fault of a tie.
* A race of rebuilds needs two of them and one NFT; a change before, during and
  after a held page needs two changes.
* A chain of replaced tokens needs three requests (sign in, refresh, refresh of
  the old token); seconds 0 to 2 with a life of two seconds contain equal
  seconds, different ones, and an expiry.
* Three requests contain two that race and one that uses the outcome (two
  sign-ups and a verification; resend, update of the email and verification).
  `updateMe` changes one field at a time there (`MaxFields`); the others are
  left as they are, so several fields are several such changes.
* Of the two accounts of `social` one sends requests and the other is followed,
  is migrated and exists beside it; operations of two users meet in one document
  only where one follows the other. Two requests are what races; two dates make
  two copies of a bookmark, or an update that lands after a later one; two wallets
  are one that is shown and one that is not. An exit in the middle of a migration
  needs two users. The ids of `follow` may be unknown (`Nobody`).
* `requests` starts from small databases (`MCRequests!Cases`), each with the
  requests that meet there, as the product of all endpoints, arguments and
  documents is out of reach. *Documents*: tokens of every kind, guards, unique
  names, validation, two requests. *Reloading*: a request that loads, writes and
  loads again, beside another writer. *Shelves*: following pages of a listing while NFTs
  are made, with three requests, in both orders and with a limit that is absent, zero or
  given; and single requests for
  each filter, limits from negative to above the maximum (`DefaultLimit` 2,
  `MaxLimit` 3), and each other listing. *Market*: four NFTs of three kinds, at
  prices on both sides of each bound and equal to it, for the search and the
  feed. *Tastes*: the feed of a user whose tags change meanwhile. *News*: following
  pages of the newsfeed (parts of one) while NFTs are made and activity is updated, three requests. Requests are symmetric.
* Failures and exits are bounded by one or two: a property about a failure
  needs one, and one more lets a repair fail as well.

Deadlock is not checked: a finite set of requests is exhausted, and the program
is then idle, as it may be.

### Fairness

* `Catalogue!Fairness`: weak fairness of each started job and of each half-done
  request. The event loop resumes every continuation, and every driver answers
  or times out; a rejection counts as an answer. No fairness of clients, of
  failures in particular, or of `Exit`.
* `FairSearchSpec`: the same for the steps of a rebuild.
* `Social!Fairness`: the same for start-up, the steps of a request, and for each
  un-awaited update, which the driver sends without anybody waiting.

Nothing is assumed to be retried, because nothing is.

## 4. What the runs show

They pass, so on these instances:

* **History.** Each emitted price change is running, recorded, or known to be
  dropped, in exactly one of the three (`PriceHistoryAccounting`). If the last
  change of an NFT did not overtake another, and was recorded, it is the last
  record and the NFT has its price (`HistoryEndsAtPrice`). A committed change
  reaches the history unless a failure or an exit took it
  (`PriceReachesHistory`).
* **Images.** `ThumbnailInBucket` and, under fairness, `ImageReachesThumbnail`.
* **Views.** Each counts at most once, and not while outstanding
  (`ViewsCountedOnce`). It may be counted although its analytic document was
  refused.
* **Social.** `CommunityPromise`: every interleaving, failure and exit leaves
  each request done once or not at all; a repeated bookmark is removed with all
  its copies. `WalletOnce`. `VerifiedByTweet`: wallets are read before the tweet
  and the verdict lands after the answer, yet what backs it stays true, because no
  operation unlinks a wallet. `InviteesWereMailed`: mails may be sent and not
  recorded, and not the other way. `VerdictReachesUser`: a positive verdict is
  stored at some time or known to be lost; a later one may then replace it.
* **Requests.** `GuardedRunsAuthenticated` and `PublicFieldsAnswered`: what a
  token opens and what it does not close, for every field of a mutation. No guard
  refuses a public field, whatever the token. Where the rules of `BaseUser` are in force
  they may: a field whose answer shows users, as unauthorized if the token cannot be
  used, and as forbidden if one of those users is neither the requester nor made by this
  request.
  `ForeignDocsWithheld`: where the rules are in force, an answer shows the
  requester and users that this request made. `LoaderShowsOneVersion`: within
  a request the loader answers the same for the same user, from a time after its
  arrival.
* **Collections.** `CollectionsSound`: mint addresses are distinct though two
  requests race, tags exist, and thumbnails refer to images.
* **Pages.** `PagesAreSlices` and `FeedSkipsNothing`: following pages leave out
  nothing that was there. What is made in between may push a document onto a second
  page, never hide one; and two documents of one date may change places between
  the queries, so repeats are excluded only where dates differ and nothing is made.
  Where the activity of a profile was set back, by updates that land in reverse, the
  profile may be missed.
* **Search and feed.** `SearchAnswersExactly` compares the query on the mapped
  documents with the NFTs themselves; `FeedPrefersFitting` the order of the feed
  with what followed users bookmarked or bought and what resembles the user's own,
  unless the user updated the profile since asking: the preferences are read before
  the query, and a change of tags in between is seen by the next feed only. Both are
  about one request's translation of filters and weights: in `Requests` the index always
  matches the documents, and prices, bookmarks and follows stay. Where the index may lag
  is the business of `SearchIndex`.
* **Index.** Only prices an NFT had, though several calls hold pages and handlers are late
  (`IndexShowsCommittedPrices`); a successful rebuild is complete unless its pages
  shifted or its index was deleted (`ReindexComplete`). Writes of what was read, writes
  that land late among it and ties do happen in this code, and then an NFT may be
  missing without an error; outside `stale` the index
  agrees with the catalogue once handlers are done (`IndexAgreesWhenQuiet`);
  every rebuild ends (`ReindexEnds`), since only finitely many NFTs are created
  and a page boundary moves past all of them whatever is written.
* **Sessions.** `SupersededStaysDead`, `ReplacedTokenRefused`,
  `LoneClientKeepsSession`, `NoOrphanSession`. The exception in
  the first two, tokens signed twice in one second, is real: such a token
  replaces its equal. `ReplacedTokenRefused` is about users: admins are found by
  id alone.
* **Accounts.** `EmailsDistinct`; `SpentCodeTookEffect` (a code that is gone has
  acted); `VerifiedByOwnCode` (a code acts on the account it was made for, even
  when the email has passed to another); `DoneMeansMailed`; `GoogleReturns` (an
  account made through Google lets its owner in again unless email or password
  were replaced).

### Disagreements between the code and its texts

1. **`creation_record`.** `handleNftCreatedEvent` supplies `{nftId, kind}` and
   the schema of the Created record requires `ownerId`: the record is refused,
   so no creation is recorded.
2. **`reindex_all`.** "For now we just iterate over all NFTs": paging with
   `skip` over an order by `updatedAt` skips an NFT when one already read is
   written during the job. The job then reports success. (A write that lands late, or
   two NFTs of one date, can have the same effect; the run shows that it takes neither.)
3. **`created_indexed`.** The search index's handler of NFT creation subscribes
   to a symbol that nobody emits, so new NFTs enter the index only with the next
   rebuild.
4. **`nicknames`.** Two sign-ups with one nickname that overlap both succeed,
   against the check that throws "Already used".

5. **`migration`.** An exit after some users were migrated, and before the
   changelog lists the migration, makes the next start run it again over them:
   `(user.bookmarkIds || [])` is then `[]`, which replaces the bookmarks it had
   made. The comment of the migration promises one for each id.

Behaviour met while modelling that contradicts no text, and has no run:

* A price bound in the filter of `nfts` is put into `$last`, which is no query
  operator: MongoDB rejects the query (`NftFilterRefused`).
* `mintAddress` of an NFT says `dunique: true`, so it is not unique; that of a
  collection is.
* `createNft` does not check that its collection exists; the loader of a missing
  one then fails each listing that shows the NFT's collection. An NFT without an
  owner fails where its owner is asked for.
* An empty list of followed users, or none of the preferences, leaves the search of
  the feed without a clause, and its order is open.
* `nftFeed` with an admin's token fails: the id is looked up among users.
* `bookmarks` ignores its descending order, `listUsers` its name.
* `tagIds` may be absent in the schema and is refused by the validation of
  inputs.

## 5. What is proved

TLAPS proves these for all values of the constants that satisfy the named
assumptions `CatalogueConstants`, `SearchIndexConstants`, `SessionConstants`,
`NoTokenIsNone`, `AccountConstants`, `AbsentIsNone`, `SocialConstants`,
`NoDeedIsNone`, `QueryConstants`, `RequestConstants` and `RequestCases`. They
say that ids and placeholders are distinct, that ids of users, NFTs and collections
differ (MongoDB makes them), that bounds are natural numbers, page sizes and token
life positive, that a placeholder is no id and no set of ids, and, the last, that a run
of `Requests` starts from a `Consistent` case: its documents have the types of their
schemas, mint addresses differ, tags exist, and bookmarks and history name no NFT
that is still to be made. The code does not check the last of bookmarks; MongoDB
makes the ids of NFTs, so nobody can know one before.

| Theorem | Statement |
|---|---|
| `CatalogueProofs!TypeCorrect` | `Spec => []TypeOK` |
| `CatalogueProofs!ThumbnailAlwaysInBucket` | `Spec => []ThumbnailInBucket` |
| `CatalogueProofs!PriceHistoryBalanced` | `Spec => []PriceHistoryAccounting` |
| `SearchProofs!SearchImplementsCatalogue` | `SearchSpec => Spec` |
| `SearchProofs!IndexShowsOnlyCommittedPrices` | `SearchSpec => []IndexShowsCommittedPrices` |
| `SessionsProofs!SessionsTyped` | `Spec => []TypeOK` |
| `SessionsProofs!SupersededTokensStayDead` | `Spec => []SupersededStaysDead` |
| `SessionsProofs!ReplacedTokensRefused` | `Spec => ReplacedTokenRefused` |
| `SessionsProofs!LoneClientsKeepSessions` | `Spec => []LoneClientKeepsSession` |
| `SessionsProofs!NoSessionIsOrphaned` | `Spec => []NoOrphanSession` |
| `AccountsProofs!AccountsTyped` | `Spec => []TypeOK` |
| `AccountsProofs!EmailsAreDistinct` | `Spec => []EmailsDistinct` |
| `AccountsProofs!AccountsVerifiedByOwnCode` | `Spec => []VerifiedByOwnCode` |
| `AccountsProofs!SpentCodesTookEffect` | `Spec => []SpentCodeTookEffect` |
| `AccountsProofs!GoogleComesBack` | `Spec => []GoogleReturns` |
| `AccountsProofs!WhatIsDoneIsMailed` | `Spec => []DoneMeansMailed` |
| `SocialProofs!SocialTyped` | `Spec => []TypeOK` |
| `SocialProofs!WalletsOnce` | `Spec => []WalletOnce` |
| `SocialProofs!InviteesMailed` | `Spec => []InviteesWereMailed` |
| `SocialProofs!VerifiedByTweets` | `Spec => []VerifiedByTweet` |
| `SocialProofs!SocialKeepsPromise` | `Spec => CommunityPromise` |
| `CatalogueProofs!HistoryEndsAtThePrice` | `Spec => []HistoryEndsAtPrice` |
| `CatalogueProofs!ViewsAreCountedOnce` | `Spec => []ViewsCountedOnce` |
| `SearchProofs!RebuildIndexesAll` | `SearchSpec => []ReindexComplete` |
| `SearchProofs!SearchTypeCorrect` | `SearchSpec => []SearchTypeOK` |
| `SearchProofs!QuietIndexAgrees` | `SearchSpec => []IndexAgreesWhenQuiet` |
| `RequestsProofs!RequestsTyped` | `Spec => []TypeOK` |
| `RequestsProofs!GuardsHold` | `Spec => []GuardedRunsAuthenticated` |
| `RequestsProofs!PublicIsPublic` | `Spec => []PublicFieldsAnswered` |
| `RequestsProofs!OthersAreWithheld` | `Spec => []ForeignDocsWithheld` |
| `RequestsProofs!AnswersShowOneVersion` | `Spec => []LoaderShowsOneVersion` |
| `RequestsProofs!CollectionsAreSound` | `Spec => []CollectionsSound` |
| `PagesProofs!ListingsAreSlices` | `Spec => []PagesAreSlices` |
| `PagesProofs!FeedsSkipNothing` | `Spec => []FeedSkipsNothing` |
| `SeekProofs!SearchesAnswerExactly` | `Spec => []SearchAnswersExactly` |
| `SeekProofs!FeedsPreferFitting` | `Spec => []FeedPrefersFitting` |

### The inductive invariants

* **`Typed` (Catalogue)** adds to `TypeOK` that a job is about a stored NFT or a
  committed write: `UpdateThumbnail` assigns a field of a document that must be
  there.
* **`ImageInv`** adds `UploadedFirst`: a job `UpdateThumbnail` exists only for
  an NFT whose image is in the bucket. Without it, nothing connects the job to the
  upload before it.
* **`AccountInv`** adds that a write awaiting its event is not yet emitted
  (`NotYetEmitted`), that price jobs and price records are about emitted writes
  (`PriceJobsEmitted`, `HistoryIsEmitted`). Emission then adds a job that is
  neither recorded nor dropped, which is what "exactly one place" needs.
* **`IndexInv`** adds that `asked` contains each stored NFT's present price
  (`AskedIsAll`), that index jobs are about committed writes
  (`IndexJobsWritten`), and that each held page shows prices its NFTs have had:
  what will be written later must already be correct when read.
* **`TokenInv`** says who can share a token: two calls with the same token, a call
  that is about to store a token that is already expected, or one already
  replaced, imply that it was signed twice
  (`SharedSignedTwice`, `ResavedSignedTwice`, `ReplacedSignedTwice`), and
  whatever is stored or presented was signed (`OnlySigned`). "Replaced stays dead" is not inductive
  alone: an unsaved token in some call's hands may revive it.
* **`LoneInv`** says that when a call is uncontended, the other calls on its account have
  ended, and that after its store the account expects its token.

* **`Typed` (Accounts)** adds to `TypeOK` what a request holds at each stage
  (`Shape`: which operations pass there, which fields are filled) and that
  whatever a request acts on, or a code was made for, is stored (`TargetsExist`):
  an update assigns fields of a document that must be there.
* **`EmailKey`** says of pairs of accounts what `EmailsDistinct` says of
  cardinalities; every write keeps an account's email or gives it a free one.
* **`CodeInv`** adds what is in a request's hands: a code being applied was made
  for the request's target, and one about to be deleted has acted
  (`CodesInHand`). Only then is a deletion known to be harmless.
* **`OriginInv`** adds that an account made by a request is that request's target,
  and there only from its insertion on (`MadeByItsCall`); that a request past its
  mail sent it (`PastMail`); and that an unedited Google account has the
  password derived from its id and the email it was found by (`GoogleKept`),
  which are the two keys sign-in looks it up by.

* **`Typed` (Social)** adds to `TypeOK` what a request is at each stage (`Shape`:
  only invitations and verifications read and ask, an answer ends a request).
* **`MailedFirst`** adds to `InviteesWereMailed` that a request about to store its
  list has mailed it; **`Pending` and `Shown`** add to `VerifiedByTweet` that an
  update that would verify a user is backed by an answered request, and that the
  wallets a request has read are still the user's. Both say
  of what is in flight what the property says of what is stored. Two lemmas serve
  them all: `FrameStep` says which action writes which field, `LinkedGrows` that no
  action unlinks a wallet.
* **`Settled`** is what the refinement needs: requests are answered by a server that
  listens, a torn migration has begun and is not listed, and an account that
  an untorn migration has yet to reach has no bookmarks. Migrating it then
  changes no bond, and a migration that does is one that `Forget` allows.

* **`EndInv`** replaces the `CHOOSE` of `HistoryEndsAtPrice` by positions: an NFT
  with a write has a last one (`HasLastWrite`), that write has the NFT's price
  (`LastWriteHolds`), outside `racing` it is the only one that may still be recorded
  (`OnlyLastOutstanding`), and once it is, its record is the last (`RecordedLast`).
  The third is what makes it inductive: a late handler of an earlier change would
  append after the last.
* **`ViewInv`**: a view counter is started for a pushed event (`ViewJobsPushed`), and is
  not both running and dropped (`ViewJobsOnce`), so each step that counts takes one
  event from `Uncounted`. The arithmetic is that of cardinalities of finite sets.
* **`PagingInv`**: an undisturbed call of `deleteAndReindexAll` that is still paging has
  shown the whole goal, or as many NFTs as its pages had room for, each of them
  dated before every other stored NFT (`ShownFirst`, `Foremost`); all of it is indexed or in its page (`ShownIndexed`); and a call past
  its last page has shown every goal (`GoalIndexed`). The strict order is what makes the
  next page begin where the last ended, in whichever order the query puts NFTs of one
  date (`SameSkipped`, `NextPage`); a write that leaves the call undisturbed keeps
  it, however late it lands. That finitely many NFTs are stored (`StoredFinite`) lets
  pages be counted.
* **`PagesHeld` and `BookTyped`** bound a page by a query's limit (`PageFits`) and give the
  rest of the index's variables their types.
* **`QuietInv`** says of everything that may still reach the index of an NFT that is
  not `stale`, jobs, answers not yet emitted and held pages, that it shows the NFT's price
  (`ComingShows`, `HeldShows`); that with nothing coming the index shows it
  (`IndexShows`); and that jobs are started once for emitted writes.
* **`Typed` (Requests)** adds to `TypeOK` what a request is at each stage
  (`RequestHeld`: its context is its header's, the resolvers it started passed their
  guards, it may read what it made, its code is one its rules allow), and that what is
  about to be inserted is dated and its tags exist (`InsertsReady`: tags are
  checked one await before, and tags are never deleted). `Moves` names the four ways
  a step changes a request, and one lemma per resolver shows which it is; each later
  invariant is then proved once per way instead of once per resolver.
* **`OwnWorks`**: what a request made names its requester as creator or is its
  requester. **`LoadsHeld`**: what a request's loader has of a user is what the request
  showed, no older than at its arrival and no newer than now.
  **`FetchedIsStored`**: a thumbnail is updated only after its image is in the bucket.
* **`PagesHeld` (Requests)** says what whoever has read a page knows (`Held`): it is the
  cut of some order by date of a set that had everything but what was made meanwhile,
  and who was answered before saw no other set than a part of it (`AfterHeld`; "answered
  before" is transitive). It does not mention the two pages of the property, which need
  not be each other's neighbours in time. Two such cuts meet in the lemma `NextPage`: a
  document on neither page stands, in both orders, behind the first page and
  before the second, and counting what stands before it (`BehindThePage`) gives more
  documents than were made. The feed is three such listings, each read at its own time.
* **`SeekersHeld`** says of the index that each of its documents is what
  `DocumentMapping` makes of the NFT, the history and the bookmarks as they are now
  (`IndexHeld`), and of a request that searches, that the preferences it computed one
  await before the query are those its user has now (`PreferredBy`) and that what it found
  is a page of an order the query allows now (`FoundBy`), the former for a user who has
  not updated the profile since asking (`NotUpdated`; versions only grow, `BeganHeld`,
  so who has updated it stays so). Both are inductive because what else
  is written between, new NFTs, users and updates of other users, changes neither
  (`Grew`, `PreferencesStay`, `DocumentsStay`): nobody likes or bought an NFT that is
  still to be made, which is why `IndexHeld` says so too. The properties then follow
  from what the query means on such documents: `FilterFacts` that the filter
  clauses say of a document what `SearchAnswersExactly` says of the NFT,
  `ScoresFacts` that a document scores above nothing just when the NFT fits the
  user, and `CutWhole` and `PageKeepsOrder` that a page keeps what it is cut from.
  Buyers of a document (`RecentBuyers`) and the NFTs still there (`Present`) are
  defined by counting positions, not with `SelectSeq`, which is recursive and which
  the prover cannot expand.

Each proof has the same shape: the invariant holds initially, one lemma or step
per action preserves it, and a last step combines them with temporal logic.
`SearchImplementsCatalogue` maps each step of `SearchIndex` to a step of the
catalogue or a stutter; theorems of the catalogue then hold of the composition too.
`SocialKeepsPromise` maps the initial states of `Social` to those of `Community`
(`PromiseInit`), and each action to `Ask`, `Fulfil`, `Abandon`, `Forget` or a stutter,
with one lemma for each kind of bond (`FollowStep`, `BookmarkStep`, `LinkStep`) and
one for the steps that leave bonds alone (`QuietStep`).

### What is only model-checked

* Liveness (`PriceReachesHistory`, `ImageReachesThumbnail`, `ReindexEnds`,
  `VerdictReachesUser`): fairness and `ENABLED` are outside the prover's reach.

Every safety property of the passing runs, invariants and action properties, is stated by a
theorem of the table.

## 6. What is not modelled

* Handlers of events that nothing emits: price of a sale changed, sold,
  bookmarked, unbookmarked (marked `TODO Emit` in the source), and the search
  index's creation handler. Nothing in this code makes Sold records, bids, or
  sets the owner of an NFT; queries that read them start from documents that have
  them.
* `getVisitorCount`, `validateIdsExist` and `exists` of collections, licences and
  NFTs, the migration's `down`, and `protect-doc-fields-with-post-exec-authz.ts`:
  nothing calls them.
* The tester of the search (`nft-elasticsearch.tester.ts`): a script of fixed examples
  that writes to an index of its own.
* File storage, image resizing, the userinfo request to Google, Solana, SMTP and
  Twitter: each is one awaited call that succeeds or fails.
* Auth tokens: they carry their own proof and nothing is stored about them.
* Ties of dates, beyond that their order is open: pages claim nothing of
  documents with one date, and `ReindexComplete` nothing of a rebuild whose page ends
  between two. How late a write may land is not bounded by anything in the code, and
  so not here. The shuffle of the newsfeed.
* Texts, images, logging, configuration, module wiring, schema classes without
  behaviour.

## 7. Plan

1. **Done**: all modules of section 2, and the theorems of section 5.
2. **Further theorems**: an abstract specification of what a request may answer, with
   `Requests` shown to implement it as `Social` does `Community`; that codes and sessions
   implement one-time tokens.

## 8. Running it

```
tlc -workers 2 -config Catalogue.cfg MCCatalogue.tla
tlapm CatalogueProofs.tla
```

`PROJECT.json` lists the runs with their modules, the mutants, the source lines
of every definition, the findings, the hazards and the theorems.
