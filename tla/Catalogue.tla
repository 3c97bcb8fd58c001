------------------------------ MODULE Catalogue ------------------------------
(***************************************************************************)
(* The NFT catalogue: NftService, the history it leaves through            *)
(* NftHistoryService, the image fetch of BlockchainService and the view    *)
(* counter fed by AnalyticService.                                         *)
(*                                                                         *)
(* One process serves every request.  A step is what runs between two      *)
(* awaits: one atomic MongoDB operation and the synchronous code after it. *)
(* EventEmitter2.emit starts every subscribed async handler and awaits     *)
(* none of them, so an emitted event is a set of jobs that finish in any   *)
(* order, or reject with nobody to catch the rejection, or vanish with the *)
(* process.  The jobs of the search index are finished by an abstract      *)
(* action here; SearchIndex refines it.                                    *)
(***************************************************************************)
EXTENDS Naturals, Sequences, FiniteSets

CONSTANTS
    Nft,          \* ids that model.create may give to an NFT
    Price,        \* amounts an owner may ask for
    NoPrice,      \* what an OpenToOffer sale has instead of a price
    Request,      \* one id per call of updateNftFixedPrice
    View,         \* one id per call of pushEvent(NftScreenShown)
    MaxFailures,  \* bound: failures injected into handlers
    MaxRestarts,  \* bound: how often the process exits
    MaxDate       \* bound: the last date of a write

ASSUME CatalogueConstants ==
    /\ NoPrice \notin Price
    /\ MaxFailures \in Nat
    /\ MaxRestarts \in Nat
    /\ MaxDate \in Nat

VARIABLES
    nfts,         \* the nfts collection: Nft -> document, or Absent
    createdAt,    \* the dates of the documents of nfts (0 while Absent)
    updatedAt,    \* and of their last writes, as those writes were dated
    creating,     \* NFTs stored by create() whose events are not yet emitted
    answering,    \* price writes stored whose event is not yet emitted
    history,      \* the nft history collection, in insertion order
    bucket,       \* NFTs whose resized image is in the S3 bucket
    pushing,      \* screen events whose analytic document is being created
    analytics,    \* the analytics collection
    jobs,         \* async handler calls started and not finished
    restarts,     \* how often the process has exited
    failures,     \* how many handlers have failed
    writes,       \* ghost: every committed price write, in commit order
    pushed,       \* ghost: every screen event ever received
    announced,    \* ghost: the NFTs whose creation events were emitted
    emitted,      \* ghost: the price writes whose event was emitted
    dropped,      \* ghost: jobs that rejected or died with the process
    racing        \* ghost: NFTs whose last price write overtook another one

dates == <<createdAt, updatedAt>>
catalogueVars == <<nfts, dates, creating, answering, history, bucket, pushing,
                   analytics, jobs, restarts, failures, writes, pushed, announced, emitted,
                   dropped, racing>>
bounds == <<restarts, failures>>

-----------------------------------------------------------------------------
(* Documents, events and handlers *)

Absent == [kind |-> "Absent"]

SaleKind == {"Auction", "FixedPrice", "OpenToOffer"}

\* An OpenToOffer sale has no price; the others always have one.
NftDoc == {d \in [kind: SaleKind, price: Price \cup {NoPrice},
                  thumbnail: {"original", "stored"}, viewCount: Nat] :
             d.kind = "OpenToOffer" <=> d.price = NoPrice}

PriceWrite == [id: Request, nft: Nft, price: Price]

ScreenEvent == [id: View, nft: Nft]

\* The async methods decorated with @OnEvent that some emitted event reaches,
\* the continuation of the image fetch after its S3 upload, and the view
\* counter, which AnalyticService.create calls without awaiting it.
HistoryHandler == {"HistoryCreated", "HistoryPriceUpdated"}
Handler == HistoryHandler \cup
           {"IndexPriceUpdated", "FetchImage", "UpdateThumbnail", "IncreaseViewCount"}

\* Mutant: the history listens to another class than the one emitted, as the
\* search index does for NftCreated.
SubscribersMissingHistory(event) ==
    CASE event = "FetchNftImage"   -> {"FetchImage"}
      [] event = "NftCreated"      -> {"HistoryCreated"}
      [] event = "NftPriceUpdated" -> {"IndexPriceUpdated"}

\* A handler subscribes to a Symbol, and each event class makes its own.
\* NftService emits the NftCreatedEvent of nfthistory/nft-history.event; the
\* search index listens to the class of the same name in nft/events, so it is
\* not among the subscribers of what is emitted.
Subscribers(event) ==
    CASE event = "FetchNftImage"   -> {"FetchImage"}
      [] event = "NftCreated"      -> {"HistoryCreated"}
      [] event = "NftPriceUpdated" -> {"HistoryPriceUpdated", "IndexPriceUpdated"}

Job(h, subject) == [handler |-> h, about |-> subject]
Emit(event, subject) == {Job(h, subject) : h \in Subscribers(event)}

AllJobs ==
    [handler: {"HistoryCreated", "FetchImage", "UpdateThumbnail"}, about: Nft]
    \cup [handler: {"HistoryPriceUpdated", "IndexPriceUpdated"}, about: PriceWrite]
    \cup [handler: {"IncreaseViewCount"}, about: ScreenEvent]

\* The paths the record's schema requires, and those the handler supplies.
RequiredFields(h) == CASE h = "HistoryCreated"      -> {"nftId", "ownerId"}
                       [] h = "HistoryPriceUpdated" -> {"nftId", "price", "ownerId"}
SuppliedFields(h) == CASE h = "HistoryCreated"      -> {"nftId"}
                       [] h = "HistoryPriceUpdated" -> {"nftId", "price", "ownerId"}
PassesValidation(h) == RequiredFields(h) \subseteq SuppliedFields(h)

-----------------------------------------------------------------------------
(* Derived state *)

Stored == {n \in Nft : nfts[n] # Absent}
UsedRequests == {writes[i].id : i \in DOMAIN writes}
Written == {writes[i] : i \in DOMAIN writes}
Recorded(h, subject) == \E i \in DOMAIN history : history[i] = Job(h, subject)

\* A price write on n whose event, or one of whose price handlers, is outstanding.
InFlight(n) ==
    \/ \E w \in answering : w.nft = n
    \/ \E w \in Written : /\ w.nft = n
                          /\ \E h \in Subscribers("NftPriceUpdated") : Job(h, w) \in jobs

Date == 0..MaxDate

\* Mongoose dates a write before it sends it, and the write may wait for its
\* connection or overtake others: whatever landed before, it lands with any date
\* since the NFT's creation.  Two writes may have one date, and updatedAt may go back.
DateUpdate(n) ==
    /\ \E at \in createdAt[n]..MaxDate : updatedAt' = [updatedAt EXCEPT ![n] = at]
    /\ UNCHANGED createdAt

\* An insert is dated in the same way.
DateInsert(n) ==
    \E at \in Date : /\ createdAt' = [createdAt EXCEPT ![n] = at]
                     /\ updatedAt' = [updatedAt EXCEPT ![n] = at]

-----------------------------------------------------------------------------
Init ==
    /\ nfts = [n \in Nft |-> Absent]
    /\ createdAt = [n \in Nft |-> 0] /\ updatedAt = [n \in Nft |-> 0]
    /\ creating = {} /\ answering = {}
    /\ history = <<>>
    /\ bucket = {}
    /\ pushing = {} /\ analytics = {} /\ pushed = {}
    /\ jobs = {}
    /\ restarts = 0 /\ failures = 0
    /\ writes = <<>>
    /\ announced = {} /\ emitted = {} /\ dropped = {} /\ racing = {}

\* createFixedPriceNft, createAuctionNft, createOfferNft: the tags exist and
\* model.create has stored the document.
CreateNft(n, k, p) ==
    /\ nfts[n] = Absent
    /\ (k = "OpenToOffer") <=> (p = NoPrice)
    /\ nfts' = [nfts EXCEPT ![n] = [kind |-> k, price |-> p,
                                    thumbnail |-> "original", viewCount |-> 0]]
    /\ DateInsert(n)
    /\ creating' = creating \cup {n}
    /\ UNCHANGED <<answering, history, bucket, pushing, analytics, jobs, bounds,
                   writes, pushed, announced, emitted, dropped, racing>>

\* The rest of create(): both events go out in the same synchronous stretch.
AnnounceNft(n) ==
    /\ n \in creating
    /\ creating' = creating \ {n}
    /\ jobs' = jobs \cup Emit("FetchNftImage", n) \cup Emit("NftCreated", n)
    /\ announced' = announced \cup {n}
    /\ UNCHANGED <<nfts, dates, answering, history, bucket, pushing, analytics,
                   bounds, writes, pushed, emitted, dropped, racing>>

\* Mutant: the filter forgets the kind of the sale.
HasAnySale(n) == nfts[n] # Absent

\* The filter of the findOneAndUpdate of updateNftFixedPrice.
HasFixedPrice(n) == nfts[n] # Absent /\ nfts[n].kind = "FixedPrice"

\* Mutant: a call that finds no document goes on and announces the price.
UpdateUnchecked(r, n, p) ==
    LET w == [id |-> r, nft |-> n, price |-> p] IN
    /\ r \notin UsedRequests
    /\ nfts[n] # Absent
    /\ nfts' = IF HasFixedPrice(n) THEN [nfts EXCEPT ![n].price = p] ELSE nfts
    /\ DateUpdate(n)
    /\ answering' = answering \cup {w}
    /\ writes' = Append(writes, w)
    /\ racing' = IF InFlight(n) THEN racing \cup {n} ELSE racing \ {n}
    /\ UNCHANGED <<creating, history, bucket, pushing, analytics, jobs, bounds,
                   pushed, announced, emitted, dropped>>

\* The findOneAndUpdate of updateNftFixedPrice.  A call that finds no document
\* throws and changes nothing.
UpdateNftFixedPrice(r, n, p) ==
    LET w == [id |-> r, nft |-> n, price |-> p] IN
    /\ r \notin UsedRequests
    /\ HasFixedPrice(n)
    /\ nfts' = [nfts EXCEPT ![n].price = p]
    /\ DateUpdate(n)
    /\ answering' = answering \cup {w}
    /\ writes' = Append(writes, w)
    /\ racing' = IF InFlight(n) THEN racing \cup {n} ELSE racing \ {n}
    /\ UNCHANGED <<creating, history, bucket, pushing, analytics, jobs, bounds,
                   pushed, announced, emitted, dropped>>

\* The rest of updateNftFixedPrice, when the reply of MongoDB has come back.
AnnouncePrice(w) ==
    /\ w \in answering
    /\ answering' = answering \ {w}
    /\ jobs' = jobs \cup Emit("NftPriceUpdated", w)
    /\ emitted' = emitted \cup {w}
    /\ UNCHANGED <<nfts, dates, creating, history, bucket, pushing, analytics,
                   bounds, writes, pushed, announced, dropped, racing>>

\* AnalyticService.create for a NftScreenShown event: the view counter is
\* started and not awaited, and the analytic document is created meanwhile.
PushEvent(v, n) ==
    LET e == [id |-> v, nft |-> n] IN
    /\ v \notin {x.id : x \in pushed}
    /\ pushed' = pushed \cup {e}
    /\ pushing' = pushing \cup {e}
    /\ jobs' = jobs \cup {Job("IncreaseViewCount", e)}
    /\ UNCHANGED <<nfts, dates, creating, answering, history, bucket, analytics,
                   bounds, writes, announced, emitted, dropped, racing>>

StoreAnalytic(e) ==
    /\ e \in pushing
    /\ pushing' = pushing \ {e}
    /\ \/ analytics' = analytics \cup {e}
       \/ UNCHANGED analytics          \* the insert failed; the caller is told
    /\ UNCHANGED <<nfts, dates, creating, answering, history, bucket, jobs,
                   bounds, writes, pushed, announced, emitted, dropped, racing>>

-----------------------------------------------------------------------------
(* The handlers *)

\* Mutant: the newest record comes first.
RecordFirst(j) ==
    /\ j \in jobs
    /\ j.handler \in HistoryHandler
    /\ PassesValidation(j.handler)
    /\ history' = <<j>> \o history
    /\ jobs' = jobs \ {j}
    /\ UNCHANGED <<nfts, dates, creating, answering, bucket, pushing, analytics,
                   bounds, writes, pushed, announced, emitted, dropped, racing>>

\* handleNftCreatedEvent and handleNftPriceUpdatedEvent of NftHistoryService
\* insert a record that passes the schema's validation; the others reject.
RecordHistory(j) ==
    /\ j \in jobs
    /\ j.handler \in HistoryHandler
    /\ PassesValidation(j.handler)
    /\ history' = Append(history, j)
    /\ jobs' = jobs \ {j}
    /\ UNCHANGED <<nfts, dates, creating, answering, bucket, pushing, analytics,
                   bounds, writes, pushed, announced, emitted, dropped, racing>>

\* Mutant: the upload is not awaited, and may fail after the thumbnail is set.
FetchImageUnawaited(j) ==
    /\ j \in jobs
    /\ j.handler = "FetchImage"
    /\ bucket' \in {bucket, bucket \cup {j.about}}
    /\ jobs' = (jobs \ {j}) \cup {Job("UpdateThumbnail", j.about)}
    /\ UNCHANGED <<nfts, dates, creating, answering, history, pushing, analytics,
                   bounds, writes, pushed, announced, emitted, dropped, racing>>

\* Mutant: the method stops once the image is stored.
FetchImageOnly(j) ==
    /\ j \in jobs
    /\ j.handler = "FetchImage"
    /\ bucket' = bucket \cup {j.about}
    /\ jobs' = jobs \ {j}
    /\ UNCHANGED <<nfts, dates, creating, answering, history, pushing, analytics,
                   bounds, writes, pushed, announced, emitted, dropped, racing>>

\* fetchNftImageFromBlockchain up to the end of its upload.
FetchImage(j) ==
    /\ j \in jobs
    /\ j.handler = "FetchImage"
    /\ bucket' = bucket \cup {j.about}
    /\ jobs' = (jobs \ {j}) \cup {Job("UpdateThumbnail", j.about)}
    /\ UNCHANGED <<nfts, dates, creating, answering, history, pushing, analytics,
                   bounds, writes, pushed, announced, emitted, dropped, racing>>

\* updateThumbnail, its last await.
UpdateThumbnail(j) ==
    /\ j \in jobs
    /\ j.handler = "UpdateThumbnail"
    /\ nfts' = [nfts EXCEPT ![j.about].thumbnail = "stored"]
    /\ DateUpdate(j.about)
    /\ jobs' = jobs \ {j}
    /\ UNCHANGED <<creating, answering, history, bucket, pushing, analytics, bounds,
                   writes, pushed, announced, emitted, dropped, racing>>

\* Mutant: the counter is delivered again after it has counted.
IncreaseViewCountAgain(j) ==
    /\ j \in jobs
    /\ j.handler = "IncreaseViewCount"
    /\ nfts[j.about.nft] # Absent
    /\ nfts' = [nfts EXCEPT ![j.about.nft].viewCount = @ + 1]
    /\ DateUpdate(j.about.nft)
    /\ UNCHANGED <<creating, answering, history, bucket, pushing, analytics, jobs, bounds,
                   writes, pushed, announced, emitted, dropped, racing>>

\* $inc of viewCount; an id that no document has updates nothing.
IncreaseViewCount(j) ==
    /\ j \in jobs
    /\ j.handler = "IncreaseViewCount"
    /\ jobs' = jobs \ {j}
    /\ IF nfts[j.about.nft] = Absent
         THEN UNCHANGED <<nfts, dates>>
         ELSE /\ nfts' = [nfts EXCEPT ![j.about.nft].viewCount = @ + 1]
              /\ DateUpdate(j.about.nft)
    /\ UNCHANGED <<creating, answering, history, bucket, pushing, analytics, bounds,
                   writes, pushed, announced, emitted, dropped, racing>>

\* The search index is done with a price, applied or refused: see SearchIndex.
IndexPrice(j) ==
    /\ j \in jobs
    /\ j.handler = "IndexPriceUpdated"
    /\ jobs' = jobs \ {j}
    /\ UNCHANGED <<nfts, dates, creating, answering, history, bucket, pushing,
                   analytics, bounds, writes, pushed, announced, emitted, dropped, racing>>

\* The record lacks a required path: create() rejects and inserts nothing.
RefuseRecord(j) ==
    /\ j \in jobs
    /\ j.handler \in HistoryHandler
    /\ ~PassesValidation(j.handler)
    /\ jobs' = jobs \ {j}
    /\ UNCHANGED <<nfts, dates, creating, answering, history, bucket, pushing,
                   analytics, bounds, writes, pushed, announced, emitted, dropped, racing>>

\* MongoDB, Elasticsearch, Solana or S3 failed, or the image could not be read.
\* Nothing retries the handler.  Its rejection, like that of RefuseRecord, is
\* unhandled, which ends a Node 16 process unless it is told otherwise: Exit
\* may follow, and need not.
RejectJob(j) ==
    /\ j \in jobs
    /\ failures < MaxFailures
    /\ failures' = failures + 1
    /\ jobs' = jobs \ {j}
    /\ dropped' = dropped \cup {j}
    /\ UNCHANGED <<nfts, dates, creating, answering, history, bucket, pushing,
                   analytics, restarts, writes, pushed, announced, emitted, racing>>

\* The process exits and is started again: what it held in memory is gone.
Exit ==
    /\ restarts < MaxRestarts
    /\ restarts' = restarts + 1
    /\ dropped' = dropped \cup jobs
    /\ jobs' = {} /\ creating' = {} /\ answering' = {} /\ pushing' = {}
    /\ UNCHANGED <<nfts, dates, history, bucket, analytics, failures, writes,
                   pushed, announced, emitted, racing>>

-----------------------------------------------------------------------------
\* What clients ask for.
ClientStep ==
    \/ \E n \in Nft, k \in SaleKind, p \in Price \cup {NoPrice} : CreateNft(n, k, p)
    \/ \E r \in Request, n \in Nft, p \in Price : UpdateNftFixedPrice(r, n, p)
    \/ \E v \in View, n \in Nft : PushEvent(v, n)

\* What the process does next with a handler it has started, the search
\* index's apart.
HandlerStep(j) ==
    \/ RecordHistory(j) \/ RefuseRecord(j)
    \/ FetchImage(j) \/ UpdateThumbnail(j)
    \/ IncreaseViewCount(j)
    \/ RejectJob(j)

ServerStep ==
    \/ \E n \in creating : AnnounceNft(n)
    \/ \E w \in answering : AnnouncePrice(w)
    \/ \E e \in pushing : StoreAnalytic(e)
    \/ \E j \in jobs : HandlerStep(j)

Next == ClientStep \/ ServerStep \/ (\E j \in jobs : IndexPrice(j)) \/ Exit

\* A started request or handler is driven on by the event loop, and every
\* driver call it awaits is answered or times out.  Clients owe nothing, and
\* nothing makes the process exit.
Fairness ==
    /\ \A n \in Nft : WF_catalogueVars(AnnounceNft(n))
    /\ \A w \in PriceWrite : WF_catalogueVars(AnnouncePrice(w))
    /\ \A e \in ScreenEvent : WF_catalogueVars(StoreAnalytic(e))
    /\ \A j \in AllJobs : WF_catalogueVars(HandlerStep(j) \/ IndexPrice(j))

Spec == Init /\ [][Next]_catalogueVars
FairSpec == Spec /\ Fairness

-----------------------------------------------------------------------------
(* Properties *)

Dated ==
    /\ createdAt \in [Nft -> Date] /\ updatedAt \in [Nft -> Date]
    /\ \A n \in Nft : createdAt[n] <= updatedAt[n]

\* The types of the collections and of the process's memory.
TypeOK ==
    /\ nfts \in [Nft -> NftDoc \cup {Absent}]
    /\ Dated
    /\ creating \subseteq Stored
    /\ answering \subseteq Written
    /\ history \in Seq(AllJobs)
    /\ bucket \subseteq Nft
    /\ pushing \subseteq pushed /\ analytics \subseteq pushed
    /\ jobs \subseteq AllJobs
    /\ restarts \in 0..MaxRestarts /\ failures \in 0..MaxFailures
    /\ writes \in Seq(PriceWrite)
    /\ pushed \subseteq ScreenEvent
    /\ announced \subseteq Stored /\ emitted \subseteq Written
    /\ dropped \subseteq AllJobs
    /\ racing \subseteq Nft

\* A price history handler whose event was emitted is in exactly one place:
\* still running, recorded in the history, or dropped by a failure or an exit.
Settled(h, subject) ==
    LET running  == Job(h, subject) \in jobs
        recorded == Recorded(h, subject)
        gone     == Job(h, subject) \in dropped
    IN  /\ running \/ recorded \/ gone
        /\ ~(running /\ recorded) /\ ~(running /\ gone) /\ ~(recorded /\ gone)

\* Every committed price change whose event went out is settled, and the
\* history holds each change at most once and none that was not committed:
\* updateNftFixedPrice and handleNftPriceUpdatedEvent lose nothing silently.
PriceHistoryAccounting ==
    /\ \A w \in emitted : Settled("HistoryPriceUpdated", w)
    /\ \A i \in DOMAIN history :
         history[i].handler = "HistoryPriceUpdated" => history[i].about \in emitted
    /\ \A i, k \in DOMAIN history : history[i] = history[k] => i = k

\* The same for the creation of an NFT and its Created record.
CreationAccounting ==
    \A n \in announced : Settled("HistoryCreated", n)

\* The last committed write of an NFT's price, and its last recorded one.
LastWrite(n) ==
    writes[CHOOSE i \in DOMAIN writes :
             /\ writes[i].nft = n
             /\ \A k \in DOMAIN writes : writes[k].nft = n => k <= i]
LastRecorded(n) ==
    history[CHOOSE i \in DOMAIN history :
              /\ history[i].handler = "HistoryPriceUpdated" /\ history[i].about.nft = n
              /\ \A k \in DOMAIN history :
                   (history[k].handler = "HistoryPriceUpdated" /\ history[k].about.nft = n)
                      => k <= i].about

\* When the last price change of an NFT did not overtake an earlier one and
\* its record was stored, the price history of the NFT ends at the price that
\* the NFT has now: handlers that finish out of order may misorder only
\* changes that overlapped.
HistoryEndsAtPrice ==
    \A n \in Stored \ racing :
       (\E w \in Written : w.nft = n) =>
          /\ LastWrite(n).price = nfts[n].price
          /\ Recorded("HistoryPriceUpdated", LastWrite(n)) => LastRecorded(n) = LastWrite(n)

\* A thumbnail that points into the bucket points at an image that is there,
\* whatever step of fetchNftImageFromBlockchain failed or was cut short.
ThumbnailInBucket ==
    \A n \in Stored : nfts[n].thumbnail = "stored" => n \in bucket

\* Every screen event counts at most once in its NFT's viewCount, and not
\* while its counter is outstanding or after it was dropped.
ViewsCountedOnce ==
    \A n \in Stored :
       LET Outstanding == {e \in pushed : /\ e.nft = n
                                          /\ Job("IncreaseViewCount", e) \in jobs \cup dropped}
       IN  nfts[n].viewCount + Cardinality(Outstanding)
             <= Cardinality({e \in pushed : e.nft = n})

\* A committed price change reaches the history, unless its handler was
\* dropped or the process exited before the event went out.
PriceReachesHistory ==
    \A w \in PriceWrite :
       w \in Written ~> \/ Recorded("HistoryPriceUpdated", w)
                       \/ Job("HistoryPriceUpdated", w) \in dropped
                       \/ w \notin answering \cup emitted

\* An announced NFT gets its stored thumbnail unless a step of the image
\* fetch was dropped.
ImageReachesThumbnail ==
    \A n \in Nft :
       n \in announced ~> \/ nfts[n] # Absent /\ nfts[n].thumbnail = "stored"
                       \/ {Job("FetchImage", n), Job("UpdateThumbnail", n)} \cap dropped # {}
=============================================================================
