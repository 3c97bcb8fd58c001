--------------------------- MODULE CatalogueProofs ---------------------------
(***************************************************************************)
(* What the catalogue's runs check on small instances, for every set of    *)
(* NFTs, prices, requests and views and every number of failures and       *)
(* restarts.                                                               *)
(***************************************************************************)
EXTENDS Catalogue, SequenceTheorems, FiniteSetTheorems, TLAPS

-----------------------------------------------------------------------------
(* Lemmas on the data *)

\* A stored document is not the absence of one, and only the price of an
\* OpenToOffer sale is missing.
LEMMA DocIsNotAbsent ==
    ASSUME NEW d \in NftDoc
    PROVE  d # Absent
BY DEF NftDoc, SaleKind, Absent

\* Append adds exactly one element at the end.
LEMMA AppendFacts ==
    ASSUME NEW S, NEW s \in Seq(S), NEW e \in S
    PROVE  /\ Append(s, e) \in Seq(S)
           /\ Len(Append(s, e)) = Len(s) + 1
           /\ DOMAIN Append(s, e) = 1..(Len(s) + 1)
           /\ \A i \in 1..Len(s) : Append(s, e)[i] = s[i]
           /\ Append(s, e)[Len(s) + 1] = e
OBVIOUS

\* A document is stored exactly when its entry is in NftDoc.
LEMMA StoredIsDoc ==
    ASSUME nfts \in [Nft -> NftDoc \cup {Absent}], NEW n \in Nft
    PROVE  n \in Stored <=> nfts[n] \in NftDoc
BY DocIsNotAbsent DEF Stored

\* Every update keeps a document a document.
LEMMA DocUpdates ==
    ASSUME NEW d \in NftDoc
    PROVE  /\ \A p \in Price : d.kind = "FixedPrice" => [d EXCEPT !.price = p] \in NftDoc
           /\ [d EXCEPT !.thumbnail = "stored"] \in NftDoc
           /\ [d EXCEPT !.viewCount = @ + 1] \in NftDoc
BY CatalogueConstants DEF NftDoc, SaleKind

-----------------------------------------------------------------------------
(* Type correctness.  TypeOK alone is not inductive: updateThumbnail writes  *)
(* a field of the document of its job, which must then be stored.            *)

CreationHandler == {"HistoryCreated", "FetchImage", "UpdateThumbnail"}

JobsAboutStored == \A j \in jobs : j.handler \in CreationHandler => j.about \in Stored

Typed == TypeOK /\ JobsAboutStored

LEMMA TypedInit == Init => Typed
BY CatalogueConstants DEF Init, Typed, TypeOK, Dated, Date, JobsAboutStored, Stored, Written

\* A write dates its NFT from its creation on; nothing else touches a date.
LEMMA DatedStep == Typed /\ [Next]_catalogueVars => Dated'
<1> SUFFICES ASSUME Typed, [Next]_catalogueVars PROVE Dated'
  OBVIOUS
<1>1. Dated
  BY DEF Typed, TypeOK
<1>2. ASSUME NEW n \in Nft, DateUpdate(n)
      PROVE  Dated'
  <2>1. PICK at \in createdAt[n]..MaxDate : updatedAt' = [updatedAt EXCEPT ![n] = at]
    BY <1>2 DEF DateUpdate
  <2>2. at \in Date /\ createdAt[n] <= at
    BY <1>1, <2>1, CatalogueConstants DEF Dated, Date
  <2> QED
    BY <1>1, <1>2, <2>1, <2>2 DEF DateUpdate, Dated
<1>3. ASSUME NEW n \in Nft, DateInsert(n)
      PROVE  Dated'
  <2>1. PICK at \in Date : /\ createdAt' = [createdAt EXCEPT ![n] = at]
                           /\ updatedAt' = [updatedAt EXCEPT ![n] = at]
    BY <1>3 DEF DateInsert
  <2> QED
    BY <1>1, <2>1, CatalogueConstants DEF Dated, Date
<1>4. ASSUME UNCHANGED dates
      PROVE  Dated'
  BY <1>1, <1>4 DEF dates, Dated
<1>5. ASSUME NEW n \in Nft, NEW k \in SaleKind, NEW p \in Price \cup {NoPrice}, CreateNft(n, k, p)
      PROVE  Dated'
  BY <1>3, <1>5 DEF CreateNft
<1>6. ASSUME NEW r \in Request, NEW n \in Nft, NEW p \in Price, UpdateNftFixedPrice(r, n, p)
      PROVE  Dated'
  BY <1>2, <1>6 DEF UpdateNftFixedPrice
<1>7. ASSUME NEW j \in jobs, UpdateThumbnail(j)
      PROVE  Dated'
  <2>1. j.about \in Nft
    BY <1>7 DEF UpdateThumbnail, Typed, JobsAboutStored, CreationHandler, Stored
  <2> QED
    BY <1>2, <1>7, <2>1 DEF UpdateThumbnail
<1>8. ASSUME NEW j \in jobs, IncreaseViewCount(j)
      PROVE  Dated'
  <2>1. j.about.nft \in Nft
    BY <1>8 DEF IncreaseViewCount, Typed, TypeOK, AllJobs, ScreenEvent
  <2> QED
    BY <1>2, <1>4, <1>8, <2>1 DEF IncreaseViewCount
<1> QED
  BY <1>4, <1>5, <1>6, <1>7, <1>8
  DEF Next, ClientStep, ServerStep, HandlerStep, PushEvent, AnnounceNft, AnnouncePrice,
      StoreAnalytic, RecordHistory, RefuseRecord, FetchImage, RejectJob, IndexPrice, Exit,
      catalogueVars

LEMMA TypedStep == Typed /\ [Next]_catalogueVars => Typed'
<1> SUFFICES ASSUME Typed, [Next]_catalogueVars
             PROVE  Typed'
  OBVIOUS
<1>0. Dated'
  BY DatedStep
<1> USE CatalogueConstants, <1>0
<1>1. ASSUME NEW n \in Nft, NEW k \in SaleKind, NEW p \in Price \cup {NoPrice},
             CreateNft(n, k, p)
      PROVE  Typed'
  <2>2. [kind |-> k, price |-> p, thumbnail |-> "original", viewCount |-> 0] \in NftDoc
    BY <1>1 DEF CreateNft, NftDoc
  <2>3. nfts' \in [Nft -> NftDoc \cup {Absent}]
    BY <1>1, <2>2 DEF Typed, TypeOK, CreateNft
  <2>4. Stored' = Stored \cup {n}
    BY <1>1, <2>2, DocIsNotAbsent DEF Typed, TypeOK, CreateNft, Stored
  <2> QED
    BY <1>1, <2>3, <2>4 DEF Typed, TypeOK, JobsAboutStored, CreateNft, bounds, Written
<1>2. ASSUME NEW r \in Request, NEW n \in Nft, NEW p \in Price,
             UpdateNftFixedPrice(r, n, p)
      PROVE  Typed'
  <2> DEFINE w == [id |-> r, nft |-> n, price |-> p]
  <2>2. nfts[n] \in NftDoc /\ nfts[n].kind = "FixedPrice"
    BY <1>2 DEF Typed, TypeOK, UpdateNftFixedPrice, HasFixedPrice
  <2>3. nfts' = [nfts EXCEPT ![n] = [nfts[n] EXCEPT !.price = p]]
    BY <1>2 DEF UpdateNftFixedPrice
  <2>4. nfts' \in [Nft -> NftDoc \cup {Absent}] /\ nfts'[n] \in NftDoc
    BY <2>2, <2>3, DocUpdates DEF Typed, TypeOK
  <2>5. Stored' = Stored
    BY <2>2, <2>3, <2>4, DocIsNotAbsent DEF Typed, TypeOK, Stored
  <2>6. w \in PriceWrite /\ writes \in Seq(PriceWrite) /\ writes' = Append(writes, w)
    BY <1>2 DEF PriceWrite, UpdateNftFixedPrice, Typed, TypeOK
  <2>7. writes' \in Seq(PriceWrite)
    BY <2>6, AppendFacts
  <2>8. Written' = Written \cup {w}
    BY <2>6 DEF Written
  <2>9. racing' \subseteq Nft
    BY <1>2 DEF UpdateNftFixedPrice, Typed, TypeOK
  <2>10. answering' \subseteq Written'
    BY <1>2, <2>8 DEF UpdateNftFixedPrice, Typed, TypeOK
  <2>11. emitted' \subseteq Written'
    BY <1>2, <2>8 DEF UpdateNftFixedPrice, Typed, TypeOK
  <2>12. UNCHANGED <<creating, history, bucket, pushing, analytics, jobs, restarts, failures,
                     pushed, announced, dropped>>
    BY <1>2 DEF UpdateNftFixedPrice, bounds
  <2> QED
    BY <2>4, <2>5, <2>7, <2>9, <2>10, <2>11, <2>12 DEF Typed, TypeOK, JobsAboutStored
<1>3. ASSUME NEW v \in View, NEW n \in Nft, PushEvent(v, n)
      PROVE  Typed'
  BY <1>3 DEF PushEvent, Typed, TypeOK, JobsAboutStored, CreationHandler, Stored, Written,
              AllJobs, ScreenEvent, Job, bounds
<1>4. ASSUME NEW n \in creating, AnnounceNft(n)
      PROVE  Typed'
  <2>1. n \in Stored /\ n \in Nft
    BY <1>4 DEF Typed, TypeOK, Stored
  <2>2. Stored' = Stored /\ Written' = Written
    BY <1>4 DEF AnnounceNft, Stored, Written
  <2>3. jobs' \subseteq AllJobs /\ JobsAboutStored'
    BY <1>4, <2>1, <2>2 DEF AnnounceNft, Emit, Subscribers, Job, AllJobs, JobsAboutStored,
                            Typed, TypeOK
  <2> QED
    BY <1>4, <2>1, <2>2, <2>3 DEF AnnounceNft, Typed, TypeOK, bounds
<1>5. ASSUME NEW w \in answering, AnnouncePrice(w)
      PROVE  Typed'
  <2>1. w \in Written /\ w \in PriceWrite
    BY <1>5 DEF Typed, TypeOK, Written
  <2>2. Stored' = Stored /\ Written' = Written
    BY <1>5 DEF AnnouncePrice, Stored, Written
  <2>3. jobs' \subseteq AllJobs /\ JobsAboutStored'
    BY <1>5, <2>1, <2>2 DEF AnnouncePrice, Emit, Subscribers, Job, AllJobs, JobsAboutStored,
                            CreationHandler, Typed, TypeOK
  <2> QED
    BY <1>5, <2>1, <2>2, <2>3 DEF AnnouncePrice, Typed, TypeOK, bounds
<1>6. ASSUME NEW e \in pushing, StoreAnalytic(e)
      PROVE  Typed'
  BY <1>6 DEF StoreAnalytic, Typed, TypeOK, JobsAboutStored, Stored, Written, bounds
<1>7. ASSUME NEW j \in jobs, RecordHistory(j)
      PROVE  Typed'
  <2>1. history' \in Seq(AllJobs)
    BY <1>7, AppendFacts DEF RecordHistory, Typed, TypeOK
  <2> QED
    BY <1>7, <2>1 DEF RecordHistory, Typed, TypeOK, JobsAboutStored, Stored, Written, bounds
<1>8. ASSUME NEW j \in jobs, FetchImage(j)
      PROVE  Typed'
  <2>1. j.about \in Stored /\ j.about \in Nft
    BY <1>8 DEF FetchImage, Typed, JobsAboutStored, CreationHandler, Stored
  <2>2. Stored' = Stored /\ Written' = Written
    BY <1>8 DEF FetchImage, Stored, Written
  <2>3. jobs' \subseteq AllJobs /\ JobsAboutStored'
    BY <1>8, <2>1, <2>2 DEF FetchImage, Job, AllJobs, JobsAboutStored, Typed, TypeOK
  <2> QED
    BY <1>8, <2>1, <2>2, <2>3 DEF FetchImage, Typed, TypeOK, bounds
<1>9. ASSUME NEW j \in jobs, UpdateThumbnail(j)
      PROVE  Typed'
  <2> DEFINE n == j.about
  <2>1. n \in Nft /\ nfts[n] \in NftDoc
    BY <1>9 DEF UpdateThumbnail, Typed, TypeOK, JobsAboutStored, CreationHandler, Stored
  <2>2. nfts' = [nfts EXCEPT ![n] = [nfts[n] EXCEPT !.thumbnail = "stored"]]
    BY <1>9 DEF UpdateThumbnail
  <2>3. nfts' \in [Nft -> NftDoc \cup {Absent}] /\ nfts'[n] \in NftDoc
    BY <2>1, <2>2, DocUpdates DEF Typed, TypeOK
  <2>4. Stored' = Stored
    BY <2>1, <2>2, <2>3, DocIsNotAbsent DEF Typed, TypeOK, Stored
  <2> QED
    BY <1>9, <2>3, <2>4 DEF UpdateThumbnail, Typed, TypeOK, JobsAboutStored, Written, bounds
<1>10. ASSUME NEW j \in jobs, IncreaseViewCount(j)
       PROVE  Typed'
  <2> DEFINE n == j.about.nft
  <2>1. n \in Nft
    BY <1>10 DEF IncreaseViewCount, Typed, TypeOK, AllJobs, ScreenEvent
  <2>2. CASE nfts[n] = Absent
    BY <1>10, <2>2 DEF IncreaseViewCount, Typed, TypeOK, JobsAboutStored, Stored, Written, bounds
  <2>3. CASE nfts[n] # Absent
    <3>1. nfts[n] \in NftDoc
      BY <2>1, <2>3 DEF Typed, TypeOK
    <3>2. nfts' = [nfts EXCEPT ![n] = [nfts[n] EXCEPT !.viewCount = @ + 1]]
      BY <1>10, <2>3 DEF IncreaseViewCount
    <3>3. nfts' \in [Nft -> NftDoc \cup {Absent}] /\ nfts'[n] \in NftDoc
      BY <2>1, <3>1, <3>2, DocUpdates DEF Typed, TypeOK
    <3>4. Stored' = Stored
      BY <2>1, <3>1, <3>2, <3>3, DocIsNotAbsent DEF Typed, TypeOK, Stored
    <3> QED
      BY <1>10, <3>3, <3>4
      DEF IncreaseViewCount, Typed, TypeOK, JobsAboutStored, Written, bounds
  <2> QED
    BY <2>2, <2>3
<1>11. ASSUME NEW j \in jobs, IndexPrice(j) \/ RefuseRecord(j)
       PROVE  Typed'
  BY <1>11 DEF IndexPrice, RefuseRecord, Typed, TypeOK, JobsAboutStored, Stored, Written, bounds
<1>12. ASSUME NEW j \in jobs, RejectJob(j)
       PROVE  Typed'
  BY <1>12 DEF RejectJob, Typed, TypeOK, JobsAboutStored, Stored, Written, bounds
<1>13. CASE Exit
  BY <1>13 DEF Exit, Typed, TypeOK, JobsAboutStored, Stored, Written, bounds
<1>14. CASE UNCHANGED catalogueVars
  BY <1>14 DEF catalogueVars, Typed, TypeOK, JobsAboutStored, Stored, Written
<1> QED
  BY <1>1, <1>2, <1>3, <1>4, <1>5, <1>6, <1>7, <1>8, <1>9, <1>10, <1>11, <1>12, <1>13, <1>14
  DEF Next, ClientStep, ServerStep, HandlerStep

\* Every reachable state of the catalogue has the types of TypeOK.
THEOREM TypeCorrect == Spec => []TypeOK
<1>1. Typed => TypeOK
  BY DEF Typed
<1> QED
  BY <1>1, TypedInit, TypedStep, PTL DEF Spec

-----------------------------------------------------------------------------
(* The thumbnail and the bucket: the job that will write the thumbnail is    *)
(* only ever started behind an upload that ended.                            *)

UploadedFirst == \A j \in jobs : j.handler = "UpdateThumbnail" => j.about \in bucket

ImageInv == ThumbnailInBucket /\ UploadedFirst

LEMMA ImageInit == Init => ImageInv
BY DEF Init, ImageInv, ThumbnailInBucket, UploadedFirst, Stored

LEMMA ImageStep == Typed /\ ImageInv /\ [Next]_catalogueVars => ImageInv'
<1> SUFFICES ASSUME Typed, ImageInv, [Next]_catalogueVars
             PROVE  ImageInv'
  OBVIOUS
<1>1. ASSUME NEW n \in Nft, NEW k \in SaleKind, NEW p \in Price \cup {NoPrice},
             CreateNft(n, k, p)
      PROVE  ImageInv'
  BY <1>1 DEF CreateNft, ImageInv, ThumbnailInBucket, UploadedFirst, Stored, Typed, TypeOK
<1>2. ASSUME NEW r \in Request, NEW n \in Nft, NEW p \in Price,
             UpdateNftFixedPrice(r, n, p)
      PROVE  ImageInv'
  <2>1. nfts[n] \in NftDoc
    BY <1>2 DEF UpdateNftFixedPrice, HasFixedPrice, Typed, TypeOK
  <2>2. \A x \in Nft : x \in Stored' => x \in Stored /\ nfts'[x].thumbnail = nfts[x].thumbnail
    BY <1>2, <2>1, DocIsNotAbsent DEF UpdateNftFixedPrice, Stored, Typed, TypeOK, NftDoc
  <2> QED
    BY <1>2, <2>2 DEF UpdateNftFixedPrice, ImageInv, ThumbnailInBucket, UploadedFirst, Stored
<1>3. ASSUME NEW v \in View, NEW n \in Nft, PushEvent(v, n)
      PROVE  ImageInv'
  BY <1>3 DEF PushEvent, ImageInv, ThumbnailInBucket, UploadedFirst, Stored, Job
<1>4. ASSUME NEW n \in creating, AnnounceNft(n)
      PROVE  ImageInv'
  BY <1>4 DEF AnnounceNft, ImageInv, ThumbnailInBucket, UploadedFirst, Stored, Job, Emit,
              Subscribers
<1>5. ASSUME NEW w \in answering, AnnouncePrice(w)
      PROVE  ImageInv'
  BY <1>5 DEF AnnouncePrice, ImageInv, ThumbnailInBucket, UploadedFirst, Stored, Job, Emit,
              Subscribers
<1>6. ASSUME NEW e \in pushing, StoreAnalytic(e)
      PROVE  ImageInv'
  BY <1>6 DEF StoreAnalytic, ImageInv, ThumbnailInBucket, UploadedFirst, Stored
<1>7. ASSUME NEW j \in jobs, RecordHistory(j)
      PROVE  ImageInv'
  BY <1>7 DEF RecordHistory, ImageInv, ThumbnailInBucket, UploadedFirst, Stored
<1>8. ASSUME NEW j \in jobs, FetchImage(j)
      PROVE  ImageInv'
  BY <1>8 DEF FetchImage, ImageInv, ThumbnailInBucket, UploadedFirst, Stored, Job
<1>9. ASSUME NEW j \in jobs, UpdateThumbnail(j)
      PROVE  ImageInv'
  <2>1. j.about \in bucket
    BY <1>9 DEF UpdateThumbnail, ImageInv, UploadedFirst
  <2>2. \A x \in Nft \ {j.about} : nfts'[x] = nfts[x]
    BY <1>9 DEF UpdateThumbnail, Typed, TypeOK
  <2> QED
    BY <1>9, <2>1, <2>2 DEF UpdateThumbnail, ImageInv, ThumbnailInBucket, UploadedFirst, Stored
<1>10. ASSUME NEW j \in jobs, IncreaseViewCount(j)
       PROVE  ImageInv'
  <2> DEFINE n == j.about.nft
  <2>1. nfts[n] = Absent \/ nfts[n] \in NftDoc
    BY <1>10 DEF IncreaseViewCount, Typed, TypeOK, AllJobs, ScreenEvent
  <2>2. \A x \in Nft : x \in Stored' => x \in Stored /\ nfts'[x].thumbnail = nfts[x].thumbnail
    BY <1>10, <2>1, DocIsNotAbsent DEF IncreaseViewCount, Stored, Typed, TypeOK, NftDoc
  <2> QED
    BY <1>10, <2>2 DEF IncreaseViewCount, ImageInv, ThumbnailInBucket, UploadedFirst, Stored
<1>11. ASSUME NEW j \in jobs, IndexPrice(j) \/ RefuseRecord(j) \/ RejectJob(j)
       PROVE  ImageInv'
  BY <1>11 DEF IndexPrice, RefuseRecord, RejectJob, ImageInv, ThumbnailInBucket,
               UploadedFirst, Stored
<1>12. CASE Exit
  BY <1>12 DEF Exit, ImageInv, ThumbnailInBucket, UploadedFirst, Stored
<1>13. CASE UNCHANGED catalogueVars
  BY <1>13 DEF catalogueVars, ImageInv, ThumbnailInBucket, UploadedFirst, Stored
<1> QED
  BY <1>1, <1>2, <1>3, <1>4, <1>5, <1>6, <1>7, <1>8, <1>9, <1>10, <1>11, <1>12, <1>13
  DEF Next, ClientStep, ServerStep, HandlerStep

\* However its steps fail or are cut short, fetchNftImageFromBlockchain never
\* leaves a thumbnail that points at an image the bucket does not have.
THEOREM ThumbnailAlwaysInBucket == Spec => []ThumbnailInBucket
<1>1. ImageInv => ThumbnailInBucket
  BY DEF ImageInv
<1> QED
  BY <1>1, TypedInit, TypedStep, ImageInit, ImageStep, PTL DEF Spec

-----------------------------------------------------------------------------
(* The accounts of the price history.  That a change is in one place only    *)
(* rests on its event being emitted once, hence on who still has to emit it. *)

PriceJob(w) == Job("HistoryPriceUpdated", w)

NotYetEmitted == answering \cap emitted = {}

PriceJobsEmitted ==
    \A j \in jobs \cup dropped : j.handler = "HistoryPriceUpdated" => j.about \in emitted

HistoryIsEmitted ==
    \A i \in DOMAIN history : history[i].handler = "HistoryPriceUpdated"
                              /\ history[i].about \in emitted

AccountInv == NotYetEmitted /\ PriceJobsEmitted /\ HistoryIsEmitted /\ PriceHistoryAccounting

\* The record of a creation lacks a required path, the one of a price does not.
LEMMA Validation ==
    ASSUME NEW h \in HistoryHandler
    PROVE  PassesValidation(h) <=> h = "HistoryPriceUpdated"
<1>1. "ownerId" \notin SuppliedFields("HistoryCreated")
  BY DEF SuppliedFields
<1>2. "ownerId" \in RequiredFields("HistoryCreated")
  BY DEF RequiredFields
<1>3. RequiredFields("HistoryPriceUpdated") = SuppliedFields("HistoryPriceUpdated")
  BY DEF SuppliedFields, RequiredFields
<1> QED
  BY <1>1, <1>2, <1>3 DEF HistoryHandler, PassesValidation

\* A job is given by its handler and what it is about.
LEMMA JobIsPair ==
    ASSUME NEW j \in AllJobs
    PROVE  j = Job(j.handler, j.about)
BY DEF AllJobs, Job

\* Where history, the outstanding price jobs and the dropped ones stay, and
\* so do the emitted changes, the accounts stay balanced.
LEMMA AccountsKept ==
    ASSUME AccountInv,
           UNCHANGED <<history, dropped, emitted>>,
           NotYetEmitted',
           \A w : PriceJob(w) \in jobs' <=> PriceJob(w) \in jobs,
           \A j \in jobs' \ jobs : j.handler # "HistoryPriceUpdated"
    PROVE  AccountInv'
<1>1. PriceJobsEmitted' /\ HistoryIsEmitted'
  BY DEF AccountInv, PriceJobsEmitted, HistoryIsEmitted
<1>2. \A w : Recorded("HistoryPriceUpdated", w)' <=> Recorded("HistoryPriceUpdated", w)
  BY DEF Recorded
<1>3. PriceHistoryAccounting'
  BY <1>2 DEF AccountInv, PriceHistoryAccounting, Settled, PriceJob
<1> QED
  BY <1>1, <1>3 DEF AccountInv

LEMMA AccountInit == Init => AccountInv
BY DEF Init, AccountInv, NotYetEmitted, PriceJobsEmitted, HistoryIsEmitted,
       PriceHistoryAccounting

LEMMA AccountStep == Typed /\ AccountInv /\ [Next]_catalogueVars => AccountInv'
<1> SUFFICES ASSUME Typed, AccountInv, [Next]_catalogueVars
             PROVE  AccountInv'
  OBVIOUS
<1>1. ASSUME NEW n \in Nft, NEW k \in SaleKind, NEW p \in Price \cup {NoPrice},
             CreateNft(n, k, p)
      PROVE  AccountInv'
  BY <1>1, AccountsKept DEF CreateNft, AccountInv, NotYetEmitted
<1>2. ASSUME NEW r \in Request, NEW n \in Nft, NEW p \in Price,
             UpdateNftFixedPrice(r, n, p)
      PROVE  AccountInv'
  <2> DEFINE w == [id |-> r, nft |-> n, price |-> p]
  <2>1. w \notin emitted
    BY <1>2 DEF UpdateNftFixedPrice, UsedRequests, Typed, TypeOK, Written
  <2>2. NotYetEmitted'
    BY <1>2, <2>1 DEF UpdateNftFixedPrice, AccountInv, NotYetEmitted
  <2> QED
    BY <1>2, <2>2, AccountsKept DEF UpdateNftFixedPrice
<1>3. ASSUME NEW v \in View, NEW n \in Nft, PushEvent(v, n)
      PROVE  AccountInv'
  BY <1>3, AccountsKept DEF PushEvent, Job, PriceJob, AccountInv, NotYetEmitted
<1>4. ASSUME NEW n \in creating, AnnounceNft(n)
      PROVE  AccountInv'
  BY <1>4, AccountsKept DEF AnnounceNft, Emit, Subscribers, Job, PriceJob, AccountInv,
                            NotYetEmitted
<1>5. ASSUME NEW w \in answering, AnnouncePrice(w)
      PROVE  AccountInv'
  <2>1. w \notin emitted
    BY <1>5 DEF AccountInv, NotYetEmitted
  <2>2. jobs' = jobs \cup {PriceJob(w), Job("IndexPriceUpdated", w)}
    BY <1>5 DEF AnnouncePrice, Emit, Subscribers, PriceJob
  <2>3. emitted' = emitted \cup {w} /\ UNCHANGED <<history, dropped>>
    BY <1>5 DEF AnnouncePrice
  <2>4. NotYetEmitted'
    BY <1>5, <2>3 DEF AnnouncePrice, AccountInv, NotYetEmitted
  <2>5. PriceJobsEmitted' /\ HistoryIsEmitted'
    BY <2>2, <2>3 DEF AccountInv, PriceJobsEmitted, HistoryIsEmitted, Job, PriceJob
  <2>6. PriceJob(w) \notin dropped /\ ~Recorded("HistoryPriceUpdated", w)
    BY <2>1 DEF AccountInv, PriceJobsEmitted, HistoryIsEmitted, Job, PriceJob, Recorded
  <2>7. \A x : Recorded("HistoryPriceUpdated", x)' <=> Recorded("HistoryPriceUpdated", x)
    BY <2>3 DEF Recorded
  <2>8. \A x \in emitted' : Settled("HistoryPriceUpdated", x)'
    <3> TAKE x \in emitted'
    <3>1. CASE x = w
      BY <2>2, <2>3, <2>6, <2>7, <3>1 DEF Settled, PriceJob
    <3>2. CASE x # w
      <4>1. x \in emitted
        BY <2>3, <3>2
      <4>2. PriceJob(x) \in jobs' <=> PriceJob(x) \in jobs
        BY <2>2, <3>2 DEF PriceJob, Job
      <4> QED
        BY <2>3, <2>7, <4>1, <4>2 DEF AccountInv, PriceHistoryAccounting, Settled, PriceJob
    <3> QED
      BY <3>1, <3>2
  <2> QED
    BY <2>3, <2>4, <2>5, <2>8 DEF AccountInv, PriceHistoryAccounting
<1>6. ASSUME NEW e \in pushing, StoreAnalytic(e)
      PROVE  AccountInv'
  BY <1>6, AccountsKept DEF StoreAnalytic, AccountInv, NotYetEmitted
<1>7. ASSUME NEW j \in jobs, RecordHistory(j)
      PROVE  AccountInv'
  <2>1. j.handler = "HistoryPriceUpdated"
    BY <1>7, Validation DEF RecordHistory
  <2>2. j \in AllJobs /\ j = PriceJob(j.about)
    BY <2>1, JobIsPair DEF PriceJob, Typed, TypeOK
  <2>3. j.about \in emitted
    BY <2>1 DEF AccountInv, PriceJobsEmitted
  <2>4. ~Recorded("HistoryPriceUpdated", j.about) /\ j \notin dropped
    BY <2>2, <2>3 DEF AccountInv, PriceHistoryAccounting, Settled, PriceJob
  <2>5. /\ history' = Append(history, j) /\ jobs' = jobs \ {j}
        /\ UNCHANGED <<answering, dropped, emitted>>
    BY <1>7 DEF RecordHistory
  <2>6. /\ DOMAIN history = 1..Len(history) /\ DOMAIN history' = 1..(Len(history) + 1)
        /\ \A i \in 1..Len(history) : history'[i] = history[i]
        /\ history'[Len(history) + 1] = j
        /\ Len(history) \in Nat
    BY <2>2, <2>5, AppendFacts DEF Typed, TypeOK
  <2>7. \A x : Recorded("HistoryPriceUpdated", x)'
                 <=> Recorded("HistoryPriceUpdated", x) \/ PriceJob(x) = j
    BY <2>6 DEF Recorded, PriceJob
  <2>8. NotYetEmitted' /\ PriceJobsEmitted'
    BY <2>5 DEF AccountInv, NotYetEmitted, PriceJobsEmitted
  <2>9. HistoryIsEmitted'
    BY <2>1, <2>3, <2>5, <2>6 DEF AccountInv, HistoryIsEmitted
  <2>10. \A x \in emitted' : Settled("HistoryPriceUpdated", x)'
    BY <2>4, <2>5, <2>7 DEF AccountInv, PriceHistoryAccounting, Settled, PriceJob
  <2>11. \A i \in DOMAIN history : history[i] # j
    BY <2>2, <2>4 DEF Recorded, PriceJob
  <2>12. \A i, k \in DOMAIN history' : history'[i] = history'[k] => i = k
    BY <2>6, <2>11 DEF AccountInv, PriceHistoryAccounting
  <2> QED
    BY <2>8, <2>9, <2>10, <2>12 DEF AccountInv, PriceHistoryAccounting, HistoryIsEmitted
<1>8. ASSUME NEW j \in jobs, FetchImage(j)
      PROVE  AccountInv'
  BY <1>8, AccountsKept DEF FetchImage, Job, PriceJob, AccountInv, NotYetEmitted
<1>9. ASSUME NEW j \in jobs,
             UpdateThumbnail(j) \/ IncreaseViewCount(j) \/ IndexPrice(j)
      PROVE  AccountInv'
  BY <1>9, AccountsKept DEF UpdateThumbnail, IncreaseViewCount, IndexPrice, Job, PriceJob,
                            AccountInv, NotYetEmitted
<1>10. ASSUME NEW j \in jobs, RefuseRecord(j)
       PROVE  AccountInv'
  <2>1. j.handler # "HistoryPriceUpdated"
    BY <1>10, Validation DEF RefuseRecord
  <2> QED
    BY <1>10, <2>1, AccountsKept DEF RefuseRecord, Job, PriceJob, AccountInv, NotYetEmitted
<1>11. ASSUME NEW j \in jobs, RejectJob(j)
       PROVE  AccountInv'
  <2>1. j = Job(j.handler, j.about)
    BY JobIsPair DEF Typed, TypeOK
  <2>2. /\ jobs' = jobs \ {j} /\ dropped' = dropped \cup {j}
        /\ UNCHANGED <<answering, history, emitted>>
    BY <1>11 DEF RejectJob
  <2>3. NotYetEmitted' /\ PriceJobsEmitted' /\ HistoryIsEmitted'
    BY <2>2 DEF AccountInv, NotYetEmitted, PriceJobsEmitted, HistoryIsEmitted
  <2>4. \A x : Recorded("HistoryPriceUpdated", x)' <=> Recorded("HistoryPriceUpdated", x)
    BY <2>2 DEF Recorded
  <2>5. PriceHistoryAccounting'
    BY <2>2, <2>4 DEF AccountInv, PriceHistoryAccounting, Settled
  <2> QED
    BY <2>3, <2>5 DEF AccountInv
<1>12. CASE Exit
  <2>1. /\ jobs' = {} /\ dropped' = dropped \cup jobs /\ answering' = {}
        /\ UNCHANGED <<history, emitted>>
    BY <1>12 DEF Exit
  <2>2. NotYetEmitted' /\ PriceJobsEmitted' /\ HistoryIsEmitted'
    BY <2>1 DEF AccountInv, NotYetEmitted, PriceJobsEmitted, HistoryIsEmitted
  <2>3. \A x : Recorded("HistoryPriceUpdated", x)' <=> Recorded("HistoryPriceUpdated", x)
    BY <2>1 DEF Recorded
  <2>4. PriceHistoryAccounting'
    BY <2>1, <2>3 DEF AccountInv, PriceHistoryAccounting, Settled
  <2> QED
    BY <2>2, <2>4 DEF AccountInv
<1>13. CASE UNCHANGED catalogueVars
  BY <1>13, AccountsKept DEF catalogueVars, AccountInv, NotYetEmitted
<1> QED
  BY <1>1, <1>2, <1>3, <1>4, <1>5, <1>6, <1>7, <1>8, <1>9, <1>10, <1>11, <1>12, <1>13
  DEF Next, ClientStep, ServerStep, HandlerStep

\* Every price change whose event went out is being recorded, recorded once,
\* or was dropped by a failure or an exit, and nothing else is in the history.
THEOREM PriceHistoryBalanced == Spec => []PriceHistoryAccounting
<1>1. AccountInv => PriceHistoryAccounting
  BY DEF AccountInv
<1> QED
  BY <1>1, TypedInit, TypedStep, AccountInit, AccountStep, PTL DEF Spec

-----------------------------------------------------------------------------
(* What the property chooses, as relations: the position of the last write   *)
(* of an NFT's price and of its last record.  That there is one is part of   *)
(* the invariant.                                                            *)

IsLastWrite(n, i) ==
    /\ i \in DOMAIN writes /\ writes[i].nft = n
    /\ \A k \in DOMAIN writes : writes[k].nft = n => k <= i

IsLastRecord(n, i) ==
    /\ i \in DOMAIN history
    /\ history[i].handler = "HistoryPriceUpdated" /\ history[i].about.nft = n
    /\ \A k \in DOMAIN history :
         (history[k].handler = "HistoryPriceUpdated" /\ history[k].about.nft = n) => k <= i

\* A write whose record may still be inserted.
Outstanding(w) == w \in answering \/ PriceJob(w) \in jobs

HasLastWrite == \A w \in Written : \E i \in DOMAIN writes : IsLastWrite(w.nft, i)

LastWriteHolds ==
    \A i \in DOMAIN writes : \A n \in Nft :
       IsLastWrite(n, i) => n \in Stored /\ writes[i].price = nfts[n].price

\* Of an NFT whose last change overtook nothing, only that change is outstanding.
OnlyLastOutstanding ==
    \A i \in DOMAIN writes : \A n \in Nft \ racing :
       IsLastWrite(n, i) =>
          \A w \in Written : w.nft = n /\ Outstanding(w) => w = writes[i]

RecordedLast ==
    \A i \in DOMAIN writes : \A n \in Nft \ racing :
       IsLastWrite(n, i) /\ Recorded("HistoryPriceUpdated", writes[i]) =>
          \E k \in DOMAIN history : IsLastRecord(n, k) /\ history[k].about = writes[i]

EndInv == HasLastWrite /\ LastWriteHolds /\ OnlyLastOutstanding /\ RecordedLast

LEMMA EndInit == Init => EndInv
BY DEF Init, EndInv, HasLastWrite, LastWriteHolds, OnlyLastOutstanding, RecordedLast, Written

\* The order of positions makes the last one unique, so that the property's
\* CHOOSE picks the one the invariant speaks of.
LEMMA LastWriteIsThat ==
    ASSUME Typed, NEW n, NEW i \in DOMAIN writes, IsLastWrite(n, i)
    PROVE  LastWrite(n) = writes[i]
<1>1. DOMAIN writes = 1..Len(writes) /\ Len(writes) \in Nat
  BY LenProperties DEF Typed, TypeOK
<1>2. \A k \in DOMAIN writes : IsLastWrite(n, k) => k = i
  BY <1>1 DEF IsLastWrite
<1>3. i = CHOOSE k \in DOMAIN writes :
             /\ writes[k].nft = n
             /\ \A l \in DOMAIN writes : writes[l].nft = n => l <= k
  BY <1>2 DEF IsLastWrite
<1> QED
  BY <1>3 DEF LastWrite

LEMMA LastRecordIsThat ==
    ASSUME Typed, NEW n, NEW i \in DOMAIN history, IsLastRecord(n, i)
    PROVE  LastRecorded(n) = history[i].about
<1>1. DOMAIN history = 1..Len(history) /\ Len(history) \in Nat
  BY LenProperties DEF Typed, TypeOK
<1>2. \A k \in DOMAIN history : IsLastRecord(n, k) => k = i
  BY <1>1 DEF IsLastRecord
<1>3. i = CHOOSE k \in DOMAIN history :
             /\ history[k].handler = "HistoryPriceUpdated" /\ history[k].about.nft = n
             /\ \A l \in DOMAIN history :
                  (history[l].handler = "HistoryPriceUpdated" /\ history[l].about.nft = n)
                     => l <= k
  BY <1>2 DEF IsLastRecord
<1> QED
  BY <1>3 DEF LastRecorded

LEMMA EndInvImplies == Typed /\ EndInv => HistoryEndsAtPrice
<1> SUFFICES ASSUME Typed, EndInv, NEW n \in Stored \ racing, NEW w \in Written, w.nft = n
             PROVE  /\ LastWrite(n).price = nfts[n].price
                    /\ Recorded("HistoryPriceUpdated", LastWrite(n))
                         => LastRecorded(n) = LastWrite(n)
  BY DEF HistoryEndsAtPrice
<1>1. n \in Nft
  BY DEF Stored
<1>2. PICK i \in DOMAIN writes : IsLastWrite(n, i)
  BY DEF EndInv, HasLastWrite
<1>3. LastWrite(n) = writes[i]
  BY <1>2, LastWriteIsThat
<1>4. LastWrite(n).price = nfts[n].price
  BY <1>1, <1>2, <1>3 DEF EndInv, LastWriteHolds
<1>5. ASSUME Recorded("HistoryPriceUpdated", LastWrite(n))
      PROVE  LastRecorded(n) = LastWrite(n)
  <2>1. PICK k \in DOMAIN history : IsLastRecord(n, k) /\ history[k].about = writes[i]
    BY <1>1, <1>2, <1>3, <1>5 DEF EndInv, RecordedLast
  <2> QED
    BY <1>3, <2>1, LastRecordIsThat
<1> QED
  BY <1>4, <1>5

-----------------------------------------------------------------------------
(* Steps *)

\* Nothing is written or recorded, no price of a stored NFT changes, and no
\* write becomes outstanding.
LEMMA EndKept ==
    ASSUME EndInv, UNCHANGED <<writes, history, racing>>,
           \A w \in Written : Outstanding(w)' => Outstanding(w),
           \A n \in Stored : n \in Stored' /\ nfts'[n].price = nfts[n].price
    PROVE  EndInv'
<1>1. \A n, i : IsLastWrite(n, i)' <=> IsLastWrite(n, i)
  BY DEF IsLastWrite
<1>2. \A n, i : IsLastRecord(n, i)' <=> IsLastRecord(n, i)
  BY DEF IsLastRecord
<1>3. Written' = Written /\ \A w : Recorded("HistoryPriceUpdated", w)'
                                     <=> Recorded("HistoryPriceUpdated", w)
  BY DEF Written, Recorded
<1>4. HasLastWrite'
  BY <1>1, <1>3 DEF EndInv, HasLastWrite
<1>5. LastWriteHolds'
  BY <1>1 DEF EndInv, LastWriteHolds
<1>6. OnlyLastOutstanding'
  BY <1>1, <1>3 DEF EndInv, OnlyLastOutstanding
<1>7. RecordedLast'
  BY <1>1, <1>2, <1>3 DEF EndInv, RecordedLast
<1> QED
  BY <1>4, <1>5, <1>6, <1>7 DEF EndInv

\* A write is the last of its NFT; what was outstanding of an NFT that is then
\* not racing is nothing.
LEMMA EndWrite ==
    ASSUME Typed, Typed', AccountInv, EndInv,
           NEW r \in Request, NEW n \in Nft, NEW p \in Price, UpdateNftFixedPrice(r, n, p)
    PROVE  EndInv'
<1> DEFINE w == [id |-> r, nft |-> n, price |-> p]
<1>0. PICK last : last = Len(writes) + 1
  OBVIOUS
<1>1. w \in PriceWrite /\ writes \in Seq(PriceWrite) /\ writes' = Append(writes, w)
  BY DEF UpdateNftFixedPrice, PriceWrite, Typed, TypeOK
<1>2. /\ DOMAIN writes = 1..Len(writes) /\ DOMAIN writes' = 1..last /\ Len(writes) \in Nat
      /\ \A i \in 1..Len(writes) : writes'[i] = writes[i]
      /\ writes'[last] = w /\ last = Len(writes) + 1
  BY <1>0, <1>1, AppendFacts
<1>3. Written' = Written \cup {w}
  BY <1>1, <1>2 DEF Written
<1>4. w \notin Written
  BY DEF UpdateNftFixedPrice, UsedRequests, Written
<1>5. IsLastWrite(n, last)' /\ \A i : IsLastWrite(n, i)' => i = last
  BY <1>2 DEF IsLastWrite
<1>6. ASSUME NEW m, m # n, NEW i PROVE IsLastWrite(m, i)' <=> IsLastWrite(m, i)
  BY <1>2, <1>6 DEF IsLastWrite
<1>7. /\ UNCHANGED <<history, jobs, emitted>> /\ answering' = answering \cup {w}
      /\ racing' = IF InFlight(n) THEN racing \cup {n} ELSE racing \ {n}
  BY DEF UpdateNftFixedPrice
<1>8. \A x : Outstanding(x)' <=> Outstanding(x) \/ x = w
  BY <1>7 DEF Outstanding
<1>9. HasLastWrite'
  <2> SUFFICES ASSUME NEW v \in Written' PROVE \E i \in DOMAIN writes' : IsLastWrite(v.nft, i)'
    BY DEF HasLastWrite
  <2>1. CASE v.nft = n
    BY <1>2, <1>5, <2>1
  <2>2. CASE v.nft # n
    <3>1. PICK i \in DOMAIN writes : IsLastWrite(v.nft, i)
      BY <1>3, <2>2 DEF EndInv, HasLastWrite
    <3> QED
      BY <1>2, <1>6, <2>2, <3>1
  <2> QED
    BY <2>1, <2>2
<1>10. nfts[n] \in NftDoc /\ nfts' = [nfts EXCEPT ![n] = [nfts[n] EXCEPT !.price = p]]
  BY DEF UpdateNftFixedPrice, HasFixedPrice, Typed, TypeOK
<1>11. n \in Stored' /\ nfts'[n].price = p
  <2>1. [nfts[n] EXCEPT !.price = p] \in NftDoc
    BY <1>10, DocUpdates DEF UpdateNftFixedPrice, HasFixedPrice
  <2>2. nfts'[n] = [nfts[n] EXCEPT !.price = p]
    BY <1>10 DEF Typed, TypeOK
  <2> QED
    BY <1>10, <2>1, <2>2, DocIsNotAbsent DEF Stored, NftDoc
<1>12. \A m \in Nft \ {n} : nfts'[m] = nfts[m]
  BY <1>10 DEF Typed, TypeOK
<1>13. LastWriteHolds'
  <2> SUFFICES ASSUME NEW i \in DOMAIN writes', NEW m \in Nft, IsLastWrite(m, i)'
               PROVE  m \in Stored' /\ writes'[i].price = nfts'[m].price
    BY DEF LastWriteHolds
  <2>1. CASE m = n
    BY <1>2, <1>5, <1>11, <2>1
  <2>2. CASE m # n
    <3>1. IsLastWrite(m, i)
      BY <1>6, <2>2
    <3>2. i \in DOMAIN writes
      BY <3>1 DEF IsLastWrite
    <3>3. m \in Stored /\ writes[i].price = nfts[m].price
      BY <3>1, <3>2 DEF EndInv, LastWriteHolds
    <3> QED
      BY <1>2, <1>12, <2>2, <3>2, <3>3 DEF Stored
  <2> QED
    BY <2>1, <2>2
<1>14. \A m \in Nft \ racing' : m # n => m \notin racing
  BY <1>7
<1>15. OnlyLastOutstanding'
  <2> SUFFICES ASSUME NEW i \in DOMAIN writes', NEW m \in Nft \ racing', IsLastWrite(m, i)',
                      NEW v \in Written', v.nft = m, Outstanding(v)'
               PROVE  v = writes'[i]
    BY DEF OnlyLastOutstanding
  <2>1. CASE m = n
    <3>1. ~InFlight(n)
      BY <1>7, <2>1
    <3>2. v \notin Written \/ ~Outstanding(v)
      BY <2>1, <3>1 DEF InFlight, Outstanding, Subscribers, PriceJob
    <3> QED
      BY <1>2, <1>3, <1>5, <1>8, <2>1, <3>2
  <2>2. CASE m # n
    <3>1. IsLastWrite(m, i) /\ m \notin racing
      BY <1>6, <1>14, <2>2
    <3>2. i \in DOMAIN writes
      BY <3>1 DEF IsLastWrite
    <3>3. v # w
      BY <2>2
    <3> QED
      BY <1>2, <1>3, <1>8, <3>1, <3>2, <3>3 DEF EndInv, OnlyLastOutstanding
  <2> QED
    BY <2>1, <2>2
<1>16. RecordedLast'
  <2> SUFFICES ASSUME NEW i \in DOMAIN writes', NEW m \in Nft \ racing', IsLastWrite(m, i)',
                      Recorded("HistoryPriceUpdated", writes[i])'
               PROVE  \E k \in DOMAIN history' :
                         IsLastRecord(m, k)' /\ history'[k].about = writes'[i]
    BY DEF RecordedLast
  <2>1. m # n
    <3>1. ~Recorded("HistoryPriceUpdated", w)
      BY <1>4 DEF AccountInv, HistoryIsEmitted, Typed, TypeOK, Recorded, Job
    <3> QED
      BY <1>2, <1>5, <1>7, <3>1 DEF Recorded
  <2>2. IsLastWrite(m, i) /\ m \notin racing
    BY <1>6, <1>14, <2>1
  <2>3. i \in DOMAIN writes
    BY <2>2 DEF IsLastWrite
  <2>4. Recorded("HistoryPriceUpdated", writes[i])
    BY <1>2, <1>7, <2>3 DEF Recorded
  <2>5. PICK k \in DOMAIN history : IsLastRecord(m, k) /\ history[k].about = writes[i]
    BY <2>2, <2>3, <2>4 DEF EndInv, RecordedLast
  <2>6. IsLastRecord(m, k)'
    BY <1>7, <2>5 DEF IsLastRecord
  <2> QED
    BY <1>2, <1>7, <2>3, <2>5, <2>6
<1> QED
  BY <1>9, <1>13, <1>15, <1>16 DEF EndInv

\* A record is the last of its NFT; if the NFT is not racing, it is the record
\* of the last write.
LEMMA EndRecord ==
    ASSUME Typed, AccountInv, EndInv, NEW j \in jobs, RecordHistory(j)
    PROVE  EndInv'
<1> DEFINE v == j.about
<1>0. PICK last : last = Len(history) + 1
  OBVIOUS
<1>1. j.handler = "HistoryPriceUpdated"
  BY Validation DEF RecordHistory
<1>2. j \in AllJobs /\ j = PriceJob(v)
  BY <1>1, JobIsPair DEF PriceJob, Typed, TypeOK
<1>3. v \in Written /\ Outstanding(v)
  BY <1>1, <1>2 DEF AccountInv, PriceJobsEmitted, Typed, TypeOK, Outstanding
<1>4. /\ history' = Append(history, j) /\ jobs' = jobs \ {j}
      /\ UNCHANGED <<nfts, answering, writes, racing>>
  BY DEF RecordHistory
<1>5. /\ DOMAIN history = 1..Len(history) /\ DOMAIN history' = 1..last /\ Len(history) \in Nat
      /\ \A i \in 1..Len(history) : history'[i] = history[i]
      /\ history'[last] = j /\ last = Len(history) + 1
  BY <1>0, <1>2, <1>4, AppendFacts DEF Typed, TypeOK
<1>6. Written' = Written /\ Stored' = Stored
  BY <1>4 DEF Written, Stored
<1>7. \A n, i : IsLastWrite(n, i)' <=> IsLastWrite(n, i)
  BY <1>4 DEF IsLastWrite
<1>8. HasLastWrite' /\ LastWriteHolds'
  BY <1>4, <1>6, <1>7 DEF EndInv, HasLastWrite, LastWriteHolds
<1>9. OnlyLastOutstanding'
  <2>1. \A w : Outstanding(w)' => Outstanding(w)
    BY <1>4 DEF Outstanding
  <2> QED
    BY <1>4, <1>6, <1>7, <2>1 DEF EndInv, OnlyLastOutstanding
<1>10. RecordedLast'
  <2> SUFFICES ASSUME NEW i \in DOMAIN writes, NEW n \in Nft \ racing, IsLastWrite(n, i),
                      Recorded("HistoryPriceUpdated", writes[i])'
               PROVE  \E k \in DOMAIN history' :
                         IsLastRecord(n, k)' /\ history'[k].about = writes[i]
    BY <1>4, <1>7 DEF RecordedLast
  <2>1. CASE v.nft = n
    <3>1. v = writes[i]
      BY <1>3, <2>1 DEF EndInv, OnlyLastOutstanding
    <3>2. IsLastRecord(n, last)'
      BY <1>1, <1>5, <2>1 DEF IsLastRecord
    <3> QED
      BY <1>5, <3>1, <3>2
  <2>2. CASE v.nft # n
    <3>1. PriceJob(writes[i]) # j
      BY <2>2 DEF PriceJob, Job, IsLastWrite
    <3>2. Recorded("HistoryPriceUpdated", writes[i])
      BY <1>4, <1>5, <3>1 DEF Recorded, PriceJob
    <3>3. PICK k \in DOMAIN history : IsLastRecord(n, k) /\ history[k].about = writes[i]
      BY <3>2 DEF EndInv, RecordedLast
    <3>4. IsLastRecord(n, k)'
      BY <1>5, <2>2, <3>3 DEF IsLastRecord
    <3> QED
      BY <1>5, <3>3, <3>4
  <2> QED
    BY <2>1, <2>2
<1> QED
  BY <1>8, <1>9, <1>10 DEF EndInv

LEMMA EndStep == Typed /\ AccountInv /\ EndInv /\ [Next]_catalogueVars => EndInv'
<1> SUFFICES ASSUME Typed, AccountInv, EndInv, [Next]_catalogueVars
             PROVE  EndInv'
  OBVIOUS
<1>0. Typed'
  BY TypedStep
<1>1. ASSUME NEW n \in Nft, NEW k \in SaleKind, NEW p \in Price \cup {NoPrice},
             CreateNft(n, k, p)
      PROVE  EndInv'
  <2>1. \A m \in Stored : m \in Stored' /\ nfts'[m].price = nfts[m].price
    BY <1>1 DEF CreateNft, Stored, Typed, TypeOK
  <2> QED
    BY <1>1, <2>1, EndKept DEF CreateNft, Outstanding
<1>2. ASSUME NEW r \in Request, NEW n \in Nft, NEW p \in Price, UpdateNftFixedPrice(r, n, p)
      PROVE  EndInv'
  BY <1>0, <1>2, EndWrite
<1>3. ASSUME NEW v \in View, NEW n \in Nft, PushEvent(v, n)
      PROVE  EndInv'
  BY <1>3, EndKept DEF PushEvent, Outstanding, PriceJob, Job, Stored
<1>4. ASSUME NEW n \in creating, AnnounceNft(n)
      PROVE  EndInv'
  BY <1>4, EndKept DEF AnnounceNft, Emit, Subscribers, Outstanding, PriceJob, Job, Stored
<1>5. ASSUME NEW w \in answering, AnnouncePrice(w)
      PROVE  EndInv'
  BY <1>5, EndKept DEF AnnouncePrice, Emit, Subscribers, Outstanding, PriceJob, Job, Stored
<1>6. ASSUME NEW e \in pushing, StoreAnalytic(e)
      PROVE  EndInv'
  BY <1>6, EndKept DEF StoreAnalytic, Outstanding, Stored
<1>7. ASSUME NEW j \in jobs, RecordHistory(j)
      PROVE  EndInv'
  BY <1>7, EndRecord
<1>8. ASSUME NEW j \in jobs, FetchImage(j)
      PROVE  EndInv'
  BY <1>8, EndKept DEF FetchImage, Outstanding, PriceJob, Job, Stored
<1>9. ASSUME NEW j \in jobs, UpdateThumbnail(j)
      PROVE  EndInv'
  <2>1. j.about \in Nft /\ nfts[j.about] \in NftDoc
    BY <1>9, StoredIsDoc DEF UpdateThumbnail, Typed, TypeOK, JobsAboutStored, CreationHandler,
                             Stored
  <2>2. [nfts[j.about] EXCEPT !.thumbnail = "stored"] # Absent
    BY <2>1, DocUpdates, DocIsNotAbsent
  <2>3. nfts' = [nfts EXCEPT ![j.about] = [nfts[j.about] EXCEPT !.thumbnail = "stored"]]
    BY <1>9 DEF UpdateThumbnail
  <2>4. \A m \in Stored : m \in Stored' /\ nfts'[m].price = nfts[m].price
    BY <2>1, <2>2, <2>3 DEF Stored, Typed, TypeOK, NftDoc
  <2> QED
    BY <1>9, <2>4, EndKept DEF UpdateThumbnail, Outstanding
<1>10. ASSUME NEW j \in jobs, IncreaseViewCount(j)
       PROVE  EndInv'
  <2> DEFINE n == j.about.nft
  <2>1. n \in Nft
    BY <1>10 DEF IncreaseViewCount, Typed, TypeOK, AllJobs, ScreenEvent
  <2>2. \A m \in Stored : m \in Stored' /\ nfts'[m].price = nfts[m].price
    <3>1. CASE nfts[n] = Absent
      BY <1>10, <3>1 DEF IncreaseViewCount, Stored
    <3>2. CASE nfts[n] # Absent
      <4>1. nfts[n] \in NftDoc
        BY <2>1, <3>2 DEF Typed, TypeOK
      <4>2. [nfts[n] EXCEPT !.viewCount = @ + 1] # Absent
        BY <4>1, DocUpdates, DocIsNotAbsent
      <4>3. nfts' = [nfts EXCEPT ![n] = [nfts[n] EXCEPT !.viewCount = @ + 1]]
        BY <1>10, <3>2 DEF IncreaseViewCount
      <4> QED
        BY <2>1, <4>1, <4>2, <4>3 DEF Stored, Typed, TypeOK, NftDoc
    <3> QED
      BY <3>1, <3>2
  <2> QED
    BY <1>10, <2>2, EndKept DEF IncreaseViewCount, Outstanding
<1>11. ASSUME NEW j \in jobs, IndexPrice(j) \/ RefuseRecord(j) \/ RejectJob(j)
       PROVE  EndInv'
  BY <1>11, EndKept DEF IndexPrice, RefuseRecord, RejectJob, Outstanding, Stored
<1>12. CASE Exit
  BY <1>12, EndKept DEF Exit, Outstanding, Stored
<1>13. CASE UNCHANGED catalogueVars
  BY <1>13, EndKept DEF catalogueVars, Outstanding, Stored
<1> QED
  BY <1>1, <1>2, <1>3, <1>4, <1>5, <1>6, <1>7, <1>8, <1>9, <1>10, <1>11, <1>12, <1>13
  DEF Next, ClientStep, ServerStep, HandlerStep

\* In whatever order the handlers of price changes finish, the price history of
\* an NFT ends at the price it has, unless its last change overtook another.
THEOREM HistoryEndsAtThePrice == Spec => []HistoryEndsAtPrice
<1>1. Typed /\ AccountInv /\ EndInv /\ [Next]_catalogueVars
        => (Typed /\ AccountInv /\ EndInv)'
  BY TypedStep, AccountStep, EndStep
<1> QED
  BY <1>1, TypedInit, AccountInit, EndInit, EndInvImplies, PTL DEF Spec

-----------------------------------------------------------------------------
(* The counts of views.  A counter is started once for a screen event, and   *)
(* one that was dropped is not running any more.                             *)

ViewJob(e) == Job("IncreaseViewCount", e)

Seen(n) == {e \in pushed : e.nft = n}
Uncounted(n) == {e \in pushed : e.nft = n /\ ViewJob(e) \in jobs \cup dropped}

ViewJobsPushed ==
    \A j \in jobs \cup dropped : j.handler = "IncreaseViewCount" => j.about \in pushed

ViewJobsOnce == \A j \in jobs : j.handler = "IncreaseViewCount" => j \notin dropped

ViewInv == IsFiniteSet(pushed) /\ ViewJobsPushed /\ ViewJobsOnce /\ ViewsCountedOnce

\* The counts are those of finite sets.
LEMMA CountsAreNumbers ==
    ASSUME IsFiniteSet(pushed), NEW n
    PROVE  /\ IsFiniteSet(Seen(n)) /\ Cardinality(Seen(n)) \in Nat
           /\ IsFiniteSet(Uncounted(n)) /\ Cardinality(Uncounted(n)) \in Nat
           /\ Cardinality(Uncounted(n)) <= Cardinality(Seen(n))
<1>1. Seen(n) \in SUBSET pushed /\ Uncounted(n) \in SUBSET Seen(n)
  BY DEF Seen, Uncounted
<1>2. IsFiniteSet(Seen(n))
  BY <1>1, FS_Subset
<1>3. IsFiniteSet(Uncounted(n)) /\ Cardinality(Uncounted(n)) <= Cardinality(Seen(n))
  BY <1>1, <1>2, FS_Subset
<1> QED
  BY <1>2, <1>3, FS_CardinalityType

LEMMA ViewsCounted ==
    ViewsCountedOnce
      <=> \A n \in Stored : nfts[n].viewCount + Cardinality(Uncounted(n)) <= Cardinality(Seen(n))
BY DEF ViewsCountedOnce, Uncounted, Seen, ViewJob

LEMMA ViewInit == Init => ViewInv
BY FS_EmptySet DEF Init, ViewInv, ViewJobsPushed, ViewJobsOnce, ViewsCountedOnce, Stored

\* No event comes in and no count changes: counters may be started only for NFTs
\* that count nothing yet, and none that was finished comes back.
LEMMA ViewsKept ==
    ASSUME Typed', ViewInv, UNCHANGED pushed,
           \A j \in jobs' : j.handler = "IncreaseViewCount" => j \in jobs \ dropped',
           \A j \in dropped' : j.handler = "IncreaseViewCount" => j \in jobs \cup dropped,
           \A n \in Stored' : \/ n \in Stored /\ nfts'[n].viewCount = nfts[n].viewCount
                              \/ nfts'[n].viewCount = 0
    PROVE  ViewInv'
<1>1. IsFiniteSet(pushed) /\ IsFiniteSet(pushed')
  BY DEF ViewInv
<1>2. ViewJobsPushed' /\ ViewJobsOnce'
  BY DEF ViewInv, ViewJobsPushed, ViewJobsOnce
<1>3. ASSUME NEW n \in Stored'
      PROVE  nfts'[n].viewCount + Cardinality(Uncounted(n)') <= Cardinality(Seen(n)')
  <2>1. Uncounted(n)' \subseteq Uncounted(n) /\ Seen(n)' = Seen(n)
    BY DEF Uncounted, Seen, ViewJob, Job
  <2>2. Cardinality(Uncounted(n)') <= Cardinality(Uncounted(n))
    BY <1>1, <2>1, CountsAreNumbers, FS_Subset
  <2>3. /\ Cardinality(Uncounted(n)') \in Nat /\ Cardinality(Uncounted(n)) \in Nat
        /\ Cardinality(Seen(n)) \in Nat
        /\ Cardinality(Uncounted(n)) <= Cardinality(Seen(n))
    <3>1. IsFiniteSet(Uncounted(n)')
      BY <1>1, <2>1, CountsAreNumbers, FS_Subset
    <3> QED
      BY <1>1, <3>1, CountsAreNumbers, FS_CardinalityType
  <2>4. nfts'[n].viewCount \in Nat
    BY DocIsNotAbsent DEF Typed, TypeOK, Stored, NftDoc
  <2>5. CASE n \in Stored /\ nfts'[n].viewCount = nfts[n].viewCount
    BY <2>1, <2>2, <2>3, <2>4, <2>5, ViewsCounted DEF ViewInv
  <2>6. CASE nfts'[n].viewCount = 0
    BY <2>1, <2>2, <2>3, <2>6
  <2> QED
    BY <2>5, <2>6
<1>4. ViewsCountedOnce'
  BY <1>3 DEF ViewsCountedOnce, Uncounted, Seen, ViewJob
<1> QED
  BY <1>1, <1>2, <1>4 DEF ViewInv

\* An event comes in and its counter is started: one more is seen, one more not
\* yet counted.
LEMMA ViewPushed ==
    ASSUME Typed, ViewInv, NEW v \in View, NEW n \in Nft, PushEvent(v, n)
    PROVE  ViewInv'
<1> DEFINE e == [id |-> v, nft |-> n]
<1>1. e \notin pushed /\ e.nft = n
  BY DEF PushEvent
<1>2. /\ pushed' = pushed \cup {e} /\ jobs' = jobs \cup {ViewJob(e)}
      /\ UNCHANGED <<nfts, dropped>>
  BY DEF PushEvent, ViewJob
<1>3. ViewJob(e) \notin jobs \cup dropped
  BY <1>1 DEF ViewInv, ViewJobsPushed, ViewJob, Job
<1>4. ViewJobsPushed' /\ ViewJobsOnce'
  BY <1>2, <1>3 DEF ViewInv, ViewJobsPushed, ViewJobsOnce, ViewJob, Job
<1>5. IsFiniteSet(pushed) /\ IsFiniteSet(pushed')
  BY <1>2, FS_AddElement DEF ViewInv
<1>6. ASSUME NEW m \in Stored'
      PROVE  nfts'[m].viewCount + Cardinality(Uncounted(m)') <= Cardinality(Seen(m)')
  <2>1. m \in Stored /\ nfts'[m].viewCount = nfts[m].viewCount
    BY <1>2 DEF Stored
  <2>2. nfts[m].viewCount + Cardinality(Uncounted(m)) <= Cardinality(Seen(m))
    BY <2>1, ViewsCounted DEF ViewInv
  <2>3. nfts[m].viewCount \in Nat
    BY <2>1, DocIsNotAbsent DEF Typed, TypeOK, Stored, NftDoc
  <2>4. \A x \in pushed : ViewJob(x) \in (jobs \cup dropped)' <=> ViewJob(x) \in jobs \cup dropped
    BY <1>1, <1>2 DEF ViewJob, Job
  <2>5. CASE m = n
    <3>1. Seen(m)' = Seen(m) \cup {e} /\ e \notin Seen(m)
      BY <1>1, <1>2, <2>5 DEF Seen
    <3>2. Uncounted(m)' = Uncounted(m) \cup {e} /\ e \notin Uncounted(m)
      BY <1>1, <1>2, <2>4, <2>5 DEF Uncounted
    <3>3. /\ Cardinality(Seen(m)') = Cardinality(Seen(m)) + 1
          /\ Cardinality(Uncounted(m)') = Cardinality(Uncounted(m)) + 1
      BY <1>5, <3>1, <3>2, CountsAreNumbers, FS_AddElement
    <3> QED
      BY <1>5, <2>1, <2>2, <2>3, <3>3, CountsAreNumbers
  <2>6. CASE m # n
    <3>1. Seen(m)' = Seen(m)
      BY <1>1, <1>2, <2>6 DEF Seen
    <3>2. Uncounted(m)' = Uncounted(m)
      BY <1>1, <1>2, <2>4, <2>6 DEF Uncounted
    <3> QED
      BY <2>1, <2>2, <3>1, <3>2
  <2> QED
    BY <2>5, <2>6
<1>7. ViewsCountedOnce'
  BY <1>6 DEF ViewsCountedOnce, Uncounted, Seen, ViewJob
<1> QED
  BY <1>4, <1>5, <1>7 DEF ViewInv

\* A counter counts what was not counted, and cannot be dropped any more.
LEMMA ViewCounts ==
    ASSUME Typed, Typed', ViewInv, NEW j \in jobs, IncreaseViewCount(j)
    PROVE  ViewInv'
<1> DEFINE e == j.about
           n == e.nft
<1>1. j.handler = "IncreaseViewCount" /\ j = ViewJob(e)
  BY JobIsPair DEF IncreaseViewCount, ViewJob, Typed, TypeOK
<1>2. e \in pushed /\ j \notin dropped /\ n \in Nft
  BY <1>1 DEF ViewInv, ViewJobsPushed, ViewJobsOnce, Typed, TypeOK, ScreenEvent
<1>3. jobs' = jobs \ {j} /\ UNCHANGED <<pushed, dropped>>
  BY DEF IncreaseViewCount
<1>4. CASE nfts[n] = Absent
  <2>1. UNCHANGED nfts
    BY <1>4 DEF IncreaseViewCount
  <2>2. \A m \in Stored' : m \in Stored /\ nfts'[m].viewCount = nfts[m].viewCount
    BY <2>1 DEF Stored
  <2>3. \A h \in jobs' : h.handler = "IncreaseViewCount" => h \in jobs \ dropped'
    BY <1>3 DEF ViewInv, ViewJobsOnce
  <2> QED
    BY <1>3, <2>2, <2>3, ViewsKept
<1>5. CASE nfts[n] # Absent
  <2>1. nfts[n] \in NftDoc
    BY <1>2, <1>5 DEF Typed, TypeOK
  <2>2. nfts' = [nfts EXCEPT ![n] = [nfts[n] EXCEPT !.viewCount = @ + 1]]
    BY <1>5 DEF IncreaseViewCount
  <2>3. nfts'[n].viewCount = nfts[n].viewCount + 1 /\ nfts[n].viewCount \in Nat
    BY <1>2, <2>1, <2>2 DEF Typed, TypeOK, NftDoc
  <2>4. IsFiniteSet(pushed)
    BY DEF ViewInv
  <2>5. \A m : Seen(m)' = Seen(m)
    BY <1>3 DEF Seen
  <2>6. \A x \in pushed : ViewJob(x) \in (jobs \cup dropped)'
                            <=> ViewJob(x) \in jobs \cup dropped /\ x # e
    BY <1>1, <1>2, <1>3 DEF ViewJob, Job
  <2>7. ASSUME NEW m \in Stored'
        PROVE  nfts'[m].viewCount + Cardinality(Uncounted(m)') <= Cardinality(Seen(m)')
    <3>1. CASE m = n
      <4>1. n \in Stored
        BY <1>2, <1>5 DEF Stored
      <4>2. nfts[n].viewCount + Cardinality(Uncounted(n)) <= Cardinality(Seen(n))
        BY <4>1, ViewsCounted DEF ViewInv
      <4>3. Uncounted(m)' = Uncounted(n) \ {e} /\ e \in Uncounted(n)
        BY <1>1, <1>2, <1>3, <2>6, <3>1 DEF Uncounted
      <4>4. Cardinality(Uncounted(n) \ {e}) = Cardinality(Uncounted(n)) - 1
        <5>1. IsFiniteSet(Uncounted(n))
          BY <2>4, CountsAreNumbers
        <5> QED
          BY <4>3, <5>1, FS_RemoveElement
      <4> QED
        BY <2>3, <2>4, <2>5, <3>1, <4>2, <4>3, <4>4, CountsAreNumbers
    <3>2. CASE m # n
      <4>1. m \in Stored /\ nfts'[m].viewCount = nfts[m].viewCount
        BY <2>2, <3>2 DEF Stored, Typed, TypeOK
      <4>2. Uncounted(m)' = Uncounted(m)
        BY <1>3, <2>6, <3>2 DEF Uncounted
      <4> QED
        BY <2>5, <4>1, <4>2, ViewsCounted DEF ViewInv
    <3> QED
      BY <3>1, <3>2
  <2>8. ViewsCountedOnce'
    BY <2>7 DEF ViewsCountedOnce, Uncounted, Seen, ViewJob
  <2> QED
    BY <1>3, <2>4, <2>8 DEF ViewInv, ViewJobsPushed, ViewJobsOnce
<1> QED
  BY <1>4, <1>5

LEMMA ViewStep == Typed /\ ViewInv /\ [Next]_catalogueVars => ViewInv'
<1> SUFFICES ASSUME Typed, ViewInv, [Next]_catalogueVars
             PROVE  ViewInv'
  OBVIOUS
<1>0. Typed'
  BY TypedStep
<1>a. \A j \in jobs : j.handler = "IncreaseViewCount" => j \notin dropped
  BY DEF ViewInv, ViewJobsOnce
<1>1. ASSUME NEW n \in Nft, NEW k \in SaleKind, NEW p \in Price \cup {NoPrice},
             CreateNft(n, k, p)
      PROVE  ViewInv'
  <2>1. \A m \in Stored' : \/ m \in Stored /\ nfts'[m].viewCount = nfts[m].viewCount
                           \/ nfts'[m].viewCount = 0
    BY <1>1 DEF CreateNft, Stored, Typed, TypeOK
  <2> QED
    BY <1>0, <1>1, <1>a, <2>1, ViewsKept DEF CreateNft
<1>2. ASSUME NEW r \in Request, NEW n \in Nft, NEW p \in Price, UpdateNftFixedPrice(r, n, p)
      PROVE  ViewInv'
  <2>1. nfts[n] \in NftDoc /\ nfts' = [nfts EXCEPT ![n] = [nfts[n] EXCEPT !.price = p]]
    BY <1>2 DEF UpdateNftFixedPrice, HasFixedPrice, Typed, TypeOK
  <2>2. \A m \in Stored' : m \in Stored /\ nfts'[m].viewCount = nfts[m].viewCount
    BY <2>1, DocIsNotAbsent DEF Stored, Typed, TypeOK, NftDoc
  <2> QED
    BY <1>0, <1>2, <1>a, <2>2, ViewsKept DEF UpdateNftFixedPrice
<1>3. ASSUME NEW v \in View, NEW n \in Nft, PushEvent(v, n)
      PROVE  ViewInv'
  BY <1>3, ViewPushed
<1>4. ASSUME NEW n \in creating, AnnounceNft(n)
      PROVE  ViewInv'
  BY <1>0, <1>4, <1>a, ViewsKept DEF AnnounceNft, Emit, Subscribers, Job, Stored
<1>5. ASSUME NEW w \in answering, AnnouncePrice(w)
      PROVE  ViewInv'
  BY <1>0, <1>5, <1>a, ViewsKept DEF AnnouncePrice, Emit, Subscribers, Job, Stored
<1>6. ASSUME NEW e \in pushing, StoreAnalytic(e)
      PROVE  ViewInv'
  BY <1>0, <1>6, <1>a, ViewsKept DEF StoreAnalytic, Stored
<1>7. ASSUME NEW j \in jobs, RecordHistory(j)
      PROVE  ViewInv'
  BY <1>0, <1>7, <1>a, ViewsKept DEF RecordHistory, Stored
<1>8. ASSUME NEW j \in jobs, FetchImage(j)
      PROVE  ViewInv'
  BY <1>0, <1>8, <1>a, ViewsKept DEF FetchImage, Job, Stored
<1>9. ASSUME NEW j \in jobs, UpdateThumbnail(j)
      PROVE  ViewInv'
  <2>1. j.about \in Nft /\ nfts[j.about] \in NftDoc
    BY <1>9, StoredIsDoc DEF UpdateThumbnail, Typed, TypeOK, JobsAboutStored, CreationHandler,
                             Stored
  <2>2. nfts' = [nfts EXCEPT ![j.about] = [nfts[j.about] EXCEPT !.thumbnail = "stored"]]
    BY <1>9 DEF UpdateThumbnail
  <2>3. \A m \in Stored' : m \in Stored /\ nfts'[m].viewCount = nfts[m].viewCount
    BY <2>1, <2>2, DocIsNotAbsent DEF Stored, Typed, TypeOK, NftDoc
  <2> QED
    BY <1>0, <1>9, <1>a, <2>3, ViewsKept DEF UpdateThumbnail
<1>10. ASSUME NEW j \in jobs, IncreaseViewCount(j)
       PROVE  ViewInv'
  BY <1>0, <1>10, ViewCounts
<1>11. ASSUME NEW j \in jobs, IndexPrice(j) \/ RefuseRecord(j) \/ RejectJob(j)
       PROVE  ViewInv'
  BY <1>0, <1>11, <1>a, ViewsKept DEF IndexPrice, RefuseRecord, RejectJob, Stored
<1>12. CASE Exit
  BY <1>0, <1>12, <1>a, ViewsKept DEF Exit, Stored
<1>13. CASE UNCHANGED catalogueVars
  BY <1>0, <1>13, <1>a, ViewsKept DEF catalogueVars, Stored
<1> QED
  BY <1>1, <1>2, <1>3, <1>4, <1>5, <1>6, <1>7, <1>8, <1>9, <1>10, <1>11, <1>12, <1>13
  DEF Next, ClientStep, ServerStep, HandlerStep

\* However many screen events come in, and whatever becomes of their counters,
\* none counts twice in the viewCount of an NFT.
THEOREM ViewsAreCountedOnce == Spec => []ViewsCountedOnce
<1>1. ViewInv => ViewsCountedOnce
  BY DEF ViewInv
<1>2. Typed /\ ViewInv /\ [Next]_catalogueVars => (Typed /\ ViewInv)'
  BY TypedStep, ViewStep
<1> QED
  BY <1>1, <1>2, TypedInit, ViewInit, PTL DEF Spec
=============================================================================
