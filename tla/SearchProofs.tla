----------------------------- MODULE SearchProofs -----------------------------
(***************************************************************************)
(* The search index beside the catalogue: that it disturbs nothing of it,  *)
(* what the index shows, what a rebuild that was not disturbed leaves      *)
(* behind, and that a quiet index agrees with the catalogue.  For any      *)
(* number of NFTs, requests and concurrent calls of deleteAndReindexAll,   *)
(* any faults and pages of any size.                                       *)
(***************************************************************************)
EXTENDS SearchIndex, CatalogueProofs

-----------------------------------------------------------------------------
(* The catalogue is not disturbed by the index built beside it.              *)

LEMMA SearchStepIsCatalogueStep == [SearchNext]_vars => [Next]_catalogueVars
<1> SUFFICES ASSUME [SearchNext]_vars PROVE [Next]_catalogueVars
  OBVIOUS
<1>1. CASE CatalogueStep
  BY <1>1 DEF CatalogueStep, Next, ClientStep
<1>2. ASSUME NEW r \in Request, NEW n \in Nft, NEW p \in Price, ChangePrice(r, n, p)
      PROVE  Next
  BY <1>2 DEF ChangePrice, Next, ClientStep
<1>3. ASSUME NEW j \in jobs, ApplyPrice(j) \/ RefusePrice(j)
      PROVE  Next
  BY <1>3 DEF ApplyPrice, RefusePrice, Next
<1>4. ASSUME NEW x \in Reindexer, ReindexStep(x) \/ AbortReindex(x)
      PROVE  UNCHANGED catalogueVars
  BY <1>4 DEF ReindexStep, DeleteIndex, CreateIndex, ReadPage, BulkIndex, Refresh, AbortReindex
<1>5. CASE ProcessExit
  BY <1>5 DEF ProcessExit, Next
<1>6. CASE UNCHANGED vars
  BY <1>6 DEF vars
<1> QED
  BY <1>1, <1>2, <1>3, <1>4, <1>5, <1>6 DEF SearchNext

\* With the search index left out, the composition is the catalogue: the
\* index takes no part in what happens to NFTs, their history and their images.
THEOREM SearchImplementsCatalogue == SearchSpec => Spec
<1>1. SearchInit => Init
  BY DEF SearchInit
<1> QED
  BY <1>1, SearchStepIsCatalogueStep, PTL DEF SearchSpec, Spec

-----------------------------------------------------------------------------
(* An NFT once stored stays stored, and the handler of the index is only     *)
(* called for a price that was written.                                      *)

LEMMA StoredGrows == Typed /\ [Next]_catalogueVars => Stored \subseteq Stored'
<1> SUFFICES ASSUME Typed, [Next]_catalogueVars, NEW n \in Stored
             PROVE  n \in Stored'
  OBVIOUS
<1>1. n \in Nft /\ nfts[n] \in NftDoc
  BY StoredIsDoc DEF Typed, TypeOK, Stored
<1>2. nfts' \in [Nft -> NftDoc \cup {Absent}]
  BY TypedStep DEF Typed, TypeOK
<1>3. ASSUME NEW m \in Nft, NEW d, nfts' = [nfts EXCEPT ![m] = d], d # Absent
      PROVE  n \in Stored'
  BY <1>1, <1>3 DEF Stored, Typed, TypeOK
<1>4. ASSUME NEW m \in Nft, NEW k \in SaleKind, NEW p \in Price \cup {NoPrice},
             CreateNft(m, k, p)
      PROVE  n \in Stored'
  BY <1>1, <1>4 DEF CreateNft, Stored, Typed, TypeOK
<1>5. ASSUME NEW r \in Request, NEW m \in Nft, NEW p \in Price,
             UpdateNftFixedPrice(r, m, p)
      PROVE  n \in Stored'
  <2>1. nfts[m] \in NftDoc /\ nfts' = [nfts EXCEPT ![m] = [nfts[m] EXCEPT !.price = p]]
    BY <1>5 DEF UpdateNftFixedPrice, HasFixedPrice, Typed, TypeOK
  <2>2. [nfts[m] EXCEPT !.price = p] \in NftDoc
    BY <1>5, <2>1, DocUpdates DEF UpdateNftFixedPrice, HasFixedPrice
  <2> QED
    BY <1>3, <2>1, <2>2, DocIsNotAbsent
<1>6. ASSUME NEW j \in jobs, UpdateThumbnail(j)
      PROVE  n \in Stored'
  <2>1. j.about \in Nft /\ nfts[j.about] \in NftDoc
    BY <1>6, StoredIsDoc DEF UpdateThumbnail, Typed, TypeOK, JobsAboutStored, CreationHandler,
                             Stored
  <2>2. [nfts[j.about] EXCEPT !.thumbnail = "stored"] \in NftDoc
    BY <2>1, DocUpdates
  <2>3. nfts' = [nfts EXCEPT ![j.about] = [nfts[j.about] EXCEPT !.thumbnail = "stored"]]
    BY <1>6 DEF UpdateThumbnail
  <2> QED
    BY <1>3, <2>1, <2>2, <2>3, DocIsNotAbsent
<1>7. ASSUME NEW j \in jobs, IncreaseViewCount(j)
      PROVE  n \in Stored'
  <2>1. j.about.nft \in Nft
    BY <1>7 DEF IncreaseViewCount, Typed, TypeOK, AllJobs, ScreenEvent
  <2>2. CASE nfts[j.about.nft] = Absent
    BY <1>7, <2>2 DEF IncreaseViewCount, Stored
  <2>3. CASE nfts[j.about.nft] # Absent
    <3>1. nfts[j.about.nft] \in NftDoc
      BY <2>1, <2>3 DEF Typed, TypeOK
    <3>2. [nfts[j.about.nft] EXCEPT !.viewCount = @ + 1] \in NftDoc
      BY <3>1, DocUpdates
    <3>3. nfts' = [nfts EXCEPT ![j.about.nft] = [nfts[j.about.nft] EXCEPT !.viewCount = @ + 1]]
      BY <1>7, <2>3 DEF IncreaseViewCount
    <3> QED
      BY <1>3, <2>1, <3>2, <3>3, DocIsNotAbsent
  <2> QED
    BY <2>2, <2>3
<1>8. ASSUME UNCHANGED nfts
      PROVE  n \in Stored'
  BY <1>8 DEF Stored
<1> QED
  BY <1>4, <1>5, <1>6, <1>7, <1>8
  DEF Next, ClientStep, ServerStep, HandlerStep, PushEvent, AnnounceNft, AnnouncePrice,
      StoreAnalytic, RecordHistory, RefuseRecord, FetchImage, RejectJob, IndexPrice, Exit,
      catalogueVars

IndexJobsWritten == \A j \in jobs : j.handler = "IndexPriceUpdated" => j.about \in Written

LEMMA WrittenGrows ==
    ASSUME Typed, [Next]_catalogueVars
    PROVE  /\ Written \subseteq Written'
           /\ \A w \in Written' \ Written :
                \E r \in Request, n \in Nft, p \in Price :
                   UpdateNftFixedPrice(r, n, p) /\ w = [id |-> r, nft |-> n, price |-> p]
<1>1. ASSUME NEW r \in Request, NEW n \in Nft, NEW p \in Price,
             UpdateNftFixedPrice(r, n, p)
      PROVE  Written' = Written \cup {[id |-> r, nft |-> n, price |-> p]}
  <2> DEFINE w == [id |-> r, nft |-> n, price |-> p]
  <2>1. w \in PriceWrite /\ writes \in Seq(PriceWrite) /\ writes' = Append(writes, w)
    BY <1>1 DEF UpdateNftFixedPrice, PriceWrite, Typed, TypeOK
  <2> QED
    BY <2>1, AppendFacts DEF Written
<1>2. CASE UNCHANGED writes
  BY <1>2 DEF Written
<1>3. CASE \E r \in Request, n \in Nft, p \in Price : UpdateNftFixedPrice(r, n, p)
  BY <1>1, <1>3
<1> QED
  BY <1>2, <1>3
  DEF Next, ClientStep, ServerStep, HandlerStep, CreateNft, PushEvent, AnnounceNft,
      AnnouncePrice, StoreAnalytic, RecordHistory, RefuseRecord, FetchImage, UpdateThumbnail,
      IncreaseViewCount, RejectJob, IndexPrice, Exit, catalogueVars

LEMMA IndexJobsStep == Typed /\ IndexJobsWritten /\ [Next]_catalogueVars => IndexJobsWritten'
<1> SUFFICES ASSUME Typed, IndexJobsWritten, [Next]_catalogueVars,
                    NEW j \in jobs', j.handler = "IndexPriceUpdated"
             PROVE  j.about \in Written'
  BY DEF IndexJobsWritten
<1>1. Written \subseteq Written'
  BY WrittenGrows
<1>2. CASE j \in jobs
  BY <1>1, <1>2 DEF IndexJobsWritten
<1>3. CASE j \notin jobs
  <2>1. ASSUME NEW w \in answering, AnnouncePrice(w)
        PROVE  j.about \in Written'
    <3>1. w \in Written
      BY <2>1 DEF Typed, TypeOK
    <3>2. jobs' = jobs \cup {Job("HistoryPriceUpdated", w), Job("IndexPriceUpdated", w)}
      BY <2>1 DEF AnnouncePrice, Emit, Subscribers
    <3> QED
      BY <1>1, <1>3, <3>1, <3>2 DEF Job
  <2>2. CASE \/ \E n \in Nft, k \in SaleKind, p \in Price \cup {NoPrice} : CreateNft(n, k, p)
             \/ \E r \in Request, n \in Nft, p \in Price : UpdateNftFixedPrice(r, n, p)
             \/ \E e \in pushing : StoreAnalytic(e)
             \/ \E h \in jobs : \/ RecordHistory(h) \/ RefuseRecord(h) \/ UpdateThumbnail(h)
                                \/ IncreaseViewCount(h) \/ RejectJob(h) \/ IndexPrice(h)
             \/ Exit
             \/ UNCHANGED catalogueVars
    BY <1>3, <2>2 DEF CreateNft, UpdateNftFixedPrice, StoreAnalytic, RecordHistory,
       RefuseRecord, UpdateThumbnail, IncreaseViewCount, RejectJob, IndexPrice, Exit,
       catalogueVars
  <2>3. CASE \/ \E v \in View, n \in Nft : PushEvent(v, n)
             \/ \E n \in creating : AnnounceNft(n)
             \/ \E h \in jobs : FetchImage(h)
    BY <1>3, <2>3 DEF PushEvent, AnnounceNft, FetchImage, Emit, Subscribers, Job
  <2> QED
    BY <2>1, <2>2, <2>3 DEF Next, ClientStep, ServerStep, HandlerStep
<1> QED
  BY <1>2, <1>3

-----------------------------------------------------------------------------
(* What the index shows.  A price gets there from a handler or from a page   *)
(* that a call holds, so both must only carry prices that were asked.        *)

IndexTyped ==
    /\ index \in [Nft -> Doc \cup {NoDoc}]
    /\ reindex \in [Reindexer -> ReindexState]
    /\ asked \in [Nft -> SUBSET (Price \cup {NoPrice})]

\* asked holds the price of every stored NFT, of every write and of every page.
AskedIsAll ==
    /\ \A n \in Nft : asked[n] # {} => n \in Stored
    /\ \A n \in Stored : nfts[n].price \in asked[n]
    /\ \A w \in Written : w.price \in asked[w.nft]
    /\ \A x \in Reindexer : \A e \in reindex[x].page : e.price \in asked[e.nft]

IndexInv == IndexTyped /\ AskedIsAll /\ IndexShowsCommittedPrices

LEMMA IndexInit == SearchInit => Typed /\ IndexJobsWritten /\ IndexInv
<1> SUFFICES ASSUME SearchInit PROVE Typed /\ IndexJobsWritten /\ IndexInv
  OBVIOUS
<1>1. Typed /\ Stored = {} /\ Written = {}
  BY TypedInit DEF SearchInit, Init, Stored, Written
<1>2. IndexJobsWritten
  BY DEF SearchInit, Init, IndexJobsWritten
<1>3. IndexTyped
  BY DEF SearchInit, IndexTyped, ReindexState
<1>4. AskedIsAll
  BY <1>1 DEF SearchInit, AskedIsAll
<1>5. IndexShowsCommittedPrices
  BY DEF SearchInit, IndexShowsCommittedPrices
<1> QED
  BY <1>1, <1>2, <1>3, <1>4, <1>5 DEF IndexInv

\* A page read from the catalogue carries the prices of stored NFTs.
LEMMA PageIsAsked ==
    ASSUME Typed, AskedIsAll, NEW page \in SUBSET Stored
    PROVE  /\ Entries(page) \subseteq PageEntry
           /\ \A e \in Entries(page) : e.price \in asked[e.nft]
<1>1. \A n \in page : n \in Nft /\ nfts[n].price \in Price \cup {NoPrice}
  BY StoredIsDoc DEF Typed, TypeOK, Stored, NftDoc
<1> QED
  BY <1>1 DEF Entries, PageEntry, AskedIsAll

\* What ReadPage does with the page that came back.
LEMMA ReadPageIs ==
    ASSUME NEW x \in Reindexer, ReadPage(x)
    PROVE  \E page \in Pages(reindex[x].skip), pc \in {"refresh", "bulk"} :
             /\ page \subseteq Stored
             /\ pc = (IF page = {} THEN "refresh" ELSE "bulk")
             /\ reindex' = [reindex EXCEPT ![x] =
                              [reindex[x] EXCEPT !.pc = pc, !.page = Entries(page)]]
             /\ past' = [past EXCEPT ![x] = @ \cup page]
             /\ disturbed' = disturbed \cup (IF EndsInTie(past'[x]) THEN {x} ELSE {})
             /\ reindex[x].pc = "read"
             /\ UNCHANGED <<catalogueVars, indexExists, index, faults, asked, stale, goal>>
BY DEF ReadPage, Advance, Pages

\* A document in the index carries its price.
LEMMA DocHasPrice ==
    ASSUME NEW p \in Price \cup {NoPrice}
    PROVE  DocOf(p) \in Doc /\ DocOf(p).price = p /\ DocOf(p) # NoDoc
BY DEF DocOf, Doc, NoDoc

\* A step of the catalogue that leaves the index and the pages alone.
LEMMA IndexKeptByWrite ==
    ASSUME Typed, IndexInv, [Next]_catalogueVars, NoteWrite,
           UNCHANGED <<indexExists, index, reindex>>
    PROVE  IndexInv'
<1>1. Typed' /\ Stored \subseteq Stored'
  BY TypedStep, StoredGrows
<1>2. \A n \in Stored' : n \in Nft /\ nfts'[n] # Absent /\ nfts'[n].price \in Price \cup {NoPrice}
  BY <1>1, StoredIsDoc DEF Typed, TypeOK, Stored, NftDoc
<1>3. asked' = [n \in Nft |-> IF nfts'[n] = Absent THEN {}
                                                  ELSE asked[n] \cup {nfts'[n].price}]
  BY DEF NoteWrite
<1>4. asked' \in [Nft -> SUBSET (Price \cup {NoPrice})]
  BY <1>2, <1>3 DEF IndexInv, IndexTyped, Stored, Typed, TypeOK
<1>5. \A n \in Nft : asked[n] \subseteq asked'[n]
  BY <1>1, <1>3 DEF IndexInv, AskedIsAll, Stored
<1>6. \A w \in Written' : w.price \in asked'[w.nft]
  <2> TAKE w \in Written'
  <2>1. CASE w \in Written
    <3>1. w \in PriceWrite
      BY <2>1, ElementOfSeq, LenProperties DEF Typed, TypeOK, Written
    <3>2. w.nft \in Nft /\ w.price \in asked[w.nft]
      BY <2>1, <3>1 DEF PriceWrite, IndexInv, AskedIsAll
    <3> QED
      BY <1>5, <3>2
  <2>2. CASE w \notin Written
    <3>1. PICK r \in Request, n \in Nft, p \in Price :
             UpdateNftFixedPrice(r, n, p) /\ w = [id |-> r, nft |-> n, price |-> p]
      BY <2>2, WrittenGrows
    <3>2. n \in Stored /\ nfts[n] \in NftDoc
      BY <3>1 DEF UpdateNftFixedPrice, HasFixedPrice, Typed, TypeOK, Stored
    <3>3. nfts'[n].price = p
      BY <3>1, <3>2 DEF UpdateNftFixedPrice, Typed, TypeOK, NftDoc
    <3>4. nfts'[n] # Absent
      BY <1>1, <1>2, <3>2
    <3> QED
      BY <1>3, <3>1, <3>3, <3>4
  <2> QED
    BY <2>1, <2>2
<1>7. AskedIsAll'
  <2>1. \A n \in Nft : asked'[n] # {} => n \in Stored'
    BY <1>3 DEF Stored
  <2>2. \A n \in Stored' : nfts'[n].price \in asked'[n]
    BY <1>2, <1>3
  <2>3. \A x \in Reindexer : \A e \in reindex'[x].page : e.price \in asked'[e.nft]
    BY <1>5 DEF IndexInv, AskedIsAll, IndexTyped, ReindexState, PageEntry
  <2> QED
    BY <1>6, <2>1, <2>2, <2>3 DEF AskedIsAll
<1>8. IndexShowsCommittedPrices'
  BY <1>1, <1>5 DEF IndexInv, IndexShowsCommittedPrices
<1> QED
  BY <1>4, <1>7, <1>8 DEF IndexInv, IndexTyped

\* A step that leaves the catalogue alone keeps what was asked.
LEMMA AskedKept ==
    ASSUME AskedIsAll, UNCHANGED <<catalogueVars, asked>>,
           \A x \in Reindexer : reindex'[x].page \subseteq reindex[x].page
    PROVE  AskedIsAll' /\ Stored' = Stored
BY DEF AskedIsAll, catalogueVars, Stored, Written

LEMMA IndexStep ==
    Typed /\ IndexJobsWritten /\ IndexInv /\ [SearchNext]_vars => IndexInv'
<1> SUFFICES ASSUME Typed, IndexJobsWritten, IndexInv, [SearchNext]_vars
             PROVE  IndexInv'
  OBVIOUS
<1> USE DEF IndexInv
<1>1. CASE CatalogueStep \/ \E r \in Request, n \in Nft, p \in Price : ChangePrice(r, n, p)
  BY <1>1, IndexKeptByWrite, SearchStepIsCatalogueStep DEF CatalogueStep, ChangePrice
<1>2. ASSUME NEW j \in jobs, ApplyPrice(j)
      PROVE  IndexInv'
  <2> DEFINE n == j.about.nft
             p == j.about.price
  <2>1. j.about \in Written
    BY <1>2 DEF ApplyPrice, IndexPrice, IndexJobsWritten
  <2>2. j.about \in PriceWrite
    BY <2>1, ElementOfSeq, LenProperties DEF Typed, TypeOK, Written
  <2>3. n \in Nft /\ p \in Price /\ p \in asked[n]
    BY <2>1, <2>2 DEF PriceWrite, AskedIsAll
  <2>4. /\ index' = [index EXCEPT ![n] = DocOf(p)] /\ index[n] # NoDoc
        /\ UNCHANGED <<nfts, writes, indexExists, reindex, asked>>
    BY <1>2 DEF ApplyPrice, IndexPrice
  <2>5. Stored' = Stored /\ Written' = Written
    BY <2>4 DEF Stored, Written
  <2>6. IndexTyped' /\ AskedIsAll'
    BY <2>3, <2>4, <2>5, DocHasPrice DEF IndexTyped, AskedIsAll
  <2>7. IndexShowsCommittedPrices'
    BY <2>3, <2>4, <2>5, DocHasPrice DEF IndexShowsCommittedPrices, IndexTyped
  <2> QED
    BY <2>6, <2>7
<1>3. ASSUME NEW j \in jobs, RefusePrice(j)
      PROVE  IndexInv'
  <2>1. UNCHANGED <<nfts, writes, index, reindex, asked>> /\ indexExists' = TRUE
    BY <1>3 DEF RefusePrice, IndexPrice
  <2>2. Stored' = Stored /\ Written' = Written
    BY <2>1 DEF Stored, Written
  <2> QED
    BY <2>1, <2>2 DEF IndexTyped, AskedIsAll, IndexShowsCommittedPrices
<1>4. ASSUME NEW x \in Reindexer, DeleteIndex(x)
      PROVE  IndexInv'
  <2>1. /\ UNCHANGED <<catalogueVars, asked>> /\ index' = [n \in Nft |-> NoDoc]
        /\ reindex' = [reindex EXCEPT ![x] = [reindex[x] EXCEPT !.pc = "create"]]
    BY <1>4 DEF DeleteIndex, Advance
  <2>2. reindex' \in [Reindexer -> ReindexState]
    BY <2>1 DEF IndexTyped, ReindexState
  <2>3. \A y \in Reindexer : reindex'[y].page = reindex[y].page
    BY <2>1 DEF IndexTyped, ReindexState
  <2>4. AskedIsAll'
    BY <2>1, <2>3, AskedKept
  <2> QED
    BY <2>1, <2>2, <2>4 DEF IndexTyped, IndexShowsCommittedPrices
<1>5. ASSUME NEW x \in Reindexer, CreateIndex(x) \/ Refresh(x)
      PROVE  IndexInv'
  <2>1. PICK pc \in {"threw", "read", "succeeded"} :
           reindex' = [reindex EXCEPT ![x] = [reindex[x] EXCEPT !.pc = pc]]
    BY <1>5 DEF CreateIndex, Refresh, Advance
  <2>2. UNCHANGED <<catalogueVars, index, asked>> /\ (indexExists' = TRUE \/ UNCHANGED indexExists)
    BY <1>5 DEF CreateIndex, Refresh
  <2>3. reindex' \in [Reindexer -> ReindexState]
    BY <2>1 DEF IndexTyped, ReindexState
  <2>4. \A y \in Reindexer : reindex'[y].page = reindex[y].page
    BY <2>1 DEF IndexTyped, ReindexState
  <2>5. AskedIsAll' /\ Stored' = Stored
    BY <2>2, <2>4, AskedKept
  <2> QED
    BY <2>2, <2>3, <2>5 DEF IndexTyped, IndexShowsCommittedPrices
<1>6. ASSUME NEW x \in Reindexer, ReadPage(x)
      PROVE  IndexInv'
  <2>1. PICK page \in SUBSET Stored, pc \in {"refresh", "bulk"} :
           /\ reindex' = [reindex EXCEPT ![x] =
                            [reindex[x] EXCEPT !.pc = pc, !.page = Entries(page)]]
           /\ UNCHANGED <<catalogueVars, indexExists, index, asked>>
    BY <1>6, ReadPageIs
  <2>2. PICK held : held = Entries(page)
    OBVIOUS
  <2>3. held \subseteq PageEntry /\ \A e \in held : e.price \in asked[e.nft]
    BY <2>2, PageIsAsked
  <2>4. reindex' = [reindex EXCEPT ![x] = [reindex[x] EXCEPT !.pc = pc, !.page = held]]
    BY <2>1, <2>2
  <2>5. reindex' \in [Reindexer -> ReindexState]
    BY <2>3, <2>4 DEF IndexTyped, ReindexState
  <2>6. \A y \in Reindexer : reindex'[y].page = IF y = x THEN held ELSE reindex[y].page
    BY <2>4 DEF IndexTyped, ReindexState
  <2>7. AskedIsAll' /\ Stored' = Stored
    BY <2>1, <2>3, <2>6 DEF AskedIsAll, catalogueVars, Stored, Written
  <2> QED
    BY <2>1, <2>5, <2>7 DEF IndexTyped, IndexShowsCommittedPrices
<1>7. ASSUME NEW x \in Reindexer, BulkIndex(x)
      PROVE  IndexInv'
  <2>1. /\ UNCHANGED <<catalogueVars, asked>> /\ indexExists' = TRUE
        /\ \E done \in SUBSET reindex[x].page, failed \in BOOLEAN :
             /\ index' = IndexedInBulk(done)
             /\ reindex' = [reindex EXCEPT ![x] =
                              [reindex[x] EXCEPT !.pc = "read", !.page = {},
                                                 !.skip = NextSkip(@),
                                                 !.errors = Collected(@, failed)]]
    BY <1>7 DEF BulkIndex, Advance
  <2>2. PICK done \in SUBSET reindex[x].page, failed \in BOOLEAN :
             /\ index' = IndexedInBulk(done)
             /\ reindex' = [reindex EXCEPT ![x] =
                              [reindex[x] EXCEPT !.pc = "read", !.page = {},
                                                 !.skip = NextSkip(@),
                                                 !.errors = Collected(@, failed)]]
    BY <2>1
  <2>3. reindex' \in [Reindexer -> ReindexState]
    <3>1. reindex[x] \in ReindexState
      BY DEF IndexTyped
    <3>2. Collected(reindex[x].errors, failed) \in BOOLEAN
      BY DEF Collected
    <3>3. NextSkip(reindex[x].skip) \in Nat
      BY <3>1, SearchIndexConstants DEF ReindexState, NextSkip
    <3>4. [reindex[x] EXCEPT !.pc = "read", !.page = {}, !.skip = NextSkip(@),
                             !.errors = Collected(@, failed)] \in ReindexState
      BY <3>1, <3>2, <3>3 DEF ReindexState
    <3> QED
      BY <2>2, <3>4 DEF IndexTyped
  <2>4. \A y \in Reindexer : reindex'[y].page \subseteq reindex[y].page
    BY <2>2 DEF IndexTyped, ReindexState
  <2>5. AskedIsAll' /\ Stored' = Stored
    BY <2>1, <2>4, AskedKept
  <2>6. \A e \in done : /\ e.nft \in Nft /\ e.price \in Price \cup {NoPrice}
                        /\ e.price \in asked[e.nft]
    BY DEF IndexTyped, ReindexState, PageEntry, AskedIsAll
  <2>7. \A n \in Nft : \/ index'[n] = index[n]
                       \/ \E e \in done : e.nft = n /\ index'[n] = DocOf(e.price)
    BY <2>2 DEF IndexedInBulk
  <2>8. index' \in [Nft -> Doc \cup {NoDoc}]
    <3>1. \A n \in Nft : index'[n] \in Doc \cup {NoDoc}
      BY <2>6, <2>7, DocHasPrice DEF IndexTyped
    <3> QED
      BY <2>2, <3>1 DEF IndexedInBulk
  <2>9. \A n \in Nft : index'[n] # NoDoc => index'[n].price \in asked'[n]
    BY <2>1, <2>6, <2>7, DocHasPrice DEF IndexShowsCommittedPrices
  <2>10. IndexShowsCommittedPrices'
    BY <2>1, <2>5, <2>9 DEF IndexShowsCommittedPrices, AskedIsAll
  <2> QED
    BY <2>1, <2>3, <2>5, <2>8, <2>10 DEF IndexTyped
<1>8. ASSUME NEW x \in Reindexer, AbortReindex(x)
      PROVE  IndexInv'
  <2>1. /\ reindex' = [reindex EXCEPT ![x] = [reindex[x] EXCEPT !.pc = "threw", !.page = {}]]
        /\ UNCHANGED <<catalogueVars, indexExists, index, asked>>
    BY <1>8 DEF AbortReindex, Advance
  <2>2. reindex' \in [Reindexer -> ReindexState]
    BY <2>1 DEF IndexTyped, ReindexState
  <2>3. \A y \in Reindexer : reindex'[y].page \subseteq reindex[y].page
    BY <2>1 DEF IndexTyped, ReindexState
  <2>4. AskedIsAll' /\ Stored' = Stored
    BY <2>1, <2>3, AskedKept
  <2> QED
    BY <2>1, <2>2, <2>4 DEF IndexTyped, IndexShowsCommittedPrices
<1>9. CASE ProcessExit
  <2>1. reindex' = [x \in Reindexer |->
                      IF Running(x) THEN [reindex[x] EXCEPT !.pc = "threw", !.page = {}]
                                    ELSE reindex[x]]
    BY <1>9 DEF ProcessExit
  <2>2. UNCHANGED <<nfts, writes, indexExists, index, asked>>
    BY <1>9 DEF ProcessExit, Exit
  <2>3. reindex' \in [Reindexer -> ReindexState]
    BY <2>1 DEF IndexTyped, ReindexState
  <2>4. \A y \in Reindexer : reindex'[y].page \subseteq reindex[y].page
    BY <2>1 DEF IndexTyped, ReindexState
  <2>5. AskedIsAll' /\ Stored' = Stored
    BY <2>2, <2>4 DEF AskedIsAll, Stored, Written
  <2> QED
    BY <2>2, <2>3, <2>5 DEF IndexTyped, IndexShowsCommittedPrices
<1>10. CASE UNCHANGED vars
  BY <1>10 DEF vars, indexVars, catalogueVars, IndexTyped, AskedIsAll,
               IndexShowsCommittedPrices, Stored, Written
<1> QED
  BY <1>1, <1>2, <1>3, <1>4, <1>5, <1>6, <1>7, <1>8, <1>9, <1>10 DEF SearchNext, ReindexStep

\* However price handlers, pages and concurrent rebuilds interleave, a search
\* never shows an NFT that is not stored or a price that it never had.
THEOREM IndexShowsOnlyCommittedPrices == SearchSpec => []IndexShowsCommittedPrices
<1>1. IndexInv => IndexShowsCommittedPrices
  BY DEF IndexInv
<1>2. Typed /\ IndexJobsWritten /\ IndexInv /\ [SearchNext]_vars
        => (Typed /\ IndexJobsWritten /\ IndexInv)'
  BY SearchStepIsCatalogueStep, TypedStep, IndexJobsStep, IndexStep
<1> QED
  BY <1>1, <1>2, IndexInit, PTL DEF SearchSpec

-----------------------------------------------------------------------------
(* What the queries of deleteAndReindexAll may return.  The stored NFTs are  *)
(* finitely many, and a page is what a sorted query may put behind those it  *)
(* skips.                                                                    *)

LEMMA StoredFinite == Typed /\ IsFiniteSet(Stored) /\ [Next]_catalogueVars => IsFiniteSet(Stored')
<1> SUFFICES ASSUME Typed, IsFiniteSet(Stored), [Next]_catalogueVars
             PROVE  IsFiniteSet(Stored')
  OBVIOUS
<1>1. ASSUME NEW m, NEW d, nfts' = [nfts EXCEPT ![m] = d]
      PROVE  IsFiniteSet(Stored')
  <2>1. Stored' \in SUBSET (Stored \cup {m})
    BY <1>1 DEF Stored, Typed, TypeOK
  <2> QED
    BY <2>1, FS_AddElement, FS_Subset
<1>2. CASE UNCHANGED nfts
  <2>1. Stored' = Stored
    BY <1>2 DEF Stored
  <2> QED
    BY <2>1
<1>3. CASE \/ \E n \in Nft, k \in SaleKind, p \in Price \cup {NoPrice} : CreateNft(n, k, p)
           \/ \E r \in Request, n \in Nft, p \in Price : UpdateNftFixedPrice(r, n, p)
  BY <1>1, <1>3 DEF CreateNft, UpdateNftFixedPrice
<1>4. CASE \E j \in jobs : UpdateThumbnail(j) \/ IncreaseViewCount(j)
  BY <1>1, <1>2, <1>4 DEF UpdateThumbnail, IncreaseViewCount
<1> QED
  BY <1>2, <1>3, <1>4
  DEF Next, ClientStep, ServerStep, HandlerStep, PushEvent, AnnounceNft, AnnouncePrice,
      StoreAnalytic, RecordHistory, RefuseRecord, FetchImage, RejectJob, IndexPrice, Exit,
      catalogueVars

\* The NFTs of S are dated before all others.
Foremost(S) == \A n \in S, m \in Stored \ S : updatedAt[n] < updatedAt[m]

DatesTyped == \A n \in Nft : updatedAt[n] \in Nat

LEMMA DatesAreNumbers == Typed => DatesTyped
BY CatalogueConstants DEF Typed, TypeOK, Dated, Date, DatesTyped

\* Of each size there is one set of first NFTs, if their dates tell them apart.
LEMMA SameSkipped ==
    ASSUME DatesTyped, IsFiniteSet(Stored), NEW shown \in SUBSET Stored, Foremost(shown),
           NEW before \in SUBSET Stored,
           \A n \in before, m \in Stored \ before : updatedAt[n] <= updatedAt[m],
           Cardinality(before) = Cardinality(shown)
    PROVE  before = shown
<1>1. IsFiniteSet(shown) /\ IsFiniteSet(before)
  BY FS_Subset
<1>2. CASE shown \subseteq before
  BY <1>1, <1>2, FS_Subset
<1>3. ASSUME NEW a \in shown, a \notin before
      PROVE  FALSE
  <2>1. CASE before \subseteq shown
    BY <1>1, <1>3, <2>1, FS_Subset
  <2>2. ASSUME NEW b \in before, b \notin shown
        PROVE  FALSE
    <3>1. updatedAt[a] < updatedAt[b] /\ updatedAt[b] <= updatedAt[a]
      BY <1>3, <2>2 DEF Foremost
    <3>2. updatedAt[a] \in Nat /\ updatedAt[b] \in Nat
      BY DEF DatesTyped, Stored
    <3> QED
      BY <3>1, <3>2
  <2> QED
    BY <2>1, <2>2
<1> QED
  BY <1>2, <1>3

\* A page behind the NFTs already shown: as many more as its limit, dated before
\* the rest, or all that there are.
LEMMA NextPage ==
    ASSUME DatesTyped, IsFiniteSet(Stored), NEW skip \in Nat, NEW page \in Pages(skip),
           NEW shown \in SUBSET Stored, Foremost(shown), Cardinality(shown) = skip,
           ~EndsInTie(shown \cup page)
    PROVE  \/ /\ Foremost(shown \cup page) /\ page # {}
              /\ Cardinality(shown \cup page) = skip + BatchSize
           \/ Stored \subseteq shown \cup page
<1>1. PICK before \in SUBSET (Stored \ page) :
        /\ Sorted(before, page)
        /\ Limited(before, skip, Stored)
        /\ Limited(page, BatchSize, Stored \ before)
  BY DEF Pages
<1>2. page \subseteq Stored /\ IsFiniteSet(page) /\ IsFiniteSet(shown)
  <2>1. page \subseteq Stored
    BY DEF Pages
  <2> QED
    BY <2>1, FS_Subset
<1>3. Cardinality(before) = skip
  <2>1. CASE Cardinality(before) < skip /\ before = Stored
    <3>1. Cardinality(shown) <= Cardinality(Stored) /\ Cardinality(Stored) \in Nat
      BY FS_Subset, FS_CardinalityType
    <3> QED
      BY <2>1, <3>1
  <2> QED
    BY <1>1, <2>1 DEF Limited
<1>4. before = shown
  <2>1. \A n \in before, m \in Stored \ before : updatedAt[n] <= updatedAt[m]
    BY <1>1 DEF Sorted
  <2> QED
    BY <1>3, <2>1, SameSkipped
<1>5. CASE page = Stored \ before
  BY <1>4, <1>5
<1>6. CASE Cardinality(page) = BatchSize
  <2>1. Cardinality(shown \cup page) = skip + BatchSize
    <3>1. shown \cap page = {}
      BY <1>1, <1>4
    <3> QED
      BY <1>2, <1>6, <3>1, FS_Union, FS_EmptySet, SearchIndexConstants
  <2>2. ASSUME NEW n \in shown \cup page, NEW m \in Stored \ (shown \cup page)
        PROVE  updatedAt[n] < updatedAt[m]
    <3>1. updatedAt[n] <= updatedAt[m]
      BY <1>1, <1>4 DEF Sorted
    <3>2. updatedAt[n] # updatedAt[m]
      BY DEF EndsInTie
    <3>3. updatedAt[n] \in Nat /\ updatedAt[m] \in Nat
      BY <1>2 DEF DatesTyped, Stored
    <3> QED
      BY <3>1, <3>2, <3>3
  <2>3. page # {}
    BY <1>6, FS_EmptySet, SearchIndexConstants
  <2> QED
    BY <2>1, <2>2, <2>3 DEF Foremost
<1> QED
  BY <1>1, <1>5, <1>6 DEF Limited

-----------------------------------------------------------------------------
(* Progress of a call: what its pages have shown is the front of the order,  *)
(* as long as the dates say, and each NFT of the goal among it is indexed or *)
(* held.  A write that shifts the pages disturbs the call.                   *)

Has(n) == index[n] # NoDoc

PastTyped == past \in [Reindexer -> SUBSET Nft]

\* What was there at the start or was shown is stored; before its first page a
\* call has shown, skipped and failed nothing.
Started(x) ==
    /\ goal[x] \subseteq Stored /\ past[x] \subseteq Stored
    /\ reindex[x].pc \in {"delete", "create"} =>
         reindex[x].skip = 0 /\ ~reindex[x].errors /\ past[x] = {}
    /\ reindex[x].pc = "succeeded" => ~reindex[x].errors

Paging(x) == reindex[x].pc \in {"read", "bulk"}

\* How many NFTs the pages of a call have shown, unless there were no more.
PagedPast(x) == IF reindex[x].pc = "bulk" THEN reindex[x].skip + BatchSize ELSE reindex[x].skip

\* All the goal was shown, or a front of the order.
ShownFirst(x) ==
    Paging(x) => \/ goal[x] \subseteq past[x]
                 \/ Foremost(past[x]) /\ Cardinality(past[x]) = PagedPast(x)

ShownIndexed(x) ==
    Paging(x) /\ ~reindex[x].errors =>
       \A n \in past[x] \cap goal[x] : Has(n) \/ (reindex[x].pc = "bulk" /\ n \in HeldBy(x))

GoalIndexed(x) ==
    reindex[x].pc \in {"refresh", "succeeded"} /\ ~reindex[x].errors =>
       \A n \in goal[x] : Has(n)

Progress(x) == ShownFirst(x) /\ ShownIndexed(x) /\ GoalIndexed(x)

PagingInv ==
    /\ PastTyped /\ IsFiniteSet(Stored)
    /\ \A x \in Reindexer : Started(x)
    /\ \A x \in Reindexer \ disturbed : Progress(x)

LEMMA PagingInit == SearchInit => PagingInv
<1> SUFFICES ASSUME SearchInit PROVE PagingInv
  OBVIOUS
<1>1. Stored = {} /\ IsFiniteSet(Stored)
  BY FS_EmptySet DEF SearchInit, Init, Stored
<1>2. \A x \in Reindexer : Started(x) /\ Progress(x)
  BY DEF SearchInit, Started, Progress, Paging, ShownFirst, ShownIndexed, GoalIndexed
<1> QED
  BY <1>1, <1>2 DEF SearchInit, PagingInv, PastTyped

LEMMA PagingInvImplies == PagingInv => ReindexComplete
BY DEF PagingInv, Started, Progress, GoalIndexed, ReindexComplete, Has

LEMMA PastStep == PastTyped /\ [SearchNext]_vars => PastTyped'
<1> SUFFICES ASSUME PastTyped, [SearchNext]_vars PROVE PastTyped'
  OBVIOUS
<1>1. ASSUME NEW x \in Reindexer, ReadPage(x)
      PROVE  PastTyped'
  <2>1. PICK page \in SUBSET Stored : past' = [past EXCEPT ![x] = @ \cup page]
    BY <1>1, ReadPageIs
  <2> QED
    BY <2>1 DEF PastTyped, Stored
<1>2. CASE UNCHANGED past
  BY <1>2 DEF PastTyped
<1> QED
  BY <1>1, <1>2 DEF SearchNext, CatalogueStep, ChangePrice, ApplyPrice, RefusePrice, ReindexStep,
     DeleteIndex, CreateIndex, BulkIndex, Refresh, AbortReindex, ProcessExit, vars, indexVars

\* A call that does nothing keeps what it has while the catalogue stays and the
\* index only grows.
LEMMA ProgressKept ==
    ASSUME NEW x \in Reindexer, Started(x), Progress(x), UNCHANGED <<nfts, updatedAt>>,
           reindex'[x] = reindex[x], goal'[x] = goal[x], past'[x] = past[x],
           \A n \in Nft : Has(n) => Has(n)'
    PROVE  Progress(x)'
<1>1. goal[x] \subseteq Nft /\ Stored' = Stored
  BY DEF Started, Stored
<1>2. ShownFirst(x)'
  BY <1>1 DEF Progress, ShownFirst, Paging, Foremost, PagedPast
<1>3. ShownIndexed(x)'
  BY <1>1 DEF Progress, ShownIndexed, Paging, HeldBy
<1>4. GoalIndexed(x)'
  BY <1>1 DEF Progress, GoalIndexed
<1> QED
  BY <1>2, <1>3, <1>4 DEF Progress

\* A write that does not disturb a call leaves the front of the order that the
\* call has shown: it neither redates it nor puts anything in or before it.
LEMMA ProgressWritten ==
    ASSUME DatesTyped, DatesTyped', Stored \subseteq Stored', NoteWrite,
           UNCHANGED <<index, reindex, goal, past>>,
           NEW x \in Reindexer, x \notin disturbed', Started(x), Progress(x)
    PROVE  Progress(x)'
<1>1. ShownFirst(x)'
  <2> SUFFICES ASSUME Paging(x), Foremost(past[x]), Cardinality(past[x]) = PagedPast(x)
               PROVE  Foremost(past[x])'
    BY DEF Progress, ShownFirst, Paging, PagedPast
  <2>1. ~Shifted(x)
    BY DEF NoteWrite, Running, Paging
  <2> SUFFICES ASSUME NEW n \in past[x], NEW m \in Stored' \ past[x]
               PROVE  updatedAt'[n] < updatedAt'[m]
    BY DEF Foremost
  <2>2. n \in Stored /\ updatedAt'[n] = updatedAt[n]
    BY <2>1 DEF Started, Shifted
  <2>3. CASE m \in Stored /\ updatedAt'[m] = updatedAt[m]
    BY <2>2, <2>3 DEF Foremost
  <2>4. CASE m \notin Stored \/ updatedAt'[m] # updatedAt[m]
    <3>1. ~(updatedAt'[m] <= updatedAt[n])
      BY <2>1, <2>4 DEF Shifted
    <3>2. updatedAt'[m] \in Nat /\ updatedAt[n] \in Nat
      BY <2>2 DEF DatesTyped, Stored
    <3> QED
      BY <2>2, <3>1, <3>2
  <2> QED
    BY <2>3, <2>4
<1>2. ShownIndexed(x)' /\ GoalIndexed(x)'
  BY DEF Progress, ShownIndexed, GoalIndexed, Paging, HeldBy, Has
<1> QED
  BY <1>1, <1>2 DEF Progress

LEMMA DocIsADoc ==
    ASSUME NEW p PROVE DocOf(p) # NoDoc
BY DEF DocOf, NoDoc

\* What a bulk request put in is there, and nothing it did not touch is gone.
LEMMA BulkGrows ==
    ASSUME NEW done, index' = IndexedInBulk(done), NEW n \in Nft
    PROVE  /\ Has(n) => Has(n)'
           /\ (\E e \in done : e.nft = n) => Has(n)'
BY DocIsADoc DEF IndexedInBulk, Has

LEMMA PagingStep ==
    Typed /\ IndexInv /\ PagingInv /\ [SearchNext]_vars => PagingInv'
<1> SUFFICES ASSUME Typed, IndexInv, PagingInv, [SearchNext]_vars
             PROVE  PagingInv'
  OBVIOUS
<1>0. /\ IndexTyped /\ DatesTyped /\ DatesTyped' /\ Stored \subseteq Stored'
      /\ IsFiniteSet(Stored) /\ IsFiniteSet(Stored') /\ PastTyped /\ PastTyped'
      /\ \A y \in Reindexer : reindex[y] \in ReindexState
      /\ BatchSize \in Nat
  <2>1. [Next]_catalogueVars /\ Typed'
    BY SearchStepIsCatalogueStep, TypedStep
  <2>2. Stored \subseteq Stored' /\ IsFiniteSet(Stored') /\ PastTyped'
    BY <2>1, StoredGrows, StoredFinite, PastStep DEF PagingInv
  <2>3. DatesTyped'
    BY <2>1, CatalogueConstants DEF Typed, TypeOK, Dated, Date, DatesTyped
  <2> QED
    BY <2>2, <2>3, DatesAreNumbers, SearchIndexConstants DEF PagingInv, IndexInv, IndexTyped
\* What a step of call x means for the others.
<1>1. ASSUME NEW x \in Reindexer, UNCHANGED <<nfts, updatedAt, goal>>,
             disturbed \subseteq disturbed',
             \A y \in Reindexer \ {x} : reindex'[y] = reindex[y] /\ past'[y] = past[y],
             \A n \in Nft : Has(n) => Has(n)',
             Started(x)', x \notin disturbed' => Progress(x)'
      PROVE  PagingInv'
  <2>1. \A y \in Reindexer \ {x} : Started(y)'
    BY <1>0, <1>1 DEF PagingInv, Started
  <2>2. \A y \in Reindexer \ {x} : y \notin disturbed => Progress(y)'
    BY <1>1, ProgressKept DEF PagingInv
  <2> QED
    BY <1>0, <1>1, <2>1, <2>2 DEF PagingInv
<1>2. CASE CatalogueStep \/ \E r \in Request, n \in Nft, p \in Price : ChangePrice(r, n, p)
  <2>1. NoteWrite /\ UNCHANGED <<index, reindex, goal, past>>
    BY <1>2 DEF CatalogueStep, ChangePrice
  <2>2. \A x \in Reindexer : Started(x)'
    BY <1>0, <2>1 DEF PagingInv, Started
  <2>3. disturbed \subseteq disturbed'
    BY <2>1 DEF NoteWrite
  <2>4. \A x \in Reindexer \ disturbed' : Progress(x)'
    BY <1>0, <2>1, <2>3, ProgressWritten DEF PagingInv
  <2> QED
    BY <1>0, <2>2, <2>4 DEF PagingInv
<1>3. ASSUME NEW j \in jobs, ApplyPrice(j) \/ RefusePrice(j)
      PROVE  PagingInv'
  <2>1. /\ UNCHANGED <<updatedAt, reindex, goal, past, disturbed, nfts>>
        /\ \/ index' = index
           \/ index' = [index EXCEPT ![j.about.nft] = DocOf(j.about.price)]
    BY <1>3 DEF ApplyPrice, RefusePrice, IndexPrice, dates
  <2>2. \A n \in Nft : Has(n) => Has(n)'
    BY <1>0, <2>1, DocIsADoc DEF Has, IndexTyped
  <2>3. \A x \in Reindexer : Started(x)'
    BY <1>0, <2>1 DEF PagingInv, Started
  <2>4. \A x \in Reindexer \ disturbed' : Progress(x)'
    BY <2>1, <2>2, ProgressKept DEF PagingInv
  <2> QED
    BY <1>0, <2>3, <2>4 DEF PagingInv
<1>4. ASSUME NEW x \in Reindexer, DeleteIndex(x)
      PROVE  PagingInv'
  <2>1. /\ reindex' = [reindex EXCEPT ![x] = [reindex[x] EXCEPT !.pc = "create"]]
        /\ reindex[x].pc = "delete" /\ goal' = [goal EXCEPT ![x] = Stored]
        /\ disturbed' = disturbed \cup {y \in Reindexer \ {x} : reindex[y].pc # "delete"}
        /\ UNCHANGED <<updatedAt, nfts, past>>
    BY <1>4 DEF DeleteIndex, Advance, catalogueVars, dates
  <2>2. /\ reindex'[x].pc = "create" /\ reindex'[x].skip = reindex[x].skip
        /\ reindex'[x].errors = reindex[x].errors
        /\ \A y \in Reindexer \ {x} : reindex'[y] = reindex[y]
    BY <1>0, <2>1 DEF IndexTyped, ReindexState
  <2>3. \A y \in Reindexer : goal'[y] = Stored \/ goal'[y] = goal[y]
    BY <2>1
  <2>4. \A y \in Reindexer : Started(y)'
    BY <1>0, <2>1, <2>2, <2>3 DEF PagingInv, Started
  <2>5. \A y \in Reindexer \ disturbed' : reindex'[y].pc \in {"delete", "create"}
    BY <2>1, <2>2
  <2>6. \A y \in Reindexer \ disturbed' : Progress(y)'
    BY <2>5 DEF Progress, Paging, ShownFirst, ShownIndexed, GoalIndexed
  <2> QED
    BY <1>0, <2>4, <2>6 DEF PagingInv
<1>5. ASSUME NEW x \in Reindexer, CreateIndex(x)
      PROVE  PagingInv'
  <2>1. PICK pc \in {"threw", "read"} :
           reindex' = [reindex EXCEPT ![x] = [reindex[x] EXCEPT !.pc = pc]]
    BY <1>5 DEF CreateIndex, Advance
  <2>2. /\ UNCHANGED <<updatedAt, nfts, index, goal, past, disturbed>> /\ reindex[x].pc = "create"
    BY <1>5 DEF CreateIndex, catalogueVars, dates
  <2>3. /\ reindex'[x].pc = pc /\ reindex'[x].skip = reindex[x].skip
        /\ reindex'[x].errors = reindex[x].errors
        /\ \A y \in Reindexer \ {x} : reindex'[y] = reindex[y]
    BY <1>0, <2>1 DEF IndexTyped, ReindexState
  <2>4. reindex[x].skip = 0 /\ past'[x] = {} /\ Started(x)'
    BY <1>0, <2>2, <2>3 DEF PagingInv, Started
  <2>5. Foremost({})' /\ Cardinality({}) = 0
    BY FS_EmptySet DEF Foremost
  <2>6. Progress(x)'
    BY <2>3, <2>4, <2>5 DEF Progress, Paging, PagedPast, ShownFirst, ShownIndexed, GoalIndexed
  <2> QED
    BY <1>1, <2>2, <2>3, <2>4, <2>6 DEF Has
<1>6. ASSUME NEW x \in Reindexer, ReadPage(x)
      PROVE  PagingInv'
  <2>1. PICK page \in Pages(reindex[x].skip), pc \in {"refresh", "bulk"} :
          /\ page \subseteq Stored
          /\ pc = (IF page = {} THEN "refresh" ELSE "bulk")
          /\ reindex' = [reindex EXCEPT ![x] =
                           [reindex[x] EXCEPT !.pc = pc, !.page = Entries(page)]]
          /\ past' = [past EXCEPT ![x] = @ \cup page]
          /\ disturbed' = disturbed \cup (IF EndsInTie(past'[x]) THEN {x} ELSE {})
          /\ reindex[x].pc = "read"
          /\ UNCHANGED <<nfts, updatedAt, index, goal>>
    BY <1>6, ReadPageIs DEF catalogueVars, dates
  <2>2. Stored' = Stored /\ disturbed \subseteq disturbed'
    BY <2>1 DEF Stored
  <2>3. /\ reindex'[x].pc = pc /\ reindex'[x].skip = reindex[x].skip
        /\ reindex'[x].errors = reindex[x].errors /\ reindex'[x].page = Entries(page)
        /\ \A y \in Reindexer \ {x} : reindex'[y] = reindex[y]
    BY <1>0, <2>1 DEF IndexTyped, ReindexState
  <2>4. past'[x] = past[x] \cup page /\ \A y \in Reindexer \ {x} : past'[y] = past[y]
    BY <1>0, <2>1 DEF PastTyped
  <2>5. Started(x)'
    BY <2>1, <2>2, <2>3, <2>4 DEF PagingInv, Started
  <2>6. ASSUME x \notin disturbed' PROVE Progress(x)'
    <3>1. ShownFirst(x) /\ ShownIndexed(x) /\ past[x] \subseteq Stored /\ goal[x] \subseteq Stored
      BY <2>2, <2>6 DEF PagingInv, Progress, Started
    <3>2. \/ goal[x] \subseteq past'[x]
          \/ Foremost(past'[x]) /\ Cardinality(past'[x]) = reindex[x].skip + BatchSize /\ page # {}
      <4>1. CASE goal[x] \subseteq past[x]
        BY <2>4, <4>1
      <4>2. CASE Foremost(past[x]) /\ Cardinality(past[x]) = PagedPast(x)
        <5>1. Cardinality(past[x]) = reindex[x].skip /\ reindex[x].skip \in Nat
          BY <1>0, <2>1, <4>2 DEF PagedPast, ReindexState
        <5>2. ~EndsInTie(past[x] \cup page)
          BY <2>1, <2>4, <2>6
        <5>3. \/ /\ Foremost(past[x] \cup page) /\ page # {}
                 /\ Cardinality(past[x] \cup page) = reindex[x].skip + BatchSize
              \/ Stored \subseteq past[x] \cup page
          BY <1>0, <3>1, <4>2, <5>1, <5>2, NextPage
        <5> QED
          BY <2>4, <3>1, <5>3
      <4> QED
        BY <2>1, <3>1, <4>1, <4>2 DEF ShownFirst, Paging
    <3>3. ShownFirst(x)'
      BY <2>1, <2>2, <2>3, <3>2 DEF ShownFirst, Paging, PagedPast, Foremost
    <3>4. ASSUME ~reindex[x].errors, NEW n \in past[x] \cap goal[x]
          PROVE  Has(n)'
      BY <2>1, <3>1, <3>4 DEF ShownIndexed, Paging, Has
    <3>5. \A n \in page : n \in HeldBy(x)'
      <4> TAKE n \in page
      <4>1. [nft |-> n, price |-> nfts[n].price] \in reindex'[x].page
        BY <2>3 DEF Entries
      <4> QED
        BY <4>1 DEF HeldBy
    <3>6. ShownIndexed(x)'
      <4> SUFFICES ASSUME Paging(x)', ~reindex[x].errors, NEW n \in past'[x] \cap goal[x]
                   PROVE  Has(n)' \/ (reindex'[x].pc = "bulk" /\ n \in HeldBy(x)')
        BY <2>1, <2>3 DEF ShownIndexed
      <4>1. reindex'[x].pc = "bulk"
        BY <2>3 DEF Paging
      <4> QED
        BY <2>4, <3>4, <3>5, <4>1
    <3>7. GoalIndexed(x)'
      <4> SUFFICES ASSUME page = {}, ~reindex[x].errors, NEW n \in goal[x]
                   PROVE  Has(n)'
        BY <2>1, <2>3 DEF GoalIndexed
      <4>1. goal[x] \subseteq past[x]
        BY <2>4, <3>2
      <4> QED
        BY <3>4, <4>1
    <3> QED
      BY <3>3, <3>6, <3>7 DEF Progress
  <2> QED
    BY <1>1, <2>1, <2>2, <2>3, <2>4, <2>5, <2>6 DEF Has
<1>7. ASSUME NEW x \in Reindexer, BulkIndex(x)
      PROVE  PagingInv'
  <2>1. PICK done \in SUBSET reindex[x].page :
          /\ index' = IndexedInBulk(done)
          /\ reindex' = [reindex EXCEPT ![x] =
                           [reindex[x] EXCEPT !.pc = "read", !.page = {},
                                              !.skip = NextSkip(@),
                                              !.errors = Collected(@, done # reindex[x].page)]]
    BY <1>7 DEF BulkIndex, Advance
  <2>2. UNCHANGED <<updatedAt, nfts, goal, past, disturbed>> /\ reindex[x].pc = "bulk"
    BY <1>7 DEF BulkIndex, catalogueVars, dates
  <2>3. /\ reindex'[x].pc = "read" /\ reindex'[x].skip = reindex[x].skip + BatchSize
        /\ ~reindex'[x].errors => ~reindex[x].errors /\ done = reindex[x].page
        /\ \A y \in Reindexer \ {x} : reindex'[y] = reindex[y]
    <3>1. \A y \in Reindexer \ {x} : reindex'[y] = reindex[y]
      BY <2>1
    <3>2. reindex'[x] = [reindex[x] EXCEPT !.pc = "read", !.page = {},
                                           !.skip = NextSkip(@),
                                           !.errors = Collected(@, done # reindex[x].page)]
      BY <1>0, <2>1 DEF IndexTyped
    <3>3. PICK failed \in BOOLEAN : failed <=> done # reindex[x].page
      OBVIOUS
    <3>4. /\ reindex'[x].pc = "read" /\ reindex'[x].skip = NextSkip(reindex[x].skip)
          /\ reindex'[x].errors = Collected(reindex[x].errors, done # reindex[x].page)
      BY <1>0, <3>2 DEF ReindexState
    <3> QED
      BY <3>1, <3>4 DEF NextSkip, Collected
  <2>4. \A n \in Nft : (Has(n) => Has(n)') /\ ((\E e \in done : e.nft = n) => Has(n)')
    BY <2>1, BulkGrows
  <2>5. Started(x)' /\ Stored' = Stored
    BY <1>0, <2>2, <2>3 DEF PagingInv, Started, Stored
  <2>6. ASSUME x \notin disturbed PROVE Progress(x)'
    <3>1. ShownFirst(x) /\ ShownIndexed(x)
      BY <2>6 DEF PagingInv, Progress
    <3>2. ShownFirst(x)'
      BY <2>2, <2>3, <2>5, <3>1 DEF ShownFirst, Paging, PagedPast, Foremost
    <3>3. ShownIndexed(x)'
      <4> SUFFICES ASSUME ~reindex[x].errors, done = reindex[x].page, NEW n \in past[x] \cap goal[x]
                   PROVE  Has(n)'
        BY <2>2, <2>3 DEF ShownIndexed
      <4>1. Has(n) \/ n \in HeldBy(x)
        BY <2>2, <3>1 DEF ShownIndexed, Paging
      <4>2. n \in Nft
        BY <1>0 DEF PastTyped
      <4> QED
        BY <2>4, <4>1, <4>2 DEF HeldBy
    <3> QED
      BY <2>3, <3>2, <3>3 DEF Progress, GoalIndexed
  <2> QED
    BY <1>1, <2>2, <2>3, <2>4, <2>5, <2>6
<1>8. ASSUME NEW x \in Reindexer, Refresh(x)
      PROVE  PagingInv'
  <2>1. PICK pc \in {"succeeded", "threw"} :
          /\ pc = "succeeded" => ~reindex[x].errors
          /\ reindex' = [reindex EXCEPT ![x] = [reindex[x] EXCEPT !.pc = pc]]
    BY <1>8 DEF Refresh, Advance
  <2>2. UNCHANGED <<updatedAt, nfts, index, goal, past, disturbed>> /\ reindex[x].pc = "refresh"
    BY <1>8 DEF Refresh, catalogueVars, dates
  <2>3. /\ reindex'[x].pc = pc /\ reindex'[x].errors = reindex[x].errors
        /\ \A y \in Reindexer \ {x} : reindex'[y] = reindex[y]
    BY <1>0, <2>1 DEF IndexTyped, ReindexState
  <2>4. Started(x)'
    BY <1>0, <2>1, <2>2, <2>3 DEF PagingInv, Started
  <2>5. ASSUME x \notin disturbed PROVE Progress(x)'
    BY <2>2, <2>3, <2>5
    DEF PagingInv, Progress, Paging, ShownFirst, ShownIndexed, GoalIndexed, Has
  <2> QED
    BY <1>1, <2>2, <2>3, <2>4, <2>5 DEF Has
<1>9. ASSUME NEW x \in Reindexer, AbortReindex(x)
      PROVE  PagingInv'
  <2>1. /\ reindex' = [reindex EXCEPT ![x] = [reindex[x] EXCEPT !.pc = "threw", !.page = {}]]
        /\ UNCHANGED <<updatedAt, nfts, index, goal, past, disturbed>>
    BY <1>9 DEF AbortReindex, Advance, catalogueVars, dates
  <2>2. reindex'[x].pc = "threw" /\ \A y \in Reindexer \ {x} : reindex'[y] = reindex[y]
    BY <1>0, <2>1 DEF IndexTyped, ReindexState
  <2>3. Started(x)'
    BY <1>0, <2>1, <2>2 DEF PagingInv, Started
  <2>4. Progress(x)'
    BY <2>2 DEF Progress, Paging, ShownFirst, ShownIndexed, GoalIndexed
  <2> QED
    BY <1>1, <2>1, <2>2, <2>3, <2>4 DEF Has
<1>10. CASE ProcessExit
  <2>1. /\ reindex' = [x \in Reindexer |->
                         IF Running(x) THEN [reindex[x] EXCEPT !.pc = "threw", !.page = {}]
                                       ELSE reindex[x]]
        /\ UNCHANGED <<updatedAt, nfts, index, goal, past, disturbed>>
    BY <1>10 DEF ProcessExit, Exit, dates
  <2>2. \A x \in Reindexer : reindex'[x] = reindex[x] \/ reindex'[x].pc = "threw"
    BY <1>0, <2>1 DEF ReindexState
  <2>3. ASSUME NEW x \in Reindexer PROVE Started(x)'
    <3>1. CASE reindex'[x] = reindex[x]
      BY <1>0, <2>1, <3>1 DEF PagingInv, Started
    <3>2. CASE reindex'[x].pc = "threw"
      BY <1>0, <2>1, <3>2 DEF PagingInv, Started
    <3> QED
      BY <2>2, <3>1, <3>2
  <2>4. ASSUME NEW x \in Reindexer, x \notin disturbed PROVE Progress(x)'
    <3>1. CASE reindex'[x] = reindex[x]
      BY <2>1, <2>4, <3>1, ProgressKept DEF PagingInv, Has
    <3>2. CASE reindex'[x].pc = "threw"
      BY <3>2 DEF Progress, Paging, ShownFirst, ShownIndexed, GoalIndexed
    <3> QED
      BY <2>2, <3>1, <3>2
  <2> QED
    BY <1>0, <2>1, <2>3, <2>4 DEF PagingInv
<1>11. CASE UNCHANGED vars
  <2>1. UNCHANGED <<updatedAt, nfts, index, reindex, goal, past, disturbed>>
    BY <1>11 DEF vars, indexVars, catalogueVars, dates
  <2>2. \A x \in Reindexer : Started(x)'
    BY <1>0, <2>1 DEF PagingInv, Started
  <2>3. \A x \in Reindexer \ disturbed' : Progress(x)'
    BY <2>1, ProgressKept DEF PagingInv, Has
  <2> QED
    BY <1>0, <2>2, <2>3 DEF PagingInv
<1> QED
  BY <1>2, <1>3, <1>4, <1>5, <1>6, <1>7, <1>8, <1>9, <1>10, <1>11 DEF SearchNext, ReindexStep

\* Writes land in any order of their dates and may share one.  A call of
\* deleteAndReindexAll that reports success has still indexed every NFT that was
\* there at its start, whatever the size of a page, unless a write gave a date to
\* an NFT it had read or put another among or before those, a page ended between
\* two NFTs of one date, or another call deleted its index.
THEOREM RebuildIndexesAll == SearchSpec => []ReindexComplete
<1>1. SearchInit => Typed /\ IndexJobsWritten /\ IndexInv /\ PagingInv
  BY IndexInit, PagingInit
<1>2. Typed /\ IndexJobsWritten /\ IndexInv /\ PagingInv /\ [SearchNext]_vars
        => (Typed /\ IndexJobsWritten /\ IndexInv /\ PagingInv)'
  BY SearchStepIsCatalogueStep, TypedStep, IndexJobsStep, IndexStep, PagingStep
<1> QED
  BY <1>1, <1>2, PagingInvImplies, PTL DEF SearchSpec

-----------------------------------------------------------------------------
(* Types, and the size of a page. *)

PagesHeld ==
    \A x \in Reindexer : /\ IsFiniteSet(reindex[x].page)
                         /\ Cardinality(reindex[x].page) <= BatchSize
                         /\ reindex[x].page # {} => reindex[x].pc = "bulk"

BookTyped ==
    /\ indexExists \in BOOLEAN
    /\ faults \in 0..MaxFaults
    /\ stale \subseteq Nft /\ disturbed \subseteq Reindexer
    /\ goal \in [Reindexer -> SUBSET Nft]
    /\ PastTyped

\* One query returns at most as many NFTs as its limit.
LEMMA PageFits ==
    ASSUME NEW skip \in Nat, NEW page \in Pages(skip), IsFiniteSet(Stored)
    PROVE  IsFiniteSet(Entries(page)) /\ Cardinality(Entries(page)) <= BatchSize
<1>1. BatchSize \in Nat
  BY SearchIndexConstants
<1>2. IsFiniteSet(page) /\ Cardinality(page) \in Nat
  BY FS_Subset, FS_CardinalityType DEF Pages
<1>3. Cardinality(page) <= BatchSize
  BY <1>1, <1>2 DEF Pages, Limited
<1>4. PICK f : f = [n \in page |-> [nft |-> n, price |-> nfts[n].price]]
  OBVIOUS
<1>5. f \in Surjection(page, Entries(page))
  BY <1>4 DEF Entries, Surjection
<1>6. /\ IsFiniteSet(Entries(page)) /\ Cardinality(Entries(page)) <= Cardinality(page)
      /\ Cardinality(Entries(page)) \in Nat
  BY <1>2, <1>5, FS_Surjection, FS_CardinalityType
<1> QED
  BY <1>1, <1>2, <1>3, <1>6

\* A step of a call leaves the pages of the others, and its own empty or just read.
LEMMA PageStep ==
    ASSUME IndexTyped, PagesHeld, NEW x \in Reindexer, ReindexStep(x) \/ AbortReindex(x)
    PROVE  /\ \A y \in Reindexer \ {x} : reindex'[y] = reindex[y]
           /\ \/ reindex'[x].page = {}
              \/ /\ ReadPage(x) /\ reindex'[x].pc = "bulk"
                 /\ \E page \in Pages(reindex[x].skip) : reindex'[x].page = Entries(page)
<1>1. reindex[x] \in ReindexState
  BY DEF IndexTyped
<1>2. ASSUME NEW state, Advance(x, state)
      PROVE  reindex'[x] = state /\ \A y \in Reindexer \ {x} : reindex'[y] = reindex[y]
  BY <1>2 DEF Advance, IndexTyped
<1>3. CASE DeleteIndex(x)
  <2>1. Advance(x, [reindex[x] EXCEPT !.pc = "create"]) /\ reindex[x].pc = "delete"
    BY <1>3 DEF DeleteIndex
  <2> QED
    BY <1>1, <1>2, <2>1 DEF ReindexState, PagesHeld
<1>4. CASE CreateIndex(x)
  <2>1. PICK pc : Advance(x, [reindex[x] EXCEPT !.pc = pc]) /\ reindex[x].pc = "create"
    BY <1>4 DEF CreateIndex
  <2> QED
    BY <1>1, <1>2, <2>1 DEF ReindexState, PagesHeld
<1>5. CASE ReadPage(x)
  <2>1. PICK page \in Pages(reindex[x].skip), pc \in {"refresh", "bulk"} :
          /\ pc = (IF page = {} THEN "refresh" ELSE "bulk")
          /\ reindex' = [reindex EXCEPT ![x] =
                           [reindex[x] EXCEPT !.pc = pc, !.page = Entries(page)]]
    BY <1>5, ReadPageIs
  <2>2. /\ reindex'[x].pc = pc /\ reindex'[x].page = Entries(page)
        /\ \A y \in Reindexer \ {x} : reindex'[y] = reindex[y]
    BY <1>1, <2>1 DEF IndexTyped, ReindexState
  <2>3. page = {} => Entries(page) = {}
    BY DEF Entries
  <2> QED
    BY <1>5, <2>1, <2>2, <2>3
<1>6. CASE BulkIndex(x)
  <2>1. PICK skip, errors : Advance(x, [reindex[x] EXCEPT !.pc = "read", !.page = {},
                                                         !.skip = skip, !.errors = errors])
    BY <1>6 DEF BulkIndex
  <2>2. reindex'[x] = [reindex[x] EXCEPT !.pc = "read", !.page = {},
                                         !.skip = skip, !.errors = errors]
    BY <1>2, <2>1
  <2>3. reindex'[x].page = {}
    BY <1>1, <2>2 DEF ReindexState
  <2> QED
    BY <1>2, <2>1, <2>3
<1>7. CASE Refresh(x)
  <2>1. PICK pc : Advance(x, [reindex[x] EXCEPT !.pc = pc]) /\ reindex[x].pc = "refresh"
    BY <1>7 DEF Refresh
  <2> QED
    BY <1>1, <1>2, <2>1 DEF ReindexState, PagesHeld
<1>8. CASE AbortReindex(x)
  <2>1. Advance(x, [reindex[x] EXCEPT !.pc = "threw", !.page = {}])
    BY <1>8 DEF AbortReindex
  <2>2. reindex'[x] = [reindex[x] EXCEPT !.pc = "threw", !.page = {}]
    BY <1>2, <2>1
  <2>3. reindex'[x].page = {}
    BY <1>1, <2>2 DEF ReindexState
  <2> QED
    BY <1>2, <2>1, <2>3
<1> QED
  BY <1>3, <1>4, <1>5, <1>6, <1>7, <1>8 DEF ReindexStep

LEMMA PagesHeldInit == SearchInit => PagesHeld
<1>1. IsFiniteSet({}) /\ Cardinality({}) <= BatchSize
  BY FS_EmptySet, SearchIndexConstants
<1>2. SearchInit => \A x \in Reindexer : reindex[x].page = {}
  BY DEF SearchInit
<1> QED
  BY <1>1, <1>2 DEF PagesHeld

LEMMA PagesHeldStep ==
    IsFiniteSet(Stored) /\ IndexTyped /\ PagesHeld /\ [SearchNext]_vars => PagesHeld'
<1> SUFFICES ASSUME IsFiniteSet(Stored), IndexTyped, PagesHeld, [SearchNext]_vars
             PROVE  PagesHeld'
  OBVIOUS
<1>1. IsFiniteSet({}) /\ Cardinality({}) <= BatchSize
  BY FS_EmptySet, SearchIndexConstants
<1>2. ASSUME NEW x \in Reindexer, ReindexStep(x) \/ AbortReindex(x)
      PROVE  PagesHeld'
  <2>1. reindex[x].skip \in Nat
    BY DEF IndexTyped, ReindexState
  <2> QED
    BY <1>1, <1>2, <2>1, PageStep, PageFits DEF PagesHeld
<1>3. CASE ProcessExit
  <2>1. \A x \in Reindexer : reindex'[x] = IF Running(x)
                                             THEN [reindex[x] EXCEPT !.pc = "threw", !.page = {}]
                                             ELSE reindex[x]
    BY <1>3 DEF ProcessExit
  <2>2. \A x \in Reindexer : reindex'[x] = reindex[x] \/ reindex'[x].page = {}
    BY <2>1 DEF IndexTyped, ReindexState
  <2> QED
    BY <1>1, <2>2 DEF PagesHeld
<1>4. CASE UNCHANGED reindex
  BY <1>4 DEF PagesHeld
<1> QED
  BY <1>2, <1>3, <1>4 DEF SearchNext, CatalogueStep, ChangePrice, ApplyPrice, RefusePrice, vars,
                          indexVars

LEMMA BookStep == Typed /\ BookTyped /\ [SearchNext]_vars => BookTyped'
<1> SUFFICES ASSUME Typed, BookTyped, [SearchNext]_vars
             PROVE  BookTyped'
  OBVIOUS
<1>1. Typed' /\ PastTyped' /\ MaxFaults \in Nat
  BY SearchStepIsCatalogueStep, TypedStep, PastStep, SearchIndexConstants DEF BookTyped
<1>2. \A d \in dropped' : d.handler = "IndexPriceUpdated" => d.about.nft \in Nft
  BY <1>1 DEF Typed, TypeOK, AllJobs, PriceWrite
<1>3. CASE CatalogueStep
  BY <1>1, <1>2, <1>3 DEF CatalogueStep, NoteWrite, BookTyped
<1>4. ASSUME NEW r \in Request, NEW n \in Nft, NEW p \in Price, ChangePrice(r, n, p)
      PROVE  BookTyped'
  BY <1>1, <1>4 DEF ChangePrice, NoteWrite, BookTyped
<1>5. ASSUME NEW j \in jobs, ApplyPrice(j) \/ RefusePrice(j)
      PROVE  BookTyped'
  BY <1>1, <1>5 DEF ApplyPrice, RefusePrice, BookTyped
<1>6. ASSUME NEW x \in Reindexer, DeleteIndex(x)
      PROVE  BookTyped'
  BY <1>1, <1>6 DEF DeleteIndex, BookTyped, Stored
<1>7. ASSUME NEW x \in Reindexer, CreateIndex(x) \/ Refresh(x)
      PROVE  BookTyped'
  BY <1>1, <1>7 DEF CreateIndex, Refresh, BookTyped
<1>12. ASSUME NEW x \in Reindexer, ReadPage(x)
      PROVE  BookTyped'
  <2>1. UNCHANGED <<indexExists, faults, stale, goal>> /\ disturbed' \subseteq Reindexer
    BY <1>12, ReadPageIs DEF BookTyped
  <2> QED
    BY <1>1, <2>1 DEF BookTyped
<1>8. ASSUME NEW x \in Reindexer, BulkIndex(x)
      PROVE  BookTyped'
  <2>1. \/ faults' = faults
        \/ faults < MaxFaults /\ faults' = faults + 1
    <3>1. PICK done \in SUBSET reindex[x].page :
             /\ done # reindex[x].page => faults < MaxFaults
             /\ faults' = IF done # reindex[x].page THEN faults + 1 ELSE faults
      BY <1>8 DEF BulkIndex
    <3>2. CASE done # reindex[x].page
      BY <3>1, <3>2
    <3>3. CASE done = reindex[x].page
      BY <3>1, <3>3
    <3> QED
      BY <3>2, <3>3
  <2>2. stale' \subseteq stale /\ indexExists' = TRUE /\ UNCHANGED <<disturbed, goal>>
    BY <1>8 DEF BulkIndex
  <2> QED
    BY <1>1, <2>1, <2>2 DEF BookTyped
<1>9. ASSUME NEW x \in Reindexer, AbortReindex(x)
      PROVE  BookTyped'
  BY <1>1, <1>9 DEF AbortReindex, BookTyped
<1>10. CASE ProcessExit
  BY <1>1, <1>10 DEF ProcessExit, BookTyped
<1>11. CASE UNCHANGED vars
  BY <1>1, <1>11 DEF vars, indexVars, BookTyped
<1> QED
  BY <1>3, <1>4, <1>5, <1>6, <1>7, <1>8, <1>9, <1>10, <1>11, <1>12 DEF SearchNext, ReindexStep

\* The index, the calls of deleteAndReindexAll and the pages they hold have
\* their types in every reachable state; no page is larger than its limit.
THEOREM SearchTypeCorrect == SearchSpec => []SearchTypeOK
<1> DEFINE Inv == /\ Typed /\ IndexJobsWritten /\ IndexInv /\ IsFiniteSet(Stored)
                  /\ PagesHeld /\ BookTyped
<1>1. SearchInit => Inv
  <2>1. SearchInit => BookTyped
    BY SearchIndexConstants DEF SearchInit, BookTyped, PastTyped
  <2>2. SearchInit => IsFiniteSet(Stored)
    BY PagingInit DEF PagingInv
  <2> QED
    BY <2>1, <2>2, PagesHeldInit, IndexInit
<1>2. Inv /\ [SearchNext]_vars => Inv'
  <2>1. IndexInv => IndexTyped
    BY DEF IndexInv
  <2> QED
    BY <2>1, SearchStepIsCatalogueStep, TypedStep, IndexJobsStep, IndexStep, StoredFinite,
       PagesHeldStep, BookStep
<1>3. Inv => SearchTypeOK
  BY DEF Typed, IndexInv, IndexTyped, PagesHeld, BookTyped, PastTyped, SearchTypeOK
<1> QED
  BY <1>1, <1>2, <1>3, PTL DEF SearchSpec

-----------------------------------------------------------------------------
(* What is on its way to the index *)

\* A price change whose handler may still write it to the index.
Coming(w) == w \in answering \/ Job("IndexPriceUpdated", w) \in jobs

\* An index job is started once, for a change whose event went out.
IndexJobsEmitted ==
    \A j \in jobs \cup dropped : j.handler = "IndexPriceUpdated" => j.about \in emitted
IndexJobsOnce == \A j \in jobs : j.handler = "IndexPriceUpdated" => j \notin dropped

\* A page shows one price of each of its NFTs.
PagesAreFunctions ==
    \A x \in Reindexer : \A d, e \in reindex[x].page : d.nft = e.nft => d = e

WrittenStored == \A w \in Written : w.nft \in Stored

\* Of an NFT that is not stale, all that is on its way shows its price.
ComingShows ==
    \A w \in Written : Coming(w) /\ w.nft \notin stale => w.price = nfts[w.nft].price

HeldShows ==
    \A x \in Reindexer : \A e \in reindex[x].page :
       e.nft \notin stale => e.price = nfts[e.nft].price

IndexShows ==
    \A n \in Stored \ stale :
       index[n] # NoDoc /\ (\A w \in Written : w.nft = n => ~Coming(w))
         => index[n].price = nfts[n].price

QuietInv ==
    /\ IndexJobsEmitted /\ IndexJobsOnce /\ PagesAreFunctions /\ WrittenStored
    /\ ComingShows /\ HeldShows /\ IndexShows

LEMMA QuietInit == SearchInit => QuietInv
BY DEF SearchInit, Init, QuietInv, IndexJobsEmitted, IndexJobsOnce, PagesAreFunctions,
       WrittenStored, ComingShows, HeldShows, IndexShows, Written, Stored

LEMMA ComingIsInFlight ==
    ASSUME NEW w \in Written, Coming(w) PROVE InFlight(w.nft)
BY DEF Coming, InFlight, Subscribers

LEMMA QuietInvImplies == QuietInv => IndexAgreesWhenQuiet
BY ComingIsInFlight DEF QuietInv, IndexShows, IndexAgreesWhenQuiet

\* What the catalogue's steps other than a price change do to what is coming:
\* nothing starts to come, and what no longer comes was dropped.
IndexJobKept ==
    /\ Written' = Written
    /\ \A w \in Written : Coming(w)' => Coming(w)
    /\ \A w \in Written : Coming(w) => \/ Coming(w)'
                                       \/ Job("IndexPriceUpdated", w) \in dropped' \ dropped
    /\ \A n \in Stored : n \in Stored' /\ nfts'[n].price = nfts[n].price
    /\ IndexJobsEmitted' /\ IndexJobsOnce'

\* Most of them do not touch the jobs of the index.
LEMMA IndexJobsUntouched ==
    ASSUME IndexJobsEmitted, IndexJobsOnce,
           UNCHANGED <<writes, answering, emitted, dropped>>,
           \A j : j.handler = "IndexPriceUpdated" => (j \in jobs' <=> j \in jobs),
           \A n \in Stored : n \in Stored' /\ nfts'[n].price = nfts[n].price
    PROVE  IndexJobKept
<1>1. Written' = Written
  BY DEF Written
<1>2. \A w : Coming(w)' <=> Coming(w)
  BY DEF Coming, Job
<1>3. IndexJobsEmitted' /\ IndexJobsOnce'
  BY DEF IndexJobsEmitted, IndexJobsOnce
<1> QED
  BY <1>1, <1>2, <1>3 DEF IndexJobKept

LEMMA IndexJobAnnounced ==
    ASSUME Typed, AccountInv, IndexJobsEmitted, IndexJobsOnce,
           NEW v \in answering, AnnouncePrice(v)
    PROVE  IndexJobKept
<1>1. /\ jobs' = jobs \cup {Job("HistoryPriceUpdated", v), Job("IndexPriceUpdated", v)}
      /\ answering' = answering \ {v} /\ emitted' = emitted \cup {v}
      /\ UNCHANGED <<nfts, writes, dropped>>
  BY DEF AnnouncePrice, Emit, Subscribers
<1>2. v \notin emitted
  BY DEF AccountInv, NotYetEmitted
<1>3. Written' = Written /\ Stored' = Stored
  BY <1>1 DEF Written, Stored
<1>4. \A w : Coming(w)' <=> Coming(w)
  BY <1>1 DEF Coming, Job
<1>5. IndexJobsEmitted'
  BY <1>1 DEF IndexJobsEmitted, Job
<1>6. Job("IndexPriceUpdated", v) \notin dropped
  BY <1>2 DEF IndexJobsEmitted, Job
<1>7. IndexJobsOnce'
  BY <1>1, <1>6 DEF IndexJobsOnce, Job
<1> QED
  BY <1>1, <1>3, <1>4, <1>5, <1>7 DEF IndexJobKept

LEMMA IndexJobRejected ==
    ASSUME IndexJobsEmitted, IndexJobsOnce, NEW j \in jobs, RejectJob(j)
    PROVE  IndexJobKept
<1>1. /\ jobs' = jobs \ {j} /\ dropped' = dropped \cup {j}
      /\ UNCHANGED <<nfts, writes, answering, emitted>>
  BY DEF RejectJob
<1>2. Written' = Written /\ Stored' = Stored
  BY <1>1 DEF Written, Stored
<1>3. \A w : Coming(w)' => Coming(w)
  BY <1>1 DEF Coming
<1>4. ASSUME NEW w \in Written, Coming(w), ~Coming(w)'
      PROVE  Job("IndexPriceUpdated", w) \in dropped' \ dropped
  <2>1. j = Job("IndexPriceUpdated", w)
    BY <1>1, <1>4 DEF Coming
  <2> QED
    BY <1>1, <2>1 DEF IndexJobsOnce, Job
<1>5. IndexJobsEmitted' /\ IndexJobsOnce'
  BY <1>1 DEF IndexJobsEmitted, IndexJobsOnce
<1> QED
  BY <1>1, <1>2, <1>3, <1>4, <1>5 DEF IndexJobKept

LEMMA IndexJobKeptByCatalogue ==
    ASSUME Typed, AccountInv, IndexJobsEmitted, IndexJobsOnce, CatalogueStep
    PROVE  IndexJobKept
<1>1. ASSUME NEW n \in Nft, NEW k \in SaleKind, NEW p \in Price \cup {NoPrice},
             CreateNft(n, k, p)
      PROVE  IndexJobKept
  <2>1. \A m \in Stored : m \in Stored' /\ nfts'[m].price = nfts[m].price
    BY <1>1 DEF CreateNft, Stored, Typed, TypeOK
  <2> QED
    BY <1>1, <2>1, IndexJobsUntouched DEF CreateNft
<1>2. ASSUME NEW v \in View, NEW n \in Nft, PushEvent(v, n)
      PROVE  IndexJobKept
  BY <1>2, IndexJobsUntouched DEF PushEvent, Job, Stored
<1>3. ASSUME NEW n \in creating, AnnounceNft(n)
      PROVE  IndexJobKept
  BY <1>3, IndexJobsUntouched DEF AnnounceNft, Emit, Subscribers, Job, Stored
<1>4. ASSUME NEW e \in pushing, StoreAnalytic(e)
      PROVE  IndexJobKept
  BY <1>4, IndexJobsUntouched DEF StoreAnalytic, Stored
<1>5. ASSUME NEW j \in jobs, RecordHistory(j) \/ RefuseRecord(j)
      PROVE  IndexJobKept
  BY <1>5, IndexJobsUntouched DEF RecordHistory, RefuseRecord, HistoryHandler, Stored
<1>6. ASSUME NEW j \in jobs, FetchImage(j)
      PROVE  IndexJobKept
  BY <1>6, IndexJobsUntouched DEF FetchImage, Job, Stored
<1>7. ASSUME NEW j \in jobs, UpdateThumbnail(j)
      PROVE  IndexJobKept
  <2>1. j.about \in Nft /\ nfts[j.about] \in NftDoc
    BY <1>7, StoredIsDoc DEF UpdateThumbnail, Typed, TypeOK, JobsAboutStored, CreationHandler,
                             Stored
  <2>2. [nfts[j.about] EXCEPT !.thumbnail = "stored"] # Absent
    BY <2>1, DocUpdates, DocIsNotAbsent
  <2>3. nfts' = [nfts EXCEPT ![j.about] = [nfts[j.about] EXCEPT !.thumbnail = "stored"]]
    BY <1>7 DEF UpdateThumbnail
  <2>4. \A m \in Stored : m \in Stored' /\ nfts'[m].price = nfts[m].price
    BY <2>1, <2>2, <2>3 DEF Stored, Typed, TypeOK, NftDoc
  <2> QED
    BY <1>7, <2>4, IndexJobsUntouched DEF UpdateThumbnail
<1>8. ASSUME NEW j \in jobs, IncreaseViewCount(j)
      PROVE  IndexJobKept
  <2> DEFINE n == j.about.nft
  <2>1. n \in Nft
    BY <1>8 DEF IncreaseViewCount, Typed, TypeOK, AllJobs, ScreenEvent
  <2>2. \A m \in Stored : m \in Stored' /\ nfts'[m].price = nfts[m].price
    <3>1. CASE nfts[n] = Absent
      BY <1>8, <3>1 DEF IncreaseViewCount, Stored
    <3>2. CASE nfts[n] # Absent
      <4>1. nfts[n] \in NftDoc
        BY <2>1, <3>2 DEF Typed, TypeOK
      <4>2. [nfts[n] EXCEPT !.viewCount = @ + 1] # Absent
        BY <4>1, DocUpdates, DocIsNotAbsent
      <4>3. nfts' = [nfts EXCEPT ![n] = [nfts[n] EXCEPT !.viewCount = @ + 1]]
        BY <1>8, <3>2 DEF IncreaseViewCount
      <4> QED
        BY <2>1, <4>1, <4>2, <4>3 DEF Stored, Typed, TypeOK, NftDoc
    <3> QED
      BY <3>1, <3>2
  <2> QED
    BY <1>8, <2>2, IndexJobsUntouched DEF IncreaseViewCount
<1> QED
  BY <1>1, <1>2, <1>3, <1>4, <1>5, <1>6, <1>7, <1>8, IndexJobAnnounced, IndexJobRejected
  DEF CatalogueStep, ServerStep, HandlerStep

\* The price of an NFT is kept, or the NFT is stale, when nothing is written.
LEMMA QuietCatalogue ==
    ASSUME Typed, AccountInv, IndexInv, QuietInv, CatalogueStep
    PROVE  QuietInv'
<1>1. IndexJobKept
  BY IndexJobKeptByCatalogue DEF QuietInv
<1>2. /\ UNCHANGED <<index, reindex>> /\ stale \subseteq stale'
      /\ \A j \in dropped' \ dropped : j.handler = "IndexPriceUpdated" => j.about.nft \in stale'
  BY DEF CatalogueStep
<1>3. PagesAreFunctions' /\ WrittenStored'
  BY <1>1, <1>2 DEF QuietInv, PagesAreFunctions, WrittenStored, IndexJobKept
<1>4. ComingShows'
  BY <1>1, <1>2 DEF QuietInv, ComingShows, WrittenStored, IndexJobKept
<1>5. \A x \in Reindexer : \A e \in reindex[x].page : e.nft \in Stored
  BY DEF IndexInv, IndexTyped, ReindexState, PageEntry, AskedIsAll
<1>6. HeldShows'
  BY <1>1, <1>2, <1>5 DEF QuietInv, HeldShows, IndexJobKept
<1>7. IndexShows'
  <2> SUFFICES ASSUME NEW n \in Stored', n \notin stale', index[n] # NoDoc,
                      \A w \in Written : w.nft = n => ~Coming(w)'
               PROVE  index[n].price = nfts'[n].price
    BY <1>1, <1>2 DEF IndexShows, IndexJobKept
  <2>1. n \in Stored
    BY DEF IndexInv, IndexShowsCommittedPrices, Stored
  <2>2. ASSUME NEW w \in Written, w.nft = n PROVE ~Coming(w)
    BY <1>1, <1>2, <2>2 DEF IndexJobKept, Job
  <2> QED
    BY <1>1, <1>2, <2>1, <2>2 DEF QuietInv, IndexShows, IndexJobKept
<1> QED
  BY <1>1, <1>3, <1>4, <1>6, <1>7 DEF QuietInv, IndexJobKept

\* A change that meets another one, or a held page, makes its NFT stale; one
\* that meets neither is all that is coming.
LEMMA QuietChange ==
    ASSUME Typed, IndexTyped, QuietInv,
           NEW r \in Request, NEW n \in Nft, NEW p \in Price, ChangePrice(r, n, p)
    PROVE  QuietInv'
<1> DEFINE w == [id |-> r, nft |-> n, price |-> p]
<1>1. /\ writes' = Append(writes, w) /\ answering' = answering \cup {w}
      /\ UNCHANGED <<jobs, emitted, dropped, index, reindex>>
      /\ stale' = IF InFlight(n) \/ \E x \in Reindexer : n \in HeldBy(x)
                    THEN stale \cup {n} ELSE stale \ {n}
  BY DEF ChangePrice, UpdateNftFixedPrice
<1>2. Written' = Written \cup {w} /\ w.nft = n /\ w.price = p
  <2>1. w \in PriceWrite /\ writes \in Seq(PriceWrite)
    BY DEF PriceWrite, Typed, TypeOK
  <2> QED
    BY <1>1, <2>1, AppendFacts DEF Written
<1>3. n \in Stored /\ nfts[n] \in NftDoc
  BY DEF ChangePrice, UpdateNftFixedPrice, HasFixedPrice, Typed, TypeOK, Stored
<1>4. Stored' = Stored /\ nfts'[n].price = p /\ \A m \in Nft \ {n} : nfts'[m] = nfts[m]
  <2>1. nfts' = [nfts EXCEPT ![n] = [nfts[n] EXCEPT !.price = p]]
    BY DEF ChangePrice, UpdateNftFixedPrice
  <2>2. [nfts[n] EXCEPT !.price = p] # Absent
    BY <1>3, DocUpdates, DocIsNotAbsent DEF ChangePrice, UpdateNftFixedPrice, HasFixedPrice
  <2> QED
    BY <1>3, <2>1, <2>2 DEF Stored, Typed, TypeOK, NftDoc
<1>5. \A v : Coming(v)' <=> Coming(v) \/ v = w
  BY <1>1 DEF Coming
<1>6. \A m : m # n => (m \in stale' <=> m \in stale)
  BY <1>1
<1>7. n \notin stale' => ~InFlight(n) /\ \A x \in Reindexer : n \notin HeldBy(x)
  BY <1>1
<1>8. IndexJobsEmitted' /\ IndexJobsOnce' /\ PagesAreFunctions'
  BY <1>1 DEF QuietInv, IndexJobsEmitted, IndexJobsOnce, PagesAreFunctions
<1>9. WrittenStored'
  BY <1>2, <1>3, <1>4 DEF QuietInv, WrittenStored
<1>10. ComingShows'
  <2> SUFFICES ASSUME NEW v \in Written', Coming(v)', v.nft \notin stale'
               PROVE  v.price = nfts'[v.nft].price
    BY DEF ComingShows
  <2>1. CASE v = w
    BY <1>2, <1>4, <2>1
  <2>2. CASE v # w
    <3>1. v \in Written /\ Coming(v)
      BY <1>2, <1>5, <2>2
    <3>2. v.nft # n
      BY <1>7, <3>1, ComingIsInFlight
    <3> QED
      BY <1>4, <1>6, <3>1, <3>2 DEF QuietInv, ComingShows, WrittenStored, Stored
  <2> QED
    BY <2>1, <2>2
<1>11. HeldShows'
  <2> SUFFICES ASSUME NEW x \in Reindexer, NEW e \in reindex[x].page, e.nft \notin stale'
               PROVE  e.price = nfts'[e.nft].price
    BY <1>1 DEF HeldShows
  <2>1. e.nft # n /\ e.nft \in Nft
    BY <1>7 DEF HeldBy, IndexTyped, ReindexState, PageEntry
  <2> QED
    BY <1>4, <1>6, <2>1 DEF QuietInv, HeldShows
<1>12. IndexShows'
  <2> SUFFICES ASSUME NEW m \in Stored, m \notin stale', index[m] # NoDoc,
                      \A v \in Written' : v.nft = m => ~Coming(v)'
               PROVE  index[m].price = nfts'[m].price
    BY <1>1, <1>4 DEF IndexShows
  <2>1. m # n
    BY <1>2, <1>5
  <2> QED
    BY <1>2, <1>4, <1>5, <1>6, <2>1 DEF QuietInv, IndexShows, Stored
<1> QED
  BY <1>8, <1>9, <1>10, <1>11, <1>12 DEF QuietInv

\* The handler of the index is done with a price: while its NFT is not stale,
\* that is the NFT's price.
LEMMA QuietApplied ==
    ASSUME Typed, IndexJobsWritten, IndexInv, QuietInv,
           NEW j \in jobs, ApplyPrice(j) \/ RefusePrice(j)
    PROVE  QuietInv'
<1> DEFINE w == j.about
<1>1. /\ j.handler = "IndexPriceUpdated" /\ jobs' = jobs \ {j}
      /\ UNCHANGED <<nfts, writes, answering, emitted, dropped, reindex, stale>>
      /\ \/ index[w.nft] # NoDoc /\ index' = [index EXCEPT ![w.nft] = DocOf(w.price)]
         \/ index[w.nft] = NoDoc /\ index' = index
  BY DEF ApplyPrice, RefusePrice, IndexPrice
<1>2. j = Job("IndexPriceUpdated", w) /\ w \in Written /\ Coming(w)
  BY <1>1, JobIsPair DEF Typed, TypeOK, IndexJobsWritten, Coming
<1>3. w \in PriceWrite
  BY <1>2, ElementOfSeq, LenProperties DEF Typed, TypeOK, Written
<1>4. Stored' = Stored /\ Written' = Written
  BY <1>1 DEF Stored, Written
<1>5. \A v : Coming(v)' => Coming(v)
  BY <1>1 DEF Coming
<1>6. \A v : Coming(v) /\ v # w => Coming(v)'
  BY <1>1, <1>2 DEF Coming, Job
<1>7. IndexJobsEmitted' /\ IndexJobsOnce' /\ PagesAreFunctions' /\ WrittenStored'
  BY <1>1, <1>4 DEF QuietInv, IndexJobsEmitted, IndexJobsOnce, PagesAreFunctions, WrittenStored
<1>8. ComingShows' /\ HeldShows'
  BY <1>1, <1>4, <1>5 DEF QuietInv, ComingShows, HeldShows
<1>9. IndexShows'
  <2> SUFFICES ASSUME NEW n \in Stored, n \notin stale, index'[n] # NoDoc,
                      \A v \in Written : v.nft = n => ~Coming(v)'
               PROVE  index'[n].price = nfts[n].price
    BY <1>1, <1>4 DEF IndexShows
  <2>1. n \in Nft /\ w.nft \in Nft /\ w.price \in Price
    BY <1>3 DEF Stored, PriceWrite
  <2>2. CASE w.nft = n
    <3>1. w.price = nfts[n].price
      BY <1>2, <2>2 DEF QuietInv, ComingShows
    <3>2. index'[n] = DocOf(w.price)
      BY <1>1, <2>1, <2>2 DEF IndexInv, IndexTyped
    <3> QED
      BY <2>1, <3>1, <3>2, DocHasPrice
  <2>3. CASE w.nft # n
    <3>1. index'[n] = index[n]
      BY <1>1, <2>1, <2>3 DEF IndexInv, IndexTyped
    <3> QED
      BY <1>6, <2>3, <3>1 DEF QuietInv, IndexShows
  <2> QED
    BY <2>2, <2>3
<1> QED
  BY <1>7, <1>8, <1>9 DEF QuietInv

\* The catalogue, the index and what is stale stay, or the index is deleted:
\* then what matters is the pages.
LEMMA QuietPages ==
    ASSUME QuietInv, UNCHANGED <<catalogueVars, stale>>,
           index' = index \/ index' = [n \in Nft |-> NoDoc],
           PagesAreFunctions', HeldShows'
    PROVE  QuietInv'
<1>1. /\ UNCHANGED <<nfts, writes, answering, jobs, emitted, dropped>>
      /\ Stored' = Stored /\ Written' = Written
  BY DEF catalogueVars, Stored, Written
<1>2. IndexJobsEmitted' /\ IndexJobsOnce' /\ WrittenStored'
  BY <1>1 DEF QuietInv, IndexJobsEmitted, IndexJobsOnce, WrittenStored
<1>3. \A v : Coming(v)' <=> Coming(v)
  BY <1>1 DEF Coming
<1>4. ComingShows'
  BY <1>1, <1>3 DEF QuietInv, ComingShows
<1>5. IndexShows'
  BY <1>1, <1>3 DEF QuietInv, IndexShows, Stored
<1> QED
  BY <1>2, <1>4, <1>5 DEF QuietInv

\* A page shows the prices its NFTs have when it is read.
LEMMA PageShows ==
    ASSUME NEW page
    PROVE  /\ \A e \in Entries(page) : e.price = nfts[e.nft].price
           /\ \A d, e \in Entries(page) : d.nft = e.nft => d = e
BY DEF Entries

\* Indexing a page that shows an NFT's price, with nothing else on its way to
\* the index, repairs an NFT that was stale.
LEMMA QuietIndexed ==
    ASSUME Typed, IndexInv, PagesHeld, QuietInv, NEW x \in Reindexer, BulkIndex(x)
    PROVE  QuietInv'
<1>1. PICK done \in SUBSET reindex[x].page :
        /\ index' = IndexedInBulk(done)
        /\ stale' = stale \ {e.nft : e \in {d \in done :
                                 /\ d.price = nfts[d.nft].price /\ ~InFlight(d.nft)
                                 /\ \A y \in Reindexer \ {x} : d.nft \notin HeldBy(y)}}
  BY DEF BulkIndex
<1>2. UNCHANGED <<nfts, writes, answering, jobs, emitted, dropped>>
  BY DEF BulkIndex, catalogueVars
<1>3. Stored' = Stored /\ Written' = Written /\ \A v : Coming(v)' <=> Coming(v)
  BY <1>2 DEF Stored, Written, Coming
<1>4. /\ \A y \in Reindexer \ {x} : reindex'[y] = reindex[y]
      /\ reindex'[x].page = {}
  <2>1. ~ReadPage(x)
    BY DEF BulkIndex, ReadPage
  <2> QED
    BY <2>1, PageStep DEF IndexInv, ReindexStep
\* What is stale no more was in the page, alone.
<1>5. \A n \in stale \ stale' :
         /\ \E d \in done : d.nft = n /\ d.price = nfts[n].price
         /\ ~InFlight(n) /\ \A y \in Reindexer \ {x} : n \notin HeldBy(y)
  BY <1>1
<1>6. IndexJobsEmitted' /\ IndexJobsOnce' /\ WrittenStored'
  BY <1>2, <1>3 DEF QuietInv, IndexJobsEmitted, IndexJobsOnce, WrittenStored
<1>7. PagesAreFunctions'
  BY <1>4 DEF QuietInv, PagesAreFunctions
<1>8. ComingShows'
  <2> SUFFICES ASSUME NEW w \in Written, Coming(w), w.nft \notin stale'
               PROVE  w.price = nfts[w.nft].price
    BY <1>2, <1>3 DEF ComingShows
  <2>1. w.nft \notin stale
    BY <1>5, ComingIsInFlight
  <2> QED
    BY <2>1 DEF QuietInv, ComingShows
<1>9. HeldShows'
  <2> SUFFICES ASSUME NEW y \in Reindexer \ {x}, NEW e \in reindex[y].page, e.nft \notin stale'
               PROVE  e.price = nfts[e.nft].price
    BY <1>2, <1>4 DEF HeldShows
  <2>1. e.nft \notin stale
    BY <1>5 DEF HeldBy
  <2> QED
    BY <2>1 DEF QuietInv, HeldShows
<1>10. IndexShows'
  <2> SUFFICES ASSUME NEW n \in Stored, n \notin stale', index'[n] # NoDoc,
                      \A w \in Written : w.nft = n => ~Coming(w)
               PROVE  index'[n].price = nfts[n].price
    BY <1>2, <1>3 DEF IndexShows
  <2>1. n \in Nft
    BY DEF Stored
  <2>2. ASSUME NEW e \in done, e.nft = n PROVE index'[n].price = nfts[n].price
    <3>1. \A d \in done : d.nft = n => d = e
      BY <2>2 DEF QuietInv, PagesAreFunctions
    <3>2. e.price = nfts[n].price
      BY <1>5, <2>2, <3>1 DEF QuietInv, HeldShows
    <3>3. index'[n] = DocOf(e.price)
      <4>1. (CHOOSE d \in done : d.nft = n) = e
        BY <2>2, <3>1
      <4> QED
        BY <1>1, <2>1, <2>2, <4>1 DEF IndexedInBulk
    <3>4. e.price \in Price \cup {NoPrice}
      BY DEF IndexInv, IndexTyped, ReindexState, PageEntry
    <3> QED
      BY <3>2, <3>3, <3>4, DocHasPrice
  <2>3. CASE \A e \in done : e.nft # n
    <3>1. index'[n] = index[n]
      BY <1>1, <2>1, <2>3 DEF IndexedInBulk
    <3>2. n \notin stale
      BY <1>5, <2>3
    <3> QED
      BY <3>1, <3>2 DEF QuietInv, IndexShows
  <2> QED
    BY <2>2, <2>3
<1> QED
  BY <1>6, <1>7, <1>8, <1>9, <1>10 DEF QuietInv

LEMMA QuietExit ==
    ASSUME IndexInv, QuietInv, ProcessExit
    PROVE  QuietInv'
<1>1. /\ UNCHANGED <<nfts, writes, emitted, index>>
      /\ jobs' = {} /\ answering' = {} /\ dropped' = dropped \cup jobs
      /\ stale' = stale \cup {n \in Nft : InFlight(n)}
  BY DEF ProcessExit, Exit
<1>2. \A x \in Reindexer : reindex'[x] = reindex[x] \/ reindex'[x].page = {}
  <2>1. \A x \in Reindexer : reindex'[x] = IF Running(x)
                                             THEN [reindex[x] EXCEPT !.pc = "threw", !.page = {}]
                                             ELSE reindex[x]
    BY DEF ProcessExit
  <2> QED
    BY <2>1 DEF IndexInv, IndexTyped, ReindexState
<1>3. Stored' = Stored /\ Written' = Written /\ \A v : ~Coming(v)'
  BY <1>1 DEF Stored, Written, Coming
<1>4. IndexJobsEmitted' /\ IndexJobsOnce' /\ WrittenStored' /\ ComingShows'
  BY <1>1, <1>3 DEF QuietInv, IndexJobsEmitted, IndexJobsOnce, WrittenStored, ComingShows
<1>5. PagesAreFunctions' /\ HeldShows'
  BY <1>1, <1>2 DEF QuietInv, PagesAreFunctions, HeldShows
<1>6. IndexShows'
  <2> SUFFICES ASSUME NEW n \in Stored, n \notin stale', index[n] # NoDoc
               PROVE  index[n].price = nfts[n].price
    BY <1>1, <1>3 DEF IndexShows
  <2>1. n \notin stale /\ ~InFlight(n)
    BY <1>1 DEF Stored
  <2> QED
    BY <2>1, ComingIsInFlight DEF QuietInv, IndexShows
<1> QED
  BY <1>4, <1>5, <1>6 DEF QuietInv

LEMMA QuietStep ==
    Typed /\ AccountInv /\ IndexJobsWritten /\ IndexInv /\ PagesHeld /\ QuietInv
      /\ [SearchNext]_vars => QuietInv'
<1> SUFFICES ASSUME Typed, AccountInv, IndexJobsWritten, IndexInv, PagesHeld, QuietInv,
                    [SearchNext]_vars
             PROVE  QuietInv'
  OBVIOUS
<1>1. CASE CatalogueStep
  BY <1>1, QuietCatalogue
<1>2. ASSUME NEW r \in Request, NEW n \in Nft, NEW p \in Price, ChangePrice(r, n, p)
      PROVE  QuietInv'
  BY <1>2, QuietChange DEF IndexInv
<1>3. ASSUME NEW j \in jobs, ApplyPrice(j) \/ RefusePrice(j)
      PROVE  QuietInv'
  BY <1>3, QuietApplied
<1>4. ASSUME NEW x \in Reindexer, BulkIndex(x)
      PROVE  QuietInv'
  BY <1>4, QuietIndexed
<1>5. ASSUME NEW x \in Reindexer, ReindexStep(x) \/ AbortReindex(x), ~BulkIndex(x)
      PROVE  QuietInv'
  <2>1. /\ UNCHANGED <<catalogueVars, stale>>
        /\ index' = index \/ index' = [n \in Nft |-> NoDoc]
    BY <1>5 DEF ReindexStep, DeleteIndex, CreateIndex, ReadPage, Refresh, AbortReindex
  <2>2. /\ \A y \in Reindexer \ {x} : reindex'[y] = reindex[y]
        /\ reindex'[x].page = {} \/ \E page : reindex'[x].page = Entries(page)
    BY <1>5, PageStep DEF IndexInv
  <2>3. UNCHANGED nfts
    BY <2>1 DEF catalogueVars
  <2>4. PagesAreFunctions'
    BY <2>2, PageShows DEF QuietInv, PagesAreFunctions
  <2>5. HeldShows'
    BY <2>1, <2>2, <2>3, PageShows DEF QuietInv, HeldShows
  <2> QED
    BY <2>1, <2>4, <2>5, QuietPages
<1>6. CASE ProcessExit
  BY <1>6, QuietExit
<1>7. CASE UNCHANGED vars
  <2>1. UNCHANGED <<catalogueVars, index, reindex, stale, nfts>>
    BY <1>7 DEF vars, indexVars, catalogueVars
  <2>2. PagesAreFunctions' /\ HeldShows'
    BY <2>1 DEF QuietInv, PagesAreFunctions, HeldShows
  <2> QED
    BY <2>1, <2>2, QuietPages
<1> QED
  BY <1>1, <1>2, <1>3, <1>4, <1>5, <1>6, <1>7 DEF SearchNext

\* Where no price changes of an NFT overlapped, none met a held page and none
\* was dropped, or where a later lone change or page made up for it, the index
\* shows the price that the NFT has as soon as its handlers are done.
THEOREM QuietIndexAgrees == SearchSpec => []IndexAgreesWhenQuiet
<1> DEFINE Inv == /\ Typed /\ AccountInv /\ IndexJobsWritten /\ IndexInv /\ IsFiniteSet(Stored)
                  /\ PagesHeld /\ QuietInv
<1>1. SearchInit => Inv
  <2>1. SearchInit => AccountInv
    BY AccountInit DEF SearchInit
  <2>2. SearchInit => IsFiniteSet(Stored)
    BY PagingInit DEF PagingInv
  <2> QED
    BY <2>1, <2>2, IndexInit, PagesHeldInit, QuietInit
<1>2. Inv /\ [SearchNext]_vars => Inv'
  <2>1. IndexInv => IndexTyped
    BY DEF IndexInv
  <2>2. Inv /\ [SearchNext]_vars => [Next]_catalogueVars
    BY SearchStepIsCatalogueStep
  <2>3. Inv /\ [SearchNext]_vars => Typed' /\ AccountInv'
    BY <2>2, TypedStep, AccountStep
  <2>4. Inv /\ [SearchNext]_vars => IndexJobsWritten' /\ IndexInv'
    BY <2>2, IndexJobsStep, IndexStep
  <2>5. Inv /\ [SearchNext]_vars => PagesHeld' /\ QuietInv'
    BY <2>1, PagesHeldStep, QuietStep
  <2>6. Inv /\ [SearchNext]_vars => IsFiniteSet(Stored')
    BY <2>2, StoredFinite
  <2> QED
    BY <2>3, <2>4, <2>5, <2>6
<1>3. Inv => IndexAgreesWhenQuiet
  BY QuietInvImplies
<1> QED
  BY <1>1, <1>2, <1>3, PTL DEF SearchSpec
=============================================================================
