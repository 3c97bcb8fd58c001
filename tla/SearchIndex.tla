----------------------------- MODULE SearchIndex -----------------------------
(***************************************************************************)
(* NftElasticsearchService beside the catalogue it is derived from: the    *)
(* handler that applies price changes to the index, and the job that       *)
(* deletes the index and fills it again page by page.                      *)
(*                                                                         *)
(* Nothing orders the handler, the catalogue's writes and the job's steps. *)
(* The handler of NftCreatedEvent is not here: no emitted event reaches it *)
(* (Catalogue!Subscribers), so documents enter the index by the job alone. *)
(* Nobody emits the sale, bookmark and sold events either.                 *)
(***************************************************************************)
EXTENDS Catalogue

CONSTANTS
    Reindexer,    \* calls of _devElasticsearchNftIndexSync
    BatchSize,    \* NFTs per page; 50 in the code
    MaxFaults     \* bound: failures injected into those calls

ASSUME SearchIndexConstants ==
    /\ BatchSize \in Nat \ {0}
    /\ MaxFaults \in Nat

VARIABLES
    indexExists,  \* is there an Elasticsearch index of that name?
    index,        \* its documents: Nft -> price field, or NoDoc
    reindex,      \* Reindexer -> what that call of deleteAndReindexAll has done
    faults,       \* how many steps of these calls have failed
    asked,        \* ghost: Nft -> the prices it has ever had
    stale,        \* ghost: NFTs whose document may lag behind for good
    disturbed,    \* ghost: calls whose paging or index was disturbed
    goal,         \* ghost: the NFTs that were stored when a call began
    past          \* ghost: the NFTs that the pages of a call have shown

indexVars == <<indexExists, index, reindex, faults, asked, stale, disturbed, goal, past>>
vars == <<catalogueVars, indexVars>>

NoDoc == [doc |-> "none"]
Doc == [doc: {"price"}, price: Price \cup {NoPrice}]
DocOf(p) == [doc |-> "price", price |-> p]

PageEntry == [nft: Nft, price: Price \cup {NoPrice}]

ReindexState ==
    [pc: {"delete", "create", "read", "bulk", "refresh", "succeeded", "threw"},
     skip: Nat, page: SUBSET PageEntry, errors: BOOLEAN]

Running(x) == reindex[x].pc \in {"create", "read", "bulk", "refresh"}

\* How a query sorted by updatedAt may divide the stored NFTs: those it skips,
\* its page, and the rest.  It leaves open how NFTs of one date are ordered, and
\* two queries may order them differently.
Sorted(before, page) ==
    LET after == Stored \ (before \cup page) IN
    /\ \A n \in before, m \in page \cup after : updatedAt[n] <= updatedAt[m]
    /\ \A n \in page, m \in after : updatedAt[n] <= updatedAt[m]

\* As many NFTs of a set as a limit lets through.
Limited(some, limit, all) ==
    \/ Cardinality(some) = limit
    \/ Cardinality(some) < limit /\ some = all

\* What createBulkIndexPayloads is given of a page.
Entries(page) == {[nft |-> n, price |-> nfts[n].price] : n \in page}

\* Mutant: the query forgets its limit.
PagesUnlimited(skip) ==
    {page \in SUBSET Stored : \E before \in SUBSET (Stored \ page) :
        Sorted(before, page) /\ Limited(before, skip, Stored) /\ page = Stored \ before}

\* Mutant: the query is not sorted.
PagesUnsorted(skip) ==
    {page \in SUBSET Stored : \E before \in SUBSET (Stored \ page) :
        Limited(before, skip, Stored) /\ Limited(page, BatchSize, Stored \ before)}

\* getMany(filter, {skip, limit, sort: {updatedAt: 1}}): what may come back.
Pages(skip) ==
    {page \in SUBSET Stored : \E before \in SUBSET (Stored \ page) :
        /\ Sorted(before, page)
        /\ Limited(before, skip, Stored)
        /\ Limited(page, BatchSize, Stored \ before)}

\* Mutant: the batch index does not advance.
SameSkip(skip) == skip

\* Where the next page begins.
NextSkip(skip) == skip + BatchSize

\* The errors of every page are collected.
Collected(errors, failed) == errors \/ failed

\* Mutant: the bulk operation creates, and leaves the documents that exist.
CreatedInBulk(done) ==
    [n \in Nft |-> IF index[n] = NoDoc /\ \E e \in done : e.nft = n
                     THEN DocOf((CHOOSE e \in done : e.nft = n).price)
                     ELSE index[n]]

\* The index after the items "done" of a bulk request went in.
IndexedInBulk(done) ==
    [n \in Nft |-> IF \E e \in done : e.nft = n
                     THEN DocOf((CHOOSE e \in done : e.nft = n).price)
                     ELSE index[n]]

\* The NFTs a call holds between reading a page and indexing it.
HeldBy(x) == {e.nft : e \in reindex[x].page}

-----------------------------------------------------------------------------
SearchInit ==
    /\ Init
    /\ indexExists \in BOOLEAN
    /\ index = [n \in Nft |-> NoDoc]
    /\ reindex = [x \in Reindexer |->
                    [pc |-> "delete", skip |-> 0, page |-> {}, errors |-> FALSE]]
    /\ faults = 0
    /\ asked = [n \in Nft |-> {}]
    /\ stale = {} /\ disturbed = {}
    /\ goal = [x \in Reindexer |-> {}] /\ past = [x \in Reindexer |-> {}]

\* handleNftPriceUpdatedEvent of the search index: a partial update of a document.
ApplyPrice(j) ==
    /\ IndexPrice(j)
    /\ index[j.about.nft] # NoDoc
    /\ index' = [index EXCEPT ![j.about.nft] = DocOf(j.about.price)]
    /\ UNCHANGED <<indexExists, reindex, faults, asked, stale, disturbed, goal, past>>

\* There is no such document.  With no index at all, Elasticsearch creates one
\* before it looks for the document.
RefusePrice(j) ==
    /\ IndexPrice(j)
    /\ index[j.about.nft] = NoDoc
    /\ indexExists' = TRUE
    /\ UNCHANGED <<index, reindex, faults, asked, stale, disturbed, goal, past>>

-----------------------------------------------------------------------------
(* deleteAndReindexAll *)

Advance(x, state) == reindex' = [reindex EXCEPT ![x] = state]

\* deleteIndex, with ignore_unavailable.
DeleteIndex(x) ==
    /\ reindex[x].pc = "delete"
    /\ Advance(x, [reindex[x] EXCEPT !.pc = "create"])
    /\ indexExists' = FALSE
    /\ index' = [n \in Nft |-> NoDoc]
    /\ disturbed' = disturbed \cup {y \in Reindexer \ {x} : reindex[y].pc # "delete"}
    /\ goal' = [goal EXCEPT ![x] = Stored]
    /\ UNCHANGED <<catalogueVars, faults, asked, stale, past>>

\* Mutant: an index that is there again is replaced by an empty one.
CreateIndexAnew(x) ==
    /\ reindex[x].pc = "create"
    /\ Advance(x, [reindex[x] EXCEPT !.pc = "read"])
    /\ indexExists' = TRUE
    /\ index' = [n \in Nft |-> NoDoc]
    /\ UNCHANGED <<catalogueVars, faults, asked, stale, disturbed, goal, past>>

\* createIndex throws when the index is there again.
CreateIndex(x) ==
    /\ reindex[x].pc = "create"
    /\ Advance(x, [reindex[x] EXCEPT !.pc = IF indexExists THEN "threw" ELSE "read"])
    /\ indexExists' = TRUE
    /\ UNCHANGED <<catalogueVars, index, faults, asked, stale, disturbed, goal, past>>

\* An NFT that was shown and one that was not have the same date.
EndsInTie(shown) ==
    \E n \in shown, m \in Stored \ shown : updatedAt[n] = updatedAt[m]

\* One getMany of the loop; an empty page ends it.
ReadPage(x) ==
    /\ reindex[x].pc = "read"
    /\ \E page \in Pages(reindex[x].skip) :
         /\ Advance(x, [reindex[x] EXCEPT
                !.pc = IF page = {} THEN "refresh" ELSE "bulk",
                !.page = Entries(page)])
         /\ past' = [past EXCEPT ![x] = @ \cup page]
         /\ disturbed' = disturbed \cup (IF EndsInTie(past'[x]) THEN {x} ELSE {})
    /\ UNCHANGED <<catalogueVars, indexExists, index, faults, asked, stale, goal>>

\* bulkIndexNftDocs, after createBulkIndexPayloads has awaited the history and
\* the users.  Items that fail are remembered and the loop goes on.  Indexing
\* creates the index where there is none.
BulkIndex(x) ==
    /\ reindex[x].pc = "bulk"
    /\ \E done \in SUBSET reindex[x].page :
         LET failed == done # reindex[x].page
             Fresh(e) == /\ e.price = nfts[e.nft].price
                         /\ ~InFlight(e.nft)
                         /\ \A y \in Reindexer \ {x} : e.nft \notin HeldBy(y)
         IN
         /\ failed => faults < MaxFaults
         /\ faults' = IF failed THEN faults + 1 ELSE faults
         /\ index' = IndexedInBulk(done)
         /\ stale' = stale \ {e.nft : e \in {d \in done : Fresh(d)}}
         /\ Advance(x, [reindex[x] EXCEPT !.pc = "read", !.page = {},
                                          !.skip = NextSkip(@),
                                          !.errors = Collected(@, failed)])
    /\ indexExists' = TRUE
    /\ UNCHANGED <<catalogueVars, asked, disturbed, goal, past>>

\* refreshIndex throws when the index is gone; collected errors throw last.
Refresh(x) ==
    /\ reindex[x].pc = "refresh"
    /\ Advance(x, [reindex[x] EXCEPT !.pc = IF indexExists /\ ~reindex[x].errors
                                             THEN "succeeded" ELSE "threw"])
    /\ UNCHANGED <<catalogueVars, indexExists, index, faults, asked, stale, disturbed, goal, past>>

\* Any await of the job rejects, and nothing is undone.
AbortReindex(x) ==
    /\ Running(x)
    /\ faults < MaxFaults
    /\ faults' = faults + 1
    /\ Advance(x, [reindex[x] EXCEPT !.pc = "threw", !.page = {}])
    /\ UNCHANGED <<catalogueVars, indexExists, index, asked, stale, disturbed, goal, past>>

ReindexStep(x) ==
    \/ DeleteIndex(x) \/ CreateIndex(x) \/ ReadPage(x)
    \/ BulkIndex(x) \/ Refresh(x)

-----------------------------------------------------------------------------
(* The catalogue's own steps, and what they mean for the ghosts.  The pages   *)
(* of a call shift when a write gives a date to an NFT it has shown, or to     *)
(* any other a date as early as one of those; a price change that meets        *)
(* another one, or a page held by a call, may end with the older price in the  *)
(* index, until a lone change repairs it.                                      *)

Shifted(x) ==
    \E n \in Stored' :
       /\ n \notin Stored \/ updatedAt'[n] # updatedAt[n]
       /\ n \in past[x] \/ \E m \in past[x] : updatedAt'[n] <= updatedAt[m]

\* What every step of the catalogue that writes an NFT means for the ghosts.
NoteWrite ==
    /\ disturbed' = disturbed \cup {x \in Reindexer : Running(x) /\ Shifted(x)}
    /\ asked' = [n \in Nft |-> IF nfts'[n] = Absent THEN {}
                                                    ELSE asked[n] \cup {nfts'[n].price}]

CatalogueStep ==
    /\ \/ ServerStep
       \/ \E n \in Nft, k \in SaleKind, p \in Price \cup {NoPrice} : CreateNft(n, k, p)
       \/ \E v \in View, n \in Nft : PushEvent(v, n)
    /\ NoteWrite
    /\ stale' = stale \cup {j.about.nft : j \in {d \in dropped' \ dropped :
                                                   d.handler = "IndexPriceUpdated"}}
    /\ UNCHANGED <<indexExists, index, reindex, faults, goal, past>>

ChangePrice(r, n, p) ==
    /\ UpdateNftFixedPrice(r, n, p)
    /\ NoteWrite
    /\ stale' = IF InFlight(n) \/ \E x \in Reindexer : n \in HeldBy(x)
                  THEN stale \cup {n} ELSE stale \ {n}
    /\ UNCHANGED <<indexExists, index, reindex, faults, goal, past>>

\* The job dies with the process; index and documents stay as they are.
ProcessExit ==
    /\ Exit
    /\ reindex' = [x \in Reindexer |->
                     IF Running(x) THEN [reindex[x] EXCEPT !.pc = "threw", !.page = {}]
                                   ELSE reindex[x]]
    /\ stale' = stale \cup {n \in Nft : InFlight(n)}
    /\ UNCHANGED <<indexExists, index, faults, asked, disturbed, goal, past>>

SearchNext ==
    \/ CatalogueStep
    \/ \E r \in Request, n \in Nft, p \in Price : ChangePrice(r, n, p)
    \/ \E j \in jobs : ApplyPrice(j) \/ RefusePrice(j)
    \/ \E x \in Reindexer : ReindexStep(x) \/ AbortReindex(x)
    \/ ProcessExit

SearchSpec == SearchInit /\ [][SearchNext]_vars

\* The job is one async function that the event loop drives on.
FairSearchSpec ==
    /\ SearchSpec
    /\ \A x \in Reindexer : WF_vars(ReindexStep(x))

-----------------------------------------------------------------------------
(* Properties *)

SearchTypeOK ==
    /\ TypeOK
    /\ indexExists \in BOOLEAN
    /\ index \in [Nft -> Doc \cup {NoDoc}]
    /\ reindex \in [Reindexer -> ReindexState]
    /\ \A x \in Reindexer : /\ Cardinality(reindex[x].page) <= BatchSize
                            /\ reindex[x].page # {} => reindex[x].pc = "bulk"
    /\ faults \in 0..MaxFaults
    /\ asked \in [Nft -> SUBSET (Price \cup {NoPrice})]
    /\ stale \subseteq Nft /\ disturbed \subseteq Reindexer
    /\ goal \in [Reindexer -> SUBSET Nft] /\ past \in [Reindexer -> SUBSET Nft]

\* The index never shows a price that the NFT never had, nor an NFT that is
\* not stored, however the handler and the pages held by several calls of
\* deleteAndReindexAll interleave.
IndexShowsCommittedPrices ==
    \A n \in Nft : index[n] # NoDoc =>
       /\ indexExists
       /\ n \in Stored
       /\ index[n].price \in asked[n]

\* A call of deleteAndReindexAll that reported success has indexed every NFT that
\* was there at its start, whatever else was written, unless something shifted its
\* pages: an NFT it had read was written again, another landed with a date as early
\* as one it had read, or a page ended between two of one date; or unless another
\* call deleted its index.
ReindexComplete ==
    \A x \in Reindexer \ disturbed :
       reindex[x].pc = "succeeded" => \A n \in goal[x] : index[n] # NoDoc

\* No tie leaves an order open.
DatesDiffer == \A n, m \in Stored : n # m => updatedAt[n] # updatedAt[m]

\* "For now we just iterate over all NFTs": a lone call that reported success
\* has indexed every NFT that was there at its start, whatever was written
\* meanwhile, at least where no two NFTs have one date.
ReindexIteratesOverAll ==
    \A x \in Reindexer :
       Reindexer = {x} /\ reindex[x].pc = "succeeded" /\ DatesDiffer =>
          \A n \in goal[x] : index[n] # NoDoc

\* A created NFT is indexed by the handler of NftCreatedEvent, "just created,
\* nobody bookmarked it yet": when the handlers of its creation are done and
\* the index was never deleted, its document is there.
CreatedNftIndexed ==
    \A n \in announced :
       /\ \A j \in jobs \cup dropped : j.about # n
       /\ \A x \in Reindexer : reindex[x].pc = "delete"
       => index[n] # NoDoc

\* Where no two price changes of an NFT overlapped since, none met a held page
\* and none was dropped, the index shows the NFT's price once its handlers are
\* done; and one lone change, or one undisturbed page, repairs an older lag.
IndexAgreesWhenQuiet ==
    \A n \in Stored \ stale :
       index[n] # NoDoc /\ ~InFlight(n) => index[n].price = nfts[n].price

\* Every call that started ends: NFTs that writes move behind what was read do
\* not keep the loop from reaching an empty page.
ReindexEnds == \A x \in Reindexer : Running(x) ~> ~Running(x)
=============================================================================
