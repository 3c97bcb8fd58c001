---------------------------- MODULE RequestsProofs ----------------------------
(***************************************************************************)
(* The properties of requests for every set of requests, users and         *)
(* documents, every database to start from and whatever is asked of it.    *)
(***************************************************************************)
EXTENDS Requests, TLAPS

-----------------------------------------------------------------------------
(* How a request moves. *)

Attributes == {"stage", "ask", "ctx", "at", "rows", "stamp", "due", "cache", "shown", "read",
               "allowed", "hits", "preferences", "code", "began", "made", "ran", "after", "active"}
Shaped(r) == DOMAIN r = Attributes
CallsShaped == DOMAIN calls = Call /\ \A c \in Call : Shaped(calls[c])

\* From r to s, a running request goes on with its field.
GoesOn(r, s) ==
    /\ Running(r) /\ Running(s) /\ Shaped(s) /\ s.stage \in Stages
    /\ s.ask = r.ask /\ s.ctx = r.ctx /\ s.began = r.began
    /\ s.at = r.at /\ s.ran = r.ran /\ s.code = r.code /\ s.after = r.after

\* It makes no document and loads no user.
SameWorks(r, s) == s.made = r.made /\ s.allowed = r.allowed
SameLoads(r, s) == s.cache = r.cache /\ s.shown = r.shown
Works(r, s) == GoesOn(r, s) /\ SameWorks(r, s) /\ SameLoads(r, s) /\ s.stage # "insert"

Refused(r, s) ==
    Running(r) /\ \E code \in {"BAD_USER_INPUT", "CONFLICT", "INTERNAL"} : s = Answered(r, code)
TurnsToNext(r, s) ==
    Running(r) /\ r.at < Len(r.ask.fields) /\ s = Resolved(r, r.at + 1)
Concludes(r, s) == Running(r) /\ \E code \in Verdicts(r) : s = Answered(r, code)

LEMMA BecomesFacts ==
    ASSUME CallsShaped, NEW c \in Call, NEW s, Becomes(c, s), Shaped(s)
    PROVE  /\ CallsShaped'
           /\ calls'[c] = s
           /\ \A d \in Call \ {c} : calls'[d] = calls[d]
BY DEF CallsShaped, Becomes, Shaped, Attributes

LEMMA NoCallShaped == Shaped(NoCall)
BY DEF Shaped, Attributes, NoCall

LEMMA AnsweredFacts ==
    ASSUME NEW r, NEW code, Shaped(r)
    PROVE  LET s == Answered(r, code) IN
           /\ Shaped(s) /\ s.stage = "done" /\ s.code = code
           /\ s.ask = r.ask /\ s.ctx = r.ctx /\ s.began = r.began /\ s.at = r.at /\ s.ran = r.ran
           /\ s.after = r.after /\ s.read = r.read /\ SameWorks(r, s) /\ SameLoads(r, s)
BY DEF Answered, Shaped, Attributes, SameWorks, SameLoads

LEMMA ResolvedFacts ==
    ASSUME NEW r, NEW at, Shaped(r)
    PROVE  LET s == Resolved(r, at)
               e == r.ask.fields[at].endpoint
               verdict == Guard(e, r.ctx, r.ask.devToken) IN
           /\ Shaped(s) /\ s.ask = r.ask /\ s.ctx = r.ctx /\ s.began = r.began /\ s.at = at
           /\ s.after = r.after /\ s.read = r.read /\ SameWorks(r, s) /\ SameLoads(r, s)
           /\ verdict = "OK" => s.stage = "run" /\ s.code = r.code /\ s.ran = r.ran \cup {e}
           /\ verdict # "OK" => s.stage = "done" /\ s.code = verdict /\ s.ran = r.ran
<1> DEFINE e == r.ask.fields[at].endpoint
           verdict == Guard(e, r.ctx, r.ask.devToken)
           t == [r EXCEPT !.at = at]
<1>1. CASE verdict = "OK"
  <2>1. Resolved(r, at)
          = [r EXCEPT !.stage = "run", !.at = at, !.ran = @ \cup {e}, !.rows = Rows]
    BY <1>1 DEF Resolved
  <2> QED  BY <1>1, <2>1 DEF Shaped, Attributes, SameWorks, SameLoads
<1>2. CASE verdict # "OK"
  <2>1. Resolved(r, at) = Answered(t, verdict)
    BY <1>2 DEF Resolved
  <2>2. /\ Shaped(t) /\ t.at = at /\ t.ask = r.ask /\ t.ctx = r.ctx /\ t.began = r.began
        /\ t.after = r.after /\ t.ran = r.ran /\ t.read = r.read /\ SameWorks(r, t) /\ SameLoads(r, t)
    BY DEF Shaped, Attributes, SameWorks, SameLoads
  <2> HIDE DEF t, verdict
  <2> QED  BY <1>2, <2>1, <2>2, AnsweredFacts DEF SameWorks, SameLoads, verdict
<1> QED  BY <1>1, <1>2

LEMMA ReturningWorks ==
    ASSUME NEW r, NEW rows, Shaped(r), Running(r)
    PROVE  Works(r, Returning(r, rows))
<1> DEFINE next == [r EXCEPT !.stage = "load", !.rows = rows, !.read = @ \cup Ids(rows.users)]
           due == {l \in Refs \cup {"users"} : Keys(next, l) # {}}
<1>1. Returning(r, rows) = [next EXCEPT !.due = due]
  BY DEF Returning
<1>2. Works(r, next)
  BY DEF Works, GoesOn, SameWorks, SameLoads, Shaped, Attributes, Running, Stages
<1> HIDE DEF next, due
<1>3. Works(r, [next EXCEPT !.due = due])
  BY <1>2 DEF Works, GoesOn, SameWorks, SameLoads, Shaped, Attributes, Running
<1> QED  BY <1>1, <1>3

\* Request c makes a step that changes no document.
Proceeds(c) ==
    \E s : /\ Becomes(c, s)
           /\ Works(calls[c], s) \/ Refused(calls[c], s)

LEMMA ReturnsProceeds ==
    ASSUME CallsShaped, NEW c \in Call, NEW rows, Running(calls[c]), Returns(c, rows)
    PROVE  Proceeds(c)
BY ReturningWorks DEF Proceeds, Returns, CallsShaped

LEMMA AnswersProceeds ==
    ASSUME NEW c \in Call, Running(calls[c]),
           NEW code \in {"BAD_USER_INPUT", "CONFLICT", "INTERNAL"}, Answers(c, code)
    PROVE  Proceeds(c)
BY DEF Proceeds, Answers, Refused

LEMMA AtRuns ==
    ASSUME NEW c \in Call, NEW stage, NEW e, At(c, stage, e), stage \notin {"idle", "done"}
    PROVE  Running(calls[c])
BY DEF At, Running

-----------------------------------------------------------------------------
(* Reading *)

LEMMA ListsProceeds ==
    ASSUME CallsShaped, NEW c \in Call, NEW e, NEW answers, Lists(c, e, answers)
    PROVE  Proceeds(c)
<1>1. Running(calls[c])
  BY AtRuns DEF Lists
<1>2. \/ Answers(c, "BAD_USER_INPUT") \/ Answers(c, "INTERNAL")
      \/ \E rows \in answers : Returns(c, rows)
  BY DEF Lists
<1> QED  BY <1>1, <1>2, ReturnsProceeds, AnswersProceeds

LEMMA ReadProceeds ==
    ASSUME CallsShaped, NEW c \in Call, Read(c)
    PROVE  Proceeds(c) /\ OnlyCalls
<1>1. CASE ListUsers(c) \/ ListNfts(c) \/ ListCollections(c) \/ ListHistory(c)
  BY <1>1, ListsProceeds DEF ListUsers, ListNfts, ListCollections, ListHistory, Lists
<1>2. CASE ListTags(c) \/ ListLicences(c)
  BY <1>2, AtRuns, ReturnsProceeds DEF ListTags, ListLicences
<1>3. CASE ReadMe(c)
  BY <1>3, AtRuns, ReturnsProceeds, AnswersProceeds DEF ReadMe
<1>4. CASE ReadFeedProfiles(c)
  <2> DEFINE page == FeedPage(Field(calls[c]), ProfilesPerPage, "lastActivity")
             moved(s) == [calls[c] EXCEPT !.stage = "feedNfts", !.rows.users = Profiles(s),
                            !.active = [u \in DOMAIN users |-> users[u].lastActivity]]
  <2>1. Running(calls[c]) /\ OnlyCalls
    BY <1>4, AtRuns DEF ReadFeedProfiles
  <2>2. Answers(c, "INTERNAL") \/ \E s \in GetUsers(AnyUser, page) : Becomes(c, moved(s))
    BY <1>4 DEF ReadFeedProfiles
  <2>3. ASSUME NEW s PROVE Works(calls[c], moved(s))
    BY <2>1 DEF Works, GoesOn, SameWorks, SameLoads, Shaped, Attributes, CallsShaped, Running,
                Stages
  <2> HIDE DEF moved
  <2> QED  BY <2>1, <2>2, <2>3, AnswersProceeds DEF Proceeds
<1>5. CASE ReadFeedNfts(c)
  <2> DEFINE moved(s) == [calls[c] EXCEPT !.stage = "feedCollections", !.rows.nfts = s]
  <2>1. Running(calls[c]) /\ OnlyCalls /\ \E s : Becomes(c, moved(s))
    BY <1>5, AtRuns DEF ReadFeedNfts
  <2>2. ASSUME NEW s PROVE Works(calls[c], moved(s))
    BY <2>1 DEF Works, GoesOn, SameWorks, SameLoads, Shaped, Attributes, CallsShaped, Running,
                Stages
  <2> HIDE DEF moved
  <2> QED  BY <2>1, <2>2 DEF Proceeds
<1>6. CASE ReadFeedCollections(c)
  BY <1>6, AtRuns, ReturnsProceeds DEF ReadFeedCollections
<1>7. CASE Prefer(c)
  <2>1. PICK preferences :
           \/ Answers(c, "INTERNAL")
           \/ Becomes(c, [calls[c] EXCEPT !.stage = "search", !.preferences = preferences])
    BY <1>7 DEF Prefer
  <2>2. Running(calls[c]) /\ OnlyCalls
    BY <1>7, AtRuns DEF Prefer
  <2>3. Works(calls[c], [calls[c] EXCEPT !.stage = "search", !.preferences = preferences])
    BY <2>2 DEF Works, GoesOn, SameWorks, SameLoads, Shaped, Attributes, CallsShaped, Running,
                Stages
  <2> QED  BY <2>1, <2>2, <2>3, AnswersProceeds DEF Proceeds
<1>8. CASE Search(c)
  <2>1. PICK hits :
           \/ Answers(c, "INTERNAL")
           \/ Becomes(c, [calls[c] EXCEPT !.stage = "fetch", !.hits = hits])
    BY <1>8 DEF Search
  <2>2. Running(calls[c]) /\ OnlyCalls
    BY <1>8, AtRuns DEF Search
  <2>3. Works(calls[c], [calls[c] EXCEPT !.stage = "fetch", !.hits = hits])
    BY <2>2 DEF Works, GoesOn, SameWorks, SameLoads, Shaped, Attributes, CallsShaped, Running,
                Stages
  <2> QED  BY <2>1, <2>2, <2>3, AnswersProceeds DEF Proceeds
<1>9. CASE FetchHits(c)
  <2>1. Running(calls[c])
    BY <1>9, AtRuns DEF FetchHits
  <2>2. OnlyCalls /\ \E rows : Returns(c, rows)
    BY <1>9 DEF FetchHits
  <2> QED  BY <2>1, <2>2, ReturnsProceeds
<1>10. CASE RunTests(c)
  BY <1>10, AtRuns, ReturnsProceeds DEF RunTests
<1> QED
  BY <1>1, <1>2, <1>3, <1>4, <1>5, <1>6, <1>7, <1>8, <1>9, <1>10 DEF Read, Listing

-----------------------------------------------------------------------------
(* Loading and finishing *)

LEMMA LoadRefsProceeds ==
    ASSUME CallsShaped, NEW c \in Call, LoadRefs(c)
    PROVE  Proceeds(c) /\ OnlyCalls
<1>1. PICK due :
         /\ calls[c].stage = "load" /\ OnlyCalls
         /\ Becomes(c, [calls[c] EXCEPT !.due = due]) \/ Answers(c, "INTERNAL")
  BY DEF LoadRefs
<1>2. Running(calls[c])
  BY <1>1 DEF Running
<1>3. Works(calls[c], [calls[c] EXCEPT !.due = due])
  BY <1>1, <1>2 DEF Works, GoesOn, SameWorks, SameLoads, Shaped, Attributes, CallsShaped, Running,
                    Stages
<1> QED  BY <1>1, <1>2, <1>3, AnswersProceeds DEF Proceeds

\* From r to s, the users of keys are handed out, those not loaded yet as they are.
HandsOut(r, s, keys) ==
    /\ GoesOn(r, s) /\ SameWorks(r, s) /\ s.stage # "insert"
    /\ keys \ DOMAIN r.cache \subseteq DOMAIN users
    /\ s.cache = [u \in DOMAIN r.cache \cup keys |->
                     IF u \in DOMAIN r.cache THEN r.cache[u] ELSE users[u].rev]
    /\ s.shown = r.shown \cup {<<u, s.cache[u]>> : u \in keys}

LEMMA LoadUsersFacts ==
    ASSUME CallsShaped, NEW c \in Call, LoadUsers(c)
    PROVE  /\ OnlyCalls
           /\ \E s : /\ Becomes(c, s)
                     /\ Refused(calls[c], s) \/ \E keys : HandsOut(calls[c], s, keys)
<1> DEFINE cached == DOMAIN calls[c].cache
           loaded(keys) == [u \in cached \cup keys |->
                               IF u \in cached THEN calls[c].cache[u] ELSE users[u].rev]
           handed(loader, keys) ==
             [calls[c] EXCEPT !.due = @ \ {loader}, !.cache = loaded(keys),
                !.shown = @ \cup {<<u, loaded(keys)[u]>> : u \in keys}, !.read = @ \cup keys]
<1>1. PICK loader \in calls[c].due \cap {"users", "lateUsers"} :
         LET keys == IF loader = "users" THEN UserKeys(calls[c]) ELSE LateUserKeys(calls[c])
         IN  /\ calls[c].stage = "load"
             /\ IF keys \ cached \subseteq DOMAIN users
                  THEN Becomes(c, handed(loader, keys)) ELSE Answers(c, "INTERNAL")
             /\ OnlyCalls
  BY DEF LoadUsers
<1>2. PICK keys : keys = IF loader = "users" THEN UserKeys(calls[c]) ELSE LateUserKeys(calls[c])
  OBVIOUS
<1>3. /\ calls[c].stage = "load" /\ OnlyCalls
      /\ IF keys \ cached \subseteq DOMAIN users
           THEN Becomes(c, handed(loader, keys)) ELSE Answers(c, "INTERNAL")
  BY <1>1, <1>2
<1>4. Running(calls[c])
  BY <1>3 DEF Running
<1>5. CASE keys \ cached \subseteq DOMAIN users
  <2> DEFINE s == handed(loader, keys)
  <2>1. s.cache = loaded(keys) /\ s.shown = calls[c].shown \cup {<<u, loaded(keys)[u]>> : u \in keys}
    BY DEF Shaped, Attributes, CallsShaped
  <2>2. GoesOn(calls[c], s) /\ SameWorks(calls[c], s) /\ s.stage = "load"
    BY <1>3, <1>4 DEF GoesOn, SameWorks, Shaped, Attributes, CallsShaped, Running, Stages
  <2>3. HandsOut(calls[c], s, keys)
    BY <1>5, <2>1, <2>2 DEF HandsOut
  <2> HIDE DEF s
  <2> QED  BY <1>3, <1>5, <2>3 DEF s
<1>6. CASE ~(keys \ cached \subseteq DOMAIN users)
  BY <1>3, <1>4, <1>6 DEF Answers, Refused
<1> QED  BY <1>5, <1>6

LEMMA FinishFacts ==
    ASSUME NEW c \in Call, Finish(c)
    PROVE  /\ OnlyCalls
           /\ \E s : /\ Becomes(c, s)
                     /\ \/ Refused(calls[c], s)
                        \/ TurnsToNext(calls[c], s)
                        \/ Concludes(calls[c], s)
<1>1. Running(calls[c]) /\ OnlyCalls
  BY DEF Finish, Running
<1>2. \/ Answers(c, "INTERNAL")
      \/ calls[c].at < Len(calls[c].ask.fields) /\ Becomes(c, Resolved(calls[c], calls[c].at + 1))
      \/ \E code \in Verdicts(calls[c]) : Answers(c, code)
  BY DEF Finish
<1> QED  BY <1>1, <1>2 DEF Refused, TurnsToNext, Concludes, Answers

-----------------------------------------------------------------------------
(* Writing *)

\* From r to s, the request makes something, or checks what it is about to make.
Makes(r, s, new) ==
    /\ GoesOn(r, s) /\ SameLoads(r, s)
    /\ s.made = r.made \cup new /\ s.allowed = r.allowed \cup (new \cap User)

LEMMA SignUpFacts ==
    ASSUME CallsShaped, NEW c \in Call, SignUp(c)
    PROVE  \E u \in User \ DOMAIN users : \E s :
              /\ At(c, "run", "signup")
              /\ Becomes(c, s) /\ Makes(calls[c], s, {u}) /\ s.stage # "insert"
              /\ users' = Put(users, u, [Field(calls[c]).doc EXCEPT !.createdAt = clock + 1])
<1>1. PICK u \in User \ DOMAIN users :
         /\ At(c, "run", "signup")
         /\ users' = Put(users, u, [Field(calls[c]).doc EXCEPT !.createdAt = clock + 1])
         /\ Becomes(c, [calls[c] EXCEPT !.stage = "load", !.read = @ \cup {u},
                          !.rows = [Rows EXCEPT !.users = <<NewProfile(c, u)>>],
                          !.allowed = @ \cup {u}, !.made = @ \cup {u}])
  BY DEF SignUp
<1> DEFINE s == [calls[c] EXCEPT !.stage = "load", !.read = @ \cup {u},
                          !.rows = [Rows EXCEPT !.users = <<NewProfile(c, u)>>],
                          !.allowed = @ \cup {u}, !.made = @ \cup {u}]
<1>2. Running(calls[c])
  BY <1>1, AtRuns
<1>3. Makes(calls[c], s, {u}) /\ s.stage # "insert"
  BY <1>2 DEF Makes, GoesOn, SameLoads, Shaped, Attributes, CallsShaped, Running, Stages
<1> HIDE DEF s
<1> QED  BY <1>1, <1>3 DEF s

LEMMA UpdateMeProceeds ==
    ASSUME CallsShaped, NEW c \in Call, UpdateMe(c)
    PROVE  Proceeds(c)
<1>1. Running(calls[c])
  BY AtRuns DEF UpdateMe
<1>2. Answers(c, "BAD_USER_INPUT") \/ Answers(c, "INTERNAL") \/ \E rows : Returns(c, rows)
  BY DEF UpdateMe
<1> QED  BY <1>1, <1>2, ReturnsProceeds, AnswersProceeds

LEMMA CreateProceeds ==
    ASSUME CallsShaped, NEW c \in Call, CreateTag(c) \/ CreateLicence(c)
    PROVE  Proceeds(c)
<1>1. Running(calls[c])
  BY AtRuns DEF CreateTag, CreateLicence
<1>2. Answers(c, "CONFLICT") \/ Returns(c, Rows)
  BY DEF CreateTag, CreateLicence
<1> QED  BY <1>1, <1>2, ReturnsProceeds, AnswersProceeds

LEMMA ValidateTagsFacts ==
    ASSUME CallsShaped, NEW c \in Call, ValidateTags(c)
    PROVE  \E s :
              /\ Becomes(c, s)
              /\ \/ Refused(calls[c], s) /\ clock' = clock
                 \/ /\ Makes(calls[c], s, {}) /\ s.stage = "insert" /\ s.stamp = clock + 1
                    /\ clock' = clock + 1 /\ Missing(Field(calls[c]).tagIds, DOMAIN tags) = {}
<1> DEFINE s == [calls[c] EXCEPT !.stage = "insert", !.stamp = clock + 1]
<1>1. Running(calls[c])
  BY AtRuns DEF ValidateTags
<1>2. \/ Answers(c, "BAD_USER_INPUT") /\ clock' = clock
      \/ /\ Becomes(c, s) /\ clock' = clock + 1
         /\ Missing(Field(calls[c]).tagIds, DOMAIN tags) = {}
  BY DEF ValidateTags
<1>3. Makes(calls[c], s, {}) /\ s.stage = "insert" /\ s.stamp = clock + 1
  BY <1>1 DEF Makes, GoesOn, SameLoads, Shaped, Attributes, CallsShaped, Running, Stages
<1> HIDE DEF s
<1> QED  BY <1>1, <1>2, <1>3 DEF Answers, Refused

\* What is inserted, with what the service sets.
Stamped(r) ==
    [Field(r).doc EXCEPT !.tagIds = Field(r).tagIds, !.creatorId = Me(r), !.createdAt = r.stamp]

LEMMA InsertNftFacts ==
    ASSUME CallsShaped, NEW c \in Call, InsertNft(c)
    PROVE  \E n \in Nft \ DOMAIN nfts : \E s :
              /\ At(c, "insert", "createNft")
              /\ Becomes(c, s) /\ Makes(calls[c], s, {n}) /\ s.stage # "insert"
              /\ nfts' = Put(nfts, n, Stamped(calls[c]))
<1> DEFINE made(n, due) ==
      [calls[c] EXCEPT !.stage = "load", !.made = @ \cup {n},
                       !.rows = [Rows EXCEPT !.nfts = <<n>>], !.due = due]
<1>1. PICK n \in Nft \ DOMAIN nfts, due \in SUBSET {"users", "collections", "tags"} :
         /\ At(c, "insert", "createNft")
         /\ nfts' = Put(nfts, n, Stamped(calls[c]))
         /\ Becomes(c, made(n, due))
  BY DEF InsertNft, Stamped
<1>2. Running(calls[c])
  BY <1>1, AtRuns
<1>3. Makes(calls[c], made(n, due), {n}) /\ made(n, due).stage # "insert"
  BY <1>2, RequestConstants DEF Makes, GoesOn, SameLoads, Shaped, Attributes, CallsShaped, Running, Stages
<1> HIDE DEF made
<1> QED  BY <1>1, <1>3

LEMMA InsertCollectionFacts ==
    ASSUME CallsShaped, NEW c \in Call, InsertCollection(c)
    PROVE  /\ At(c, "insert", "createCollection")
           /\ \E s :
              /\ Becomes(c, s)
              /\ \/ Refused(calls[c], s) /\ UNCHANGED <<collections, fetching>>
                 \/ \E k \in Collection \ DOMAIN collections :
                       /\ Makes(calls[c], s, {k}) /\ s.stage # "insert"
                       /\ \A l \in DOMAIN collections :
                             collections[l].mintAddress # Field(calls[c]).doc.mintAddress
                       /\ collections' = Put(collections, k, Stamped(calls[c]))
                       /\ fetching' = fetching \cup {[collection |-> k, step |-> "fetch"]}
<1> DEFINE made(k, due) ==
      [calls[c] EXCEPT !.stage = "load", !.made = @ \cup {k},
                       !.rows = [Rows EXCEPT !.collections = <<k>>], !.due = due]
<1>1. Running(calls[c]) /\ At(c, "insert", "createCollection")
  BY AtRuns DEF InsertCollection
<1>2. CASE Answers(c, "CONFLICT") /\ UNCHANGED <<collections, fetching>>
  BY <1>1, <1>2 DEF Answers, Refused
<1>3. CASE ~(Answers(c, "CONFLICT") /\ UNCHANGED <<collections, fetching>>)
  <2>1. PICK k \in Collection \ DOMAIN collections, due \in SUBSET {"users", "tags"} :
           /\ \A l \in DOMAIN collections :
                 collections[l].mintAddress # Field(calls[c]).doc.mintAddress
           /\ collections' = Put(collections, k, Stamped(calls[c]))
           /\ fetching' = fetching \cup {[collection |-> k, step |-> "fetch"]}
           /\ Becomes(c, made(k, due))
    BY <1>3 DEF InsertCollection, Stamped
  <2>2. Makes(calls[c], made(k, due), {k}) /\ made(k, due).stage # "insert"
    BY <1>1, RequestConstants DEF Makes, GoesOn, SameLoads, Shaped, Attributes, CallsShaped, Running, Stages
  <2> HIDE DEF made
  <2> QED  BY <1>1, <2>1, <2>2
<1> QED  BY <1>2, <1>3

-----------------------------------------------------------------------------
(* What holds of one request, whatever is stored. *)

AsksPublic(r) == \A i \in DOMAIN r.ask.fields : r.ask.fields[i].endpoint \in PublicEndpoint

OnlyRulesRefuse(r) ==
    /\ r.code = "UNAUTHORIZED" => ruled /\ r.read # {} /\ r.ask.header.kind \in {"junk", "Refresh"}
    /\ r.code = "FORBIDDEN" => ruled /\ ~(r.read \subseteq {Me(r)} \cup (r.made \cap User))

\* A request is what it arrived as: its context is that of its header, it has run
\* only what its guards let pass, the current field's resolver among that, and it
\* was answered within the rules, with leave to read the users it made itself.
RequestHeld(r) ==
    /\ r.stage \in Stages /\ r.code \in Codes
    /\ r.code = "none" <=> r.stage # "done"
    /\ r.stage = "idle" => r = NoCall
    /\ r.stage # "idle" =>
          /\ ValidRequest(r.ask) /\ r.ctx = Context(r.ask.header)
          /\ r.at \in DOMAIN r.ask.fields
    /\ Running(r) => Field(r).endpoint \in r.ran
    /\ \A e \in r.ran : e \in Endpoint /\ Guard(e, r.ctx, r.ask.devToken) = "OK"
    /\ r.allowed = r.made \cap User
    /\ ruled /\ r.code = "OK" => r.read \subseteq {Me(r)} \cup r.allowed
    /\ r.stage = "done" /\ AsksPublic(r) => r.code # "UNAUTHENTICATED" /\ OnlyRulesRefuse(r)

RequestsHeld ==
    /\ CallsShaped
    /\ \A r \in asked : ValidRequest(r)
    /\ \A c \in Call : RequestHeld(calls[c])

\* A guard lets pass or names an error, and it lets anybody pass to public endpoints.
LEMMA GuardFacts ==
    ASSUME NEW e \in Endpoint, NEW ctx, NEW devToken \in {"none", "wrong", "right"}
    PROVE  /\ Guard(e, ctx, devToken) \in {"OK", "UNAUTHENTICATED", "FORBIDDEN"}
           /\ e \in PublicEndpoint => Guard(e, ctx, devToken) = "OK"
           /\ e \in DevEndpoint /\ Guard(e, ctx, devToken) = "OK" => devToken = "right"
           /\ e \in RoleEndpoint /\ Guard(e, ctx, devToken) = "OK" =>
                 ~ctx.error /\ ctx.payload # NoPayload /\ ctx.payload.role = "User"
<1>1. CASE e \in PublicEndpoint
  <2>1. e \notin DevEndpoint /\ e \notin RoleEndpoint
    BY <1>1 DEF PublicEndpoint, DevEndpoint, RoleEndpoint
  <2> QED  BY <1>1, <2>1 DEF Guard
<1>2. CASE e \in DevEndpoint
  <2>1. e \notin PublicEndpoint /\ e \notin RoleEndpoint
    BY <1>2 DEF PublicEndpoint, DevEndpoint, RoleEndpoint
  <2> QED  BY <1>2, <2>1 DEF Guard, DevEndpointGuard
<1>3. CASE e \in RoleEndpoint
  <2>1. e \notin PublicEndpoint /\ e \notin DevEndpoint
    BY <1>3 DEF PublicEndpoint, DevEndpoint, RoleEndpoint
  <2> QED  BY <1>3, <2>1 DEF Guard, RolesGuard
<1> QED  BY <1>1, <1>2, <1>3 DEF Endpoint

\* Whoever passes the guard of a role bears an Auth token of a user.
LEMMA RoleNeedsToken ==
    ASSUME NEW header, LET ctx == Context(header) IN
           ~ctx.error /\ ctx.payload # NoPayload /\ ctx.payload.role = "User"
    PROVE  /\ header.kind = "Auth" /\ header.role = "User"
           /\ Context(header).payload.sub = header.sub
<1>1. header.kind = "Auth"
  BY DEF Context
<1> QED  BY <1>1 DEF Context

\* A field of a valid request.
LEMMA FieldIsValid ==
    ASSUME NEW r, ValidRequest(r), NEW i \in DOMAIN r.fields
    PROVE  /\ r.fields[i].endpoint \in Endpoint /\ ValidField(r.fields[i])
           /\ r.devToken \in {"none", "wrong", "right"}
           /\ i < Len(r.fields) => i + 1 \in DOMAIN r.fields
           /\ 1 \in DOMAIN r.fields
<1>1. PICK size \in Nat \ {0} : size = Len(r.fields) /\ DOMAIN r.fields = 1..size
  BY DEF ValidRequest
<1>2. ValidField(r.fields[i]) /\ r.devToken \in {"none", "wrong", "right"}
  BY DEF ValidRequest
<1> QED  BY <1>1, <1>2 DEF ValidField

\* A request whose next field is resolved.
LEMMA ResolvedHeld ==
    ASSUME NEW r, Shaped(r), NEW at \in DOMAIN r.ask.fields,
           ValidRequest(r.ask), r.ctx = Context(r.ask.header), r.code = "none",
           \A e \in r.ran : e \in Endpoint /\ Guard(e, r.ctx, r.ask.devToken) = "OK",
           r.allowed = r.made \cap User
    PROVE  RequestHeld(Resolved(r, at))
<1> DEFINE e == r.ask.fields[at].endpoint
           verdict == Guard(e, r.ctx, r.ask.devToken)
           s == Resolved(r, at)
<1>1. e \in Endpoint /\ r.ask.devToken \in {"none", "wrong", "right"}
  BY FieldIsValid
<1>2. /\ verdict \in {"OK", "UNAUTHENTICATED", "FORBIDDEN"}
      /\ e \in PublicEndpoint => verdict = "OK"
  BY <1>1, GuardFacts
<1>3. /\ s.ask = r.ask /\ s.ctx = r.ctx /\ s.at = at
      /\ s.made = r.made /\ s.allowed = r.allowed
      /\ verdict = "OK" => s.stage = "run" /\ s.code = r.code /\ s.ran = r.ran \cup {e}
      /\ verdict # "OK" => s.stage = "done" /\ s.code = verdict /\ s.ran = r.ran
  BY ResolvedFacts DEF SameWorks
<1>4. \A x \in s.ran : x \in Endpoint /\ Guard(x, s.ctx, s.ask.devToken) = "OK"
  BY <1>1, <1>3
<1>5. AsksPublic(s) => verdict = "OK"
  BY <1>2, <1>3 DEF AsksPublic
<1>6. Field(s).endpoint = e
  BY <1>3 DEF Field
<1>7. s.stage \in {"run", "done"} /\ s.code \in Codes /\ (s.code = "none" <=> s.stage # "done")
      /\ s.code # "OK" /\ (s.stage = "run" => e \in s.ran)
  <2>1. CASE verdict = "OK"
    BY <1>3, <2>1 DEF Codes
  <2>2. CASE verdict # "OK"
    BY <1>2, <1>3, <2>2 DEF Codes
  <2> QED  BY <2>1, <2>2
<1> HIDE DEF s, e, verdict
<1>8. s.stage = "done" => ~AsksPublic(s)
  BY <1>3, <1>5
<1> QED
  BY <1>3, <1>4, <1>6, <1>7, <1>8 DEF RequestHeld, Running, Stages, s

\* Any step of a request.
Goes(r, s) ==
    /\ GoesOn(r, s) /\ r.made \subseteq s.made
    /\ r.allowed = r.made \cap User => s.allowed = s.made \cap User
Moves(r, s) == Goes(r, s) \/ Refused(r, s) \/ TurnsToNext(r, s) \/ Concludes(r, s)

LEMMA MovesFacts ==
    ASSUME NEW r, NEW s, Shaped(r), RequestHeld(r), Moves(r, s)
    PROVE  /\ Shaped(s) /\ RequestHeld(s)
           /\ Running(r) /\ s.ask = r.ask /\ s.ctx = r.ctx /\ s.began = r.began
           /\ s.after = r.after
           /\ ~Goes(r, s) => SameWorks(r, s) /\ SameLoads(r, s) /\ s.stage # "insert"
<1>1. /\ ValidRequest(r.ask) /\ r.ctx = Context(r.ask.header) /\ r.at \in DOMAIN r.ask.fields
      /\ r.code = "none" /\ Running(r)
  BY DEF RequestHeld, Running, Moves, Goes, GoesOn, Refused, TurnsToNext, Concludes
<1>2. CASE Goes(r, s)
  <2>1. /\ Shaped(s) /\ s.ask = r.ask /\ s.ctx = r.ctx /\ s.began = r.began /\ s.at = r.at
        /\ s.after = r.after /\ s.ran = r.ran /\ s.code = "none" /\ s.stage \in Stages /\ Running(s)
        /\ s.allowed = s.made \cap User
    BY <1>1, <1>2 DEF Goes, GoesOn, RequestHeld
  <2>2. Field(s) = Field(r)
    BY <2>1 DEF Field
  <2> QED  BY <1>1, <1>2, <2>1, <2>2 DEF RequestHeld, Running, Codes
<1>3. CASE Refused(r, s)
  <2>1. PICK code \in {"BAD_USER_INPUT", "CONFLICT", "INTERNAL"} : s = Answered(r, code)
    BY <1>3 DEF Refused
  <2>2. /\ Shaped(s) /\ s.stage = "done" /\ s.code = code
        /\ s.ask = r.ask /\ s.ctx = r.ctx /\ s.began = r.began /\ s.at = r.at /\ s.ran = r.ran
        /\ s.after = r.after /\ SameWorks(r, s) /\ SameLoads(r, s)
    BY <2>1, AnsweredFacts
  <2>3. RequestHeld(s)
    BY <1>1, <2>2 DEF RequestHeld, OnlyRulesRefuse, Running, Codes, Stages, SameWorks
  <2> QED  BY <1>1, <2>2, <2>3
<1>4. CASE TurnsToNext(r, s)
  <2>1. r.at + 1 \in DOMAIN r.ask.fields /\ s = Resolved(r, r.at + 1)
    BY <1>1, <1>4, FieldIsValid DEF TurnsToNext
  <2>2. RequestHeld(s)
    BY <1>1, <2>1, ResolvedHeld DEF RequestHeld
  <2>3. /\ Shaped(s) /\ s.ask = r.ask /\ s.ctx = r.ctx /\ s.began = r.began
        /\ s.after = r.after /\ SameWorks(r, s) /\ SameLoads(r, s) /\ s.stage \in {"run", "done"}
    BY <2>1, ResolvedFacts
  <2> QED  BY <1>1, <2>2, <2>3
<1>5. CASE Concludes(r, s)
  <2>1. PICK code \in Verdicts(r) : s = Answered(r, code)
    BY <1>5 DEF Concludes
  <2>2. /\ Shaped(s) /\ s.stage = "done" /\ s.code = code
        /\ s.ask = r.ask /\ s.ctx = r.ctx /\ s.began = r.began /\ s.at = r.at /\ s.ran = r.ran
        /\ s.after = r.after /\ s.read = r.read /\ SameWorks(r, s) /\ SameLoads(r, s)
    BY <2>1, AnsweredFacts
  <2>3. /\ code \in {"OK", "UNAUTHORIZED", "FORBIDDEN"}
        /\ ~ruled => code = "OK"
        /\ ruled /\ code = "OK" => r.read \subseteq {Me(r)} \cup r.allowed
        /\ code = "UNAUTHORIZED" => ruled /\ r.read # {} /\ r.ctx.error
        /\ code = "FORBIDDEN" => ruled /\ ~(r.read \subseteq {Me(r)} \cup r.allowed)
    <3>1. CASE ~ruled \/ r.read = {}
      <4>1. ~(ruled /\ r.read # {} /\ r.ctx.error) /\ Verdicts(r) = {"OK"}
        BY <3>1 DEF Verdicts
      <4> QED  BY <2>1, <3>1, <4>1
    <3>2. CASE ruled /\ r.read # {} /\ r.ctx.error
      <4>1. Verdicts(r) = {"UNAUTHORIZED"} \cup
              (IF \A d \in r.read : CanReadAuthorized(r, d) THEN {"OK"} ELSE {})
        BY <3>2 DEF Verdicts
      <4> QED  BY <2>1, <3>2, <4>1 DEF CanReadAuthorized
    <3>3. CASE ruled /\ r.read # {} /\ ~r.ctx.error
      <4>1. Verdicts(r) =
              {IF \A d \in r.read : CanReadHisOwn(r, d) \/ CanReadAuthorized(r, d)
                 THEN "OK" ELSE "FORBIDDEN"}
        BY <3>3 DEF Verdicts
      <4> QED  BY <2>1, <3>3, <4>1 DEF CanReadHisOwn, CanReadAuthorized
    <3> QED  BY <3>1, <3>2, <3>3
  <2>4. Me(s) = Me(r)
    BY <2>2 DEF Me
  <2>5. r.ctx.error => r.ask.header.kind \in {"junk", "Refresh"}
    <3>1. PICK kind : kind = r.ask.header.kind
      OBVIOUS
    <3>2. Context(r.ask.header).error => kind \in {"junk", "Refresh"}
      BY <3>1, Zenon DEF Context
    <3> QED  BY <1>1, <3>1, <3>2
  <2>6. r.allowed = r.made \cap User /\ SameWorks(r, s)
    BY <1>5, <2>2 DEF RequestHeld
  <2>7. OnlyRulesRefuse(s) /\ s.code # "UNAUTHENTICATED"
    BY <2>2, <2>3, <2>4, <2>5, <2>6 DEF OnlyRulesRefuse, SameWorks
  <2>8. RequestHeld(s)
    BY <1>1, <2>2, <2>3, <2>4, <2>6, <2>7 DEF RequestHeld, Running, Codes, Stages, SameWorks
  <2> QED  BY <1>1, <2>2, <2>8
<1> QED  BY <1>2, <1>3, <1>4, <1>5 DEF Moves

-----------------------------------------------------------------------------
(* Which action changes what. *)

Acts(c) == Read(c) \/ Write(c) \/ LoadRefs(c) \/ LoadUsers(c) \/ Finish(c) \/ Fail(c)

LEMMA NextFrames ==
    ASSUME TypeOK, CallsShaped, Next
    PROVE  /\ UNCHANGED <<ruled, asked, history, index>>
           /\ clock' \in {clock, clock + 1} /\ left' \in Nat /\ faults' \in 0..MaxFaults
           /\ \/ calls' = calls
              \/ \E c \in Call : (\E r \in asked : Arrive(c, r)) \/ Acts(c)
           /\ \/ users' = users
              \/ \E c \in Call : SignUp(c) \/ UpdateMe(c)
              \/ \E t \in touching : Touch(t)
           /\ nfts' = nfts \/ \E c \in Call : InsertNft(c)
           /\ \/ UNCHANGED <<collections, fetching, bucket>>
              \/ \E c \in Call : InsertCollection(c)
              \/ \E j \in fetching : FetchImage(j) \/ UpdateThumbnail(j) \/ FailFetch(j)
           /\ tags' = tags \/ \E c \in Call : CreateTag(c)
           /\ licences' = licences \/ \E c \in Call : CreateLicence(c)
           /\ touching' = touching \/ (\E c \in Call : UpdateMe(c)) \/ (\E t \in touching : Touch(t))
<1> USE DEF stores, images
<1>0. clock \in Nat /\ left \in Nat /\ faults \in 0..MaxFaults
  BY DEF TypeOK
<1>1. CASE \E c \in Call : \E r \in asked : Arrive(c, r)
  <2>1. PICK c \in Call, r \in asked : Arrive(c, r)
    BY <1>1
  <2>2. /\ left' = left - 1 /\ left > 0
        /\ UNCHANGED <<ruled, stores, images, touching, clock, asked, faults>>
    BY <2>1 DEF Arrive
  <2> QED  BY <1>0, <2>1, <2>2
<1>2. CASE \E c \in Call : Read(c) \/ LoadRefs(c) \/ LoadUsers(c) \/ Finish(c)
  <2>1. PICK c \in Call : Read(c) \/ LoadRefs(c) \/ LoadUsers(c) \/ Finish(c)
    BY <1>2
  <2>2. OnlyCalls
    BY <2>1, ReadProceeds, LoadRefsProceeds, LoadUsersFacts, FinishFacts
  <2> QED  BY <1>0, <2>1, <2>2 DEF OnlyCalls, Acts
<1>3. CASE \E c \in Call : Fail(c)
  <2>1. PICK c \in Call : Fail(c)
    BY <1>3
  <2>2. /\ faults' = faults + 1 /\ faults < MaxFaults
        /\ UNCHANGED <<ruled, stores, images, touching, clock, asked, left>>
    BY <2>1 DEF Fail
  <2>3. faults' \in 0..MaxFaults
    BY <1>0, <2>2, RequestConstants
  <2> QED  BY <1>0, <2>1, <2>2, <2>3 DEF Acts
<1>4. CASE \E c \in Call : SignUp(c)
  BY <1>0, <1>4 DEF SignUp, Acts, Write
<1>5. CASE \E c \in Call : UpdateMe(c)
  BY <1>0, <1>5 DEF UpdateMe, Acts, Write
<1>6. CASE \E c \in Call : CreateTag(c)
  BY <1>0, <1>6 DEF CreateTag, Acts, Write
<1>7. CASE \E c \in Call : CreateLicence(c)
  BY <1>0, <1>7 DEF CreateLicence, Acts, Write
<1>8. CASE \E c \in Call : ValidateTags(c)
  BY <1>0, <1>8 DEF ValidateTags, Acts, Write
<1>9. CASE \E c \in Call : InsertCollection(c)
  BY <1>0, <1>9 DEF InsertCollection, Acts, Write
<1>10. CASE \E c \in Call : InsertNft(c)
  BY <1>0, <1>10 DEF InsertNft, Acts, Write
<1>11. CASE \E j \in fetching : FetchImage(j)
  BY <1>0, <1>11 DEF FetchImage
<1>12. CASE \E j \in fetching : UpdateThumbnail(j)
  BY <1>0, <1>12 DEF UpdateThumbnail
<1>13. CASE \E j \in fetching : FailFetch(j)
  <2>1. PICK j \in fetching : FailFetch(j)
    BY <1>13
  <2>2. faults' \in 0..MaxFaults
    BY <1>0, <2>1, RequestConstants DEF FailFetch
  <2> QED  BY <1>0, <2>1, <2>2 DEF FailFetch
<1>14. CASE \E t \in touching : Touch(t)
  BY <1>0, <1>14 DEF Touch
<1> QED
  BY <1>1, <1>2, <1>3, <1>4, <1>5, <1>6, <1>7, <1>8, <1>9, <1>10, <1>11, <1>12, <1>13, <1>14
  DEF Next, Write

LEMMA EndingFacts ==
    ASSUME NEW r, NEW s, Shaped(r), Refused(r, s) \/ TurnsToNext(r, s) \/ Concludes(r, s)
    PROVE  SameWorks(r, s) /\ SameLoads(r, s)
<1>1. s = Resolved(r, r.at + 1) \/ \E code : s = Answered(r, code)
  BY DEF Refused, TurnsToNext, Concludes
<1> QED  BY <1>1, AnsweredFacts, ResolvedFacts

\* Only three actions make something, and one loads users.
LEMMA ActsMove ==
    ASSUME CallsShaped, NEW c \in Call, Acts(c)
    PROVE  \E s : /\ Becomes(c, s) /\ Moves(calls[c], s)
                  /\ Goes(calls[c], s) /\ s.stage = "insert" => ValidateTags(c)
                  /\ SameLoads(calls[c], s) \/ \E keys : HandsOut(calls[c], s, keys)
                  /\ \/ s.made = calls[c].made
                     \/ SignUp(c) \/ InsertNft(c) \/ InsertCollection(c)
<1>0. Shaped(calls[c])
  BY DEF CallsShaped
<1>1. CASE Read(c) \/ LoadRefs(c) \/ UpdateMe(c) \/ CreateTag(c) \/ CreateLicence(c)
  <2>1. PICK s : Becomes(c, s) /\ (Works(calls[c], s) \/ Refused(calls[c], s))
    BY <1>1, ReadProceeds, LoadRefsProceeds, UpdateMeProceeds, CreateProceeds DEF Proceeds
  <2>2. SameWorks(calls[c], s) /\ SameLoads(calls[c], s) /\ Moves(calls[c], s)
        /\ (Goes(calls[c], s) => s.stage # "insert")
    <3>1. CASE Works(calls[c], s)
      BY <3>1 DEF Works, SameWorks, Moves, Goes
    <3>2. CASE Refused(calls[c], s)
      BY <1>0, <3>2, EndingFacts, AnsweredFacts DEF Moves, Refused
    <3> QED  BY <2>1, <3>1, <3>2
  <2> QED  BY <2>1, <2>2 DEF SameWorks
<1>2. CASE LoadUsers(c)
  <2>1. PICK s : Becomes(c, s) /\ (Refused(calls[c], s) \/ \E keys : HandsOut(calls[c], s, keys))
    BY <1>2, LoadUsersFacts
  <2>2. CASE Refused(calls[c], s)
    BY <1>0, <2>1, <2>2, EndingFacts, AnsweredFacts DEF Moves, Refused, SameWorks
  <2>3. CASE \E keys : HandsOut(calls[c], s, keys)
    BY <2>1, <2>3 DEF HandsOut, SameWorks, Moves, Goes
  <2> QED  BY <2>1, <2>2, <2>3
<1>3. CASE Finish(c) \/ Fail(c)
  <2>1. PICK s : /\ Becomes(c, s)
                 /\ \/ Refused(calls[c], s) \/ TurnsToNext(calls[c], s)
                    \/ Concludes(calls[c], s)
    BY <1>3, FinishFacts DEF Fail, Answers, Refused
  <2>2. SameWorks(calls[c], s) /\ SameLoads(calls[c], s) /\ Moves(calls[c], s)
    BY <1>0, <2>1, EndingFacts DEF Moves
  <2>3. s.stage \in {"run", "done"}
    <3>1. s = Resolved(calls[c], calls[c].at + 1) \/ \E code : s = Answered(calls[c], code)
      BY <2>1 DEF Refused, TurnsToNext, Concludes
    <3> QED  BY <1>0, <3>1, AnsweredFacts, ResolvedFacts
  <2> QED  BY <2>1, <2>2, <2>3 DEF SameWorks
<1>4. CASE SignUp(c)
  BY <1>4, SignUpFacts DEF Makes, Moves, Goes
<1>5. CASE ValidateTags(c)
  <2>1. PICK s : Becomes(c, s) /\ (Refused(calls[c], s) \/ Makes(calls[c], s, {}))
    BY <1>5, ValidateTagsFacts
  <2>2. CASE Refused(calls[c], s)
    BY <1>0, <1>5, <2>1, <2>2, EndingFacts DEF Moves, SameWorks
  <2>3. CASE Makes(calls[c], s, {})
    <3>1. SameLoads(calls[c], s) /\ Goes(calls[c], s) /\ s.made = calls[c].made
      BY <2>3 DEF Makes, Goes
    <3> QED  BY <1>5, <2>1, <3>1 DEF Moves
  <2> QED  BY <2>1, <2>2, <2>3
<1>6. CASE InsertCollection(c)
  <2>1. PICK s : /\ Becomes(c, s)
                 /\ \/ Refused(calls[c], s)
                    \/ \E k : Makes(calls[c], s, {k}) /\ s.stage # "insert"
    BY <1>6, InsertCollectionFacts
  <2>2. CASE Refused(calls[c], s)
    BY <1>0, <1>6, <2>1, <2>2, EndingFacts, AnsweredFacts DEF Moves, Refused, SameWorks
  <2>3. CASE \E k : Makes(calls[c], s, {k}) /\ s.stage # "insert"
    BY <1>6, <2>1, <2>3 DEF Makes, Moves, Goes
  <2> QED  BY <2>1, <2>2, <2>3
<1>7. CASE InsertNft(c)
  BY <1>7, InsertNftFacts DEF Makes, Moves, Goes
<1> QED
  BY <1>1, <1>2, <1>3, <1>4, <1>5, <1>6, <1>7 DEF Acts, Write

\* A request that arrives has made and loaded nothing, and knows the users' versions.
Arrived(s) ==
    /\ Shaped(s) /\ RequestHeld(s) /\ s.stage # "insert"
    /\ s.made = {} /\ s.cache = <<>> /\ s.shown = {}
    /\ s.began = [u \in DOMAIN users |-> users[u].rev]

LEMMA ArriveFacts ==
    ASSUME CallsShaped, NEW c \in Call, NEW r, ValidRequest(r), Arrive(c, r)
    PROVE  calls[c].stage = "idle" /\ \E s : Becomes(c, s) /\ Arrived(s)
<1> DEFINE began == [u \in DOMAIN users |-> users[u].rev]
           earlier == {d \in Call : calls[d].stage = "done"}
           s == [NoCall EXCEPT !.ask = r, !.ctx = Context(r.header), !.began = began,
                               !.after = earlier]
<1>1. calls[c].stage = "idle" /\ Becomes(c, Resolved(s, 1))
  BY DEF Arrive
<1>2. /\ Shaped(s) /\ s.ask = r /\ s.ctx = Context(r.header) /\ s.began = began
      /\ s.made = {} /\ s.allowed = {} /\ s.ran = {} /\ s.cache = <<>> /\ s.shown = {}
      /\ s.code = "none"
  BY DEF NoCall, Shaped, Attributes
<1> HIDE DEF s
<1>3. 1 \in DOMAIN r.fields
  <2>1. PICK size \in Nat \ {0} : DOMAIN r.fields = 1..size
    BY DEF ValidRequest
  <2> QED  BY <2>1
<1>4. RequestHeld(Resolved(s, 1))
  BY <1>2, <1>3, ResolvedHeld
<1>5. Arrived(Resolved(s, 1))
  BY <1>2, <1>4, ResolvedFacts DEF Arrived, SameWorks, SameLoads
<1> QED  BY <1>1, <1>5

\* The others stay, and what a request is keeps holding.
LEMMA HeldNext ==
    ASSUME TypeOK, RequestsHeld, Next
    PROVE  RequestsHeld'
<1>1. UNCHANGED <<ruled, asked>> /\ CallsShaped
  BY NextFrames DEF RequestsHeld
<1>2. CASE calls' = calls
  <2>1. \A d \in Call : RequestHeld(calls[d])'
    BY <1>1, <1>2 DEF RequestsHeld, RequestHeld, OnlyRulesRefuse
  <2> QED  BY <1>1, <1>2, <2>1 DEF RequestsHeld, CallsShaped
<1>3. CASE \E c \in Call : (\E r \in asked : Arrive(c, r)) \/ Acts(c)
  <2>1. PICK c \in Call : (\E r \in asked : Arrive(c, r)) \/ Acts(c)
    BY <1>3
  <2>2. PICK s : Becomes(c, s) /\ Shaped(s) /\ RequestHeld(s)
    <3>1. CASE \E r \in asked : Arrive(c, r)
      BY <1>1, <3>1, ArriveFacts DEF RequestsHeld, Arrived
    <3>2. CASE Acts(c)
      BY <1>1, <3>2, ActsMove, MovesFacts DEF RequestsHeld, CallsShaped
    <3> QED  BY <2>1, <3>1, <3>2
  <2>3. CallsShaped' /\ calls'[c] = s /\ \A d \in Call \ {c} : calls'[d] = calls[d]
    BY <1>1, <2>2, BecomesFacts
  <2>4. \A d \in Call : RequestHeld(calls'[d])
    BY <2>2, <2>3 DEF RequestsHeld
  <2>5. \A d \in Call : RequestHeld(calls[d])'
    BY <1>1, <2>4 DEF RequestHeld, OnlyRulesRefuse
  <2> QED  BY <1>1, <2>3, <2>5 DEF RequestsHeld
<1> QED  BY <1>1, <1>2, <1>3, NextFrames

-----------------------------------------------------------------------------
(* Types *)

\* What is about to be inserted is dated, and its tags were found.
InsertsReady ==
    \A c \in Call : calls[c].stage = "insert" =>
        /\ calls[c].stamp \in 0..clock
        /\ Field(calls[c]).tagIds \subseteq DOMAIN tags

Typed == TypeOK /\ RequestsHeld /\ InsertsReady

\* The current field of a running request is valid, and behind a role's guard
\* the requester is a user.
LEMMA FieldFacts ==
    ASSUME NEW r, RequestHeld(r), Running(r)
    PROVE  /\ ValidField(Field(r))
           /\ Field(r).endpoint \in RoleEndpoint => Me(r) \in User /\ Me(r) = r.ask.header.sub
<1>1. /\ ValidRequest(r.ask) /\ r.ctx = Context(r.ask.header) /\ r.at \in DOMAIN r.ask.fields
      /\ Field(r).endpoint \in r.ran
      /\ \A e \in r.ran : e \in Endpoint /\ Guard(e, r.ctx, r.ask.devToken) = "OK"
  BY DEF RequestHeld, Running
<1>2. ValidField(Field(r)) /\ r.ask.devToken \in {"none", "wrong", "right"}
  BY <1>1, FieldIsValid DEF Field
<1>3. ASSUME Field(r).endpoint \in RoleEndpoint PROVE Me(r) \in User /\ Me(r) = r.ask.header.sub
  <2>1. ~r.ctx.error /\ r.ctx.payload # NoPayload /\ r.ctx.payload.role = "User"
    BY <1>1, <1>2, <1>3, GuardFacts
  <2>2. /\ r.ask.header.kind = "Auth" /\ r.ask.header.role = "User"
        /\ r.ctx.payload.sub = r.ask.header.sub
    BY <1>1, <2>1, RoleNeedsToken
  <2> QED  BY <1>1, <2>2 DEF Me, ValidRequest
<1> QED  BY <1>2, <1>3

LEMMA LaterDocs ==
    ASSUME NEW now \in Nat, NEW then \in Nat, now <= then, NEW d
    PROVE  /\ UserDoc(d, now) => UserDoc(d, then)
           /\ NftDoc(d, now) => NftDoc(d, then)
           /\ CollectionDoc(d, now) => CollectionDoc(d, then)
BY DEF UserDoc, NftDoc, CollectionDoc

LEMMA ClockFacts ==
    ASSUME Typed, Next
    PROVE  clock \in Nat /\ clock' \in Nat /\ clock <= clock'
<1>1. clock \in Nat /\ clock' \in {clock, clock + 1}
  BY NextFrames DEF Typed, RequestsHeld, TypeOK
<1> QED  BY <1>1

\* Users: nobody goes, only UpdateMe makes a new version, the tags of a version stay,
\* and so do followers and bookmarks; who signs up has neither.
UsersTyped == DOMAIN users \subseteq User /\ \A u \in DOMAIN users : UserDoc(users[u], clock)
SameLikes(u, v) ==
    /\ u.followerIds = v.followerIds /\ u.bookmarks = v.bookmarks
    /\ u.rev = v.rev => u.tagsId = v.tagsId
UsersGoOn ==
    /\ DOMAIN users \subseteq DOMAIN users'
    /\ \A u \in DOMAIN users : users[u].rev \in Nat /\ users'[u].rev \in Nat
                                 /\ users[u].rev <= users'[u].rev
    /\ \A u \in DOMAIN users : SameLikes(users'[u], users[u])
    /\ \A u \in DOMAIN users' \ DOMAIN users :
          users'[u].followerIds = {} /\ users'[u].bookmarks = {}

LEMMA UsersNext ==
    ASSUME Typed, Next
    PROVE  UsersTyped' /\ UsersGoOn
<1>1. UsersTyped /\ CallsShaped /\ clock \in Nat /\ clock' \in Nat /\ clock <= clock'
  BY ClockFacts DEF Typed, TypeOK, RequestsHeld, UsersTyped
<1>2. \A u \in DOMAIN users : UserDoc(users[u], clock') /\ users[u].rev \in Nat
  BY <1>1, LaterDocs DEF UsersTyped, UserDoc
<1>3. CASE users' = users
  BY <1>1, <1>2, <1>3 DEF UsersTyped, UsersGoOn, SameLikes
<1>4. CASE \E c \in Call : SignUp(c)
  <2>1. PICK c \in Call, u \in User \ DOMAIN users :
           /\ At(c, "run", "signup") /\ clock' = clock + 1
           /\ users' = Put(users, u, [Field(calls[c]).doc EXCEPT !.createdAt = clock + 1])
    BY <1>4 DEF SignUp
  <2> DEFINE old == Field(calls[c]).doc
             doc == [old EXCEPT !.createdAt = clock + 1]
  <2>2. UserDoc(old, 0) /\ old.followerIds = {} /\ old.bookmarks = {}
    <3>1. Running(calls[c]) /\ Field(calls[c]).endpoint = "signup"
      BY <2>1, AtRuns DEF At
    <3> QED  BY <3>1, FieldFacts DEF Typed, RequestsHeld, ValidField
  <2>3. UserDoc(doc, clock') /\ doc.followerIds = {} /\ doc.bookmarks = {}
    BY <1>1, <2>2 DEF UserDoc
  <2> HIDE DEF doc
  <2>4. /\ DOMAIN users' = DOMAIN users \cup {u} /\ users'[u] = doc
        /\ \A x \in DOMAIN users : users'[x] = users[x]
    <3>1. u \notin DOMAIN users /\ users' = Put(users, u, doc)
      BY <2>1 DEF doc
    <3> QED  BY <3>1 DEF Put
  <2> QED  BY <1>1, <1>2, <2>3, <2>4 DEF UsersTyped, UsersGoOn, SameLikes
<1>5. CASE \E c \in Call : UpdateMe(c)
  <2>1. PICK c \in Call : UpdateMe(c)
    BY <1>5
  <2> DEFINE me == Me(calls[c])
             given == Field(calls[c]).tagsId
             new == [users[me] EXCEPT !.rev = @ + 1, !.tagsId = IF given = None THEN @ ELSE given]
  <2>5. users' = users \/ (me \in DOMAIN users /\ users' = [users EXCEPT ![me] = new])
    BY <2>1 DEF UpdateMe
  <2>6. given = None \/ given \in SUBSET Tag
    <3>1. Running(calls[c]) /\ Field(calls[c]).endpoint = "updateMe"
      BY <2>1, AtRuns DEF UpdateMe, At
    <3> QED  BY <3>1, FieldFacts DEF Typed, RequestsHeld, ValidField
  <2>2. CASE users' = users
    BY <1>3, <2>2
  <2>3. CASE me \in DOMAIN users /\ users' = [users EXCEPT ![me] = new]
    <3>1. /\ DOMAIN users' = DOMAIN users
          /\ users'[me] = new
          /\ \A x \in DOMAIN users \ {me} : users'[x] = users[x]
      BY <2>3
    <3>2. UserDoc(users[me], clock')
      BY <1>2, <2>3
    <3>3. /\ DOMAIN users'[me] = DOMAIN users[me] /\ users'[me].rev = users[me].rev + 1
          /\ users'[me].lastActivity = users[me].lastActivity
          /\ users'[me].tagsId \in SUBSET Tag /\ SameLikes(users'[me], users[me])
      BY <2>6, <3>1, <3>2 DEF UserDoc, SameLikes
    <3>4. UserDoc(users'[me], clock') /\ users'[me].rev \in Nat /\ users[me].rev <= users'[me].rev
      BY <3>2, <3>3 DEF UserDoc, SameLikes
    <3>5. UsersTyped'
      BY <1>1, <1>2, <3>1, <3>4 DEF UsersTyped
    <3>6. ASSUME NEW u \in DOMAIN users
          PROVE  users'[u].rev \in Nat /\ users[u].rev <= users'[u].rev
      <4>1. CASE u = me
        BY <3>4, <4>1
      <4>2. CASE u # me
        <5>1. PICK rev \in Nat : rev = users[u].rev
          BY <1>2
        <5> QED  BY <3>1, <4>2, <5>1
      <4> QED  BY <4>1, <4>2
    <3>7. \A u \in DOMAIN users : SameLikes(users'[u], users[u])
      BY <3>1, <3>3 DEF SameLikes
    <3> QED  BY <1>2, <3>1, <3>5, <3>6, <3>7 DEF UsersGoOn
  <2> QED  BY <2>2, <2>3, <2>5
<1>6. CASE \E t \in touching : Touch(t)
  <2>1. PICK t \in touching :
           users' = users \/ (t.user \in DOMAIN users
                                /\ users' = [users EXCEPT ![t.user].lastActivity = t.at])
    BY <1>6 DEF Touch
  <2>2. t.at \in 1..clock
    BY <2>1 DEF Typed, TypeOK
  <2>3. CASE users' = users
    BY <1>3, <2>3
  <2>4. CASE t.user \in DOMAIN users /\ users' = [users EXCEPT ![t.user].lastActivity = t.at]
    <3>1. /\ DOMAIN users' = DOMAIN users
          /\ users'[t.user] = [users[t.user] EXCEPT !.lastActivity = t.at]
          /\ \A x \in DOMAIN users \ {t.user} : users'[x] = users[x]
      BY <2>4
    <3>2. UserDoc(users[t.user], clock')
      BY <1>2, <2>4
    <3>3. /\ DOMAIN users'[t.user] = DOMAIN users[t.user]
          /\ users'[t.user].rev = users[t.user].rev
          /\ users'[t.user].lastActivity = t.at
          /\ SameLikes(users'[t.user], users[t.user])
      BY <3>1, <3>2 DEF UserDoc, SameLikes
    <3>4. UserDoc(users'[t.user], clock')
      BY <1>1, <2>2, <3>2, <3>3 DEF UserDoc, SameLikes
    <3>5. UsersTyped'
      BY <1>1, <1>2, <3>1, <3>4 DEF UsersTyped
    <3>6. ASSUME NEW u \in DOMAIN users
          PROVE  users'[u].rev \in Nat /\ users[u].rev <= users'[u].rev
      <4>1. PICK rev \in Nat : rev = users[u].rev
        BY <1>2
      <4>2. users'[u].rev = users[u].rev
        BY <3>1, <3>3
      <4> QED  BY <4>1, <4>2
    <3>7. \A u \in DOMAIN users : SameLikes(users'[u], users[u])
      BY <3>1, <3>3 DEF SameLikes
    <3> QED  BY <1>2, <3>1, <3>5, <3>6, <3>7 DEF UsersGoOn
  <2> QED  BY <2>1, <2>3, <2>4
<1> QED  BY <1>1, <1>3, <1>4, <1>5, <1>6, NextFrames DEF Typed

\* NFTs: none goes or changes.
NftsTyped ==
    /\ DOMAIN nfts \subseteq Nft /\ DOMAIN index \subseteq DOMAIN nfts
    /\ \A n \in DOMAIN nfts : NftDoc(nfts[n], clock)
NftsStay ==
    /\ DOMAIN nfts \subseteq DOMAIN nfts'
    /\ \A n \in DOMAIN nfts : nfts'[n] = nfts[n]

\* What createNft inserts.
LEMMA NewNft ==
    ASSUME Typed, NEW c \in Call, At(c, "insert", "createNft")
    PROVE  LET doc == Stamped(calls[c]) IN
           /\ NftDoc(doc, clock) /\ doc.creatorId = Me(calls[c])
           /\ doc.tagIds \subseteq DOMAIN tags
<1> DEFINE r == calls[c]
           old == Field(r).doc
<1>1. Running(r) /\ Field(r).endpoint = "createNft" /\ RequestHeld(r) /\ r.stage = "insert"
  BY AtRuns DEF At, Typed, RequestsHeld
<1>2. Field(r).endpoint \in RoleEndpoint
  BY <1>1 DEF RoleEndpoint
<1>3. Me(r) \in User
  BY <1>1, <1>2, FieldFacts
<1>4. /\ {"tagIds", "creatorId", "createdAt", "grams", "collectionId", "sale"} \subseteq DOMAIN old
      /\ old.grams \in SUBSET Gram /\ old.collectionId \in Collection /\ SaleDoc(old.sale)
  BY <1>1, FieldFacts DEF ValidField
<1>5. /\ r.stamp \in 0..clock /\ Field(r).tagIds \subseteq DOMAIN tags
      /\ DOMAIN tags \subseteq Tag
  BY <1>1 DEF Typed, InsertsReady, TypeOK
<1> HIDE DEF r
<1>6. LET doc == Stamped(r) IN
      /\ doc.tagIds = Field(r).tagIds /\ doc.creatorId = Me(r) /\ doc.createdAt = r.stamp
      /\ doc.grams = old.grams /\ doc.collectionId = old.collectionId /\ doc.sale = old.sale
  BY <1>4 DEF Stamped
<1> QED  BY <1>3, <1>4, <1>5, <1>6 DEF NftDoc, r

LEMMA NftsNext ==
    ASSUME Typed, Next
    PROVE  NftsTyped' /\ NftsStay
<1>1. NftsTyped /\ CallsShaped /\ index' = index
      /\ clock \in Nat /\ clock' \in Nat /\ clock <= clock'
  BY ClockFacts, NextFrames DEF Typed, TypeOK, RequestsHeld, NftsTyped
<1>2. \A n \in DOMAIN nfts : NftDoc(nfts[n], clock')
  BY <1>1, LaterDocs DEF NftsTyped
<1>3. CASE nfts' = nfts
  BY <1>1, <1>2, <1>3 DEF NftsTyped, NftsStay
<1>4. CASE \E c \in Call : InsertNft(c)
  <2>1. PICK c \in Call : InsertNft(c)
    BY <1>4
  <2>2. PICK n \in Nft \ DOMAIN nfts :
           At(c, "insert", "createNft") /\ nfts' = Put(nfts, n, Stamped(calls[c]))
    BY <1>1, <2>1, InsertNftFacts
  <2>3. NftDoc(Stamped(calls[c]), clock')
    BY <1>1, <2>2, NewNft, LaterDocs
  <2>4. /\ DOMAIN nfts' = DOMAIN nfts \cup {n} /\ nfts'[n] = Stamped(calls[c])
        /\ \A x \in DOMAIN nfts : nfts'[x] = nfts[x]
    BY <2>2 DEF Put
  <2> QED  BY <1>1, <1>2, <2>3, <2>4 DEF NftsTyped, NftsStay
<1> QED  BY <1>1, <1>3, <1>4, NextFrames DEF Typed

\* Collections: none goes, and only a thumbnail ever changes.
CollectionsTyped ==
    /\ DOMAIN collections \subseteq Collection
    /\ \A k \in DOMAIN collections : CollectionDoc(collections[k], clock)
    /\ fetching \subseteq [collection: DOMAIN collections, step: {"fetch", "update"}]
    /\ bucket \subseteq DOMAIN collections
SameCollection(k, l) ==
    /\ k.creatorId = l.creatorId /\ k.mintAddress = l.mintAddress /\ k.tagIds = l.tagIds
    /\ k.createdAt = l.createdAt
CollectionsStay ==
    /\ DOMAIN collections \subseteq DOMAIN collections'
    /\ \A k \in DOMAIN collections : SameCollection(collections'[k], collections[k])

\* What createCollection inserts.
LEMMA NewCollection ==
    ASSUME Typed, NEW c \in Call, At(c, "insert", "createCollection")
    PROVE  LET doc == Stamped(calls[c]) IN
           /\ CollectionDoc(doc, clock) /\ doc.creatorId = Me(calls[c]) /\ doc.thumbnail = "link"
           /\ doc.tagIds \subseteq DOMAIN tags
           /\ doc.mintAddress = Field(calls[c]).doc.mintAddress
<1> DEFINE r == calls[c]
           old == Field(r).doc
<1>1. Running(r) /\ Field(r).endpoint = "createCollection" /\ RequestHeld(r) /\ r.stage = "insert"
  BY AtRuns DEF At, Typed, RequestsHeld
<1>2. Field(r).endpoint \in RoleEndpoint
  BY <1>1 DEF RoleEndpoint
<1>3. Me(r) \in User
  BY <1>1, <1>2, FieldFacts
<1>4. /\ {"tagIds", "creatorId", "createdAt", "mintAddress", "thumbnail"} \subseteq DOMAIN old
      /\ old.thumbnail = "link"
  BY <1>1, FieldFacts DEF ValidField
<1>5. /\ Field(r).tagIds \subseteq DOMAIN tags /\ DOMAIN tags \subseteq Tag
      /\ r.stamp \in 0..clock
  BY <1>1 DEF Typed, InsertsReady, TypeOK
<1> HIDE DEF r
<1>6. LET doc == Stamped(r) IN
      /\ DOMAIN doc = DOMAIN old
      /\ doc.tagIds = Field(r).tagIds /\ doc.creatorId = Me(r)
      /\ doc.mintAddress = old.mintAddress /\ doc.thumbnail = old.thumbnail
      /\ doc.createdAt = r.stamp
  BY <1>4 DEF Stamped
<1> QED  BY <1>3, <1>4, <1>5, <1>6 DEF CollectionDoc, r

\* A step of collections and their images.
NewCollectionStep(c, k) ==
    /\ At(c, "insert", "createCollection") /\ k \in Collection \ DOMAIN collections
    /\ \A l \in DOMAIN collections :
          collections[l].mintAddress # Field(calls[c]).doc.mintAddress
    /\ DOMAIN collections' = DOMAIN collections \cup {k}
    /\ collections'[k] = Stamped(calls[c])
    /\ \A l \in DOMAIN collections : collections'[l] = collections[l]
    /\ fetching' = fetching \cup {[collection |-> k, step |-> "fetch"]} /\ bucket' = bucket
UploadStep(j) ==
    /\ j.step = "fetch" /\ collections' = collections
    /\ bucket' = bucket \cup {j.collection}
    /\ fetching' = (fetching \ {j}) \cup {[collection |-> j.collection, step |-> "update"]}
ThumbnailStep(j) ==
    /\ j.step = "update" /\ bucket' = bucket /\ fetching' = fetching \ {j}
    /\ DOMAIN collections' = DOMAIN collections
    /\ \A l \in DOMAIN collections \ {j.collection} : collections'[l] = collections[l]
    /\ CollectionDoc(collections'[j.collection], clock)
    /\ SameCollection(collections'[j.collection], collections[j.collection])
    /\ collections'[j.collection].thumbnail = "stored"
GiveUpStep(j) == collections' = collections /\ bucket' = bucket /\ fetching' = fetching \ {j}

LEMMA CollectionSteps ==
    ASSUME Typed, Next
    PROVE  \/ UNCHANGED <<collections, fetching, bucket>>
           \/ \E c \in Call, k \in Collection : NewCollectionStep(c, k)
           \/ \E j \in fetching : UploadStep(j) \/ ThumbnailStep(j) \/ GiveUpStep(j)
<1>1. CallsShaped /\ TypeOK
  BY DEF Typed, RequestsHeld
<1>2. CASE \E c \in Call : InsertCollection(c)
  <2>1. PICK c \in Call : InsertCollection(c)
    BY <1>2
  <2>2. /\ At(c, "insert", "createCollection") /\ bucket' = bucket
        /\ \/ UNCHANGED <<collections, fetching>>
           \/ \E k \in Collection \ DOMAIN collections :
                 /\ \A l \in DOMAIN collections :
                       collections[l].mintAddress # Field(calls[c]).doc.mintAddress
                 /\ collections' = Put(collections, k, Stamped(calls[c]))
                 /\ fetching' = fetching \cup {[collection |-> k, step |-> "fetch"]}
    BY <1>1, <2>1, InsertCollectionFacts DEF InsertCollection
  <2>3. ASSUME NEW k \in Collection \ DOMAIN collections,
               collections' = Put(collections, k, Stamped(calls[c]))
        PROVE  /\ DOMAIN collections' = DOMAIN collections \cup {k}
               /\ collections'[k] = Stamped(calls[c])
               /\ \A l \in DOMAIN collections : collections'[l] = collections[l]
    BY <2>3 DEF Put
  <2> QED  BY <2>2, <2>3 DEF NewCollectionStep
<1>3. CASE \E j \in fetching : FetchImage(j) \/ UpdateThumbnail(j) \/ FailFetch(j)
  <2>1. PICK j \in fetching : FetchImage(j) \/ UpdateThumbnail(j) \/ FailFetch(j)
    BY <1>3
  <2>2. j \in [collection: DOMAIN collections, step: {"fetch", "update"}]
    BY <1>1, <2>1 DEF TypeOK
  <2>3. CASE FetchImage(j)
    <3>1. [j EXCEPT !.step = "update"] = [collection |-> j.collection, step |-> "update"]
      BY <2>2
    <3> QED  BY <2>1, <2>3, <3>1 DEF FetchImage, UploadStep, stores
  <2>4. CASE UpdateThumbnail(j)
    <3>1. PICK k \in DOMAIN collections : k = j.collection /\ CollectionDoc(collections[k], clock)
      BY <1>1, <2>2 DEF TypeOK
    <3>2. /\ j.step = "update" /\ bucket' = bucket /\ fetching' = fetching \ {j}
          /\ collections' = [collections EXCEPT ![k].thumbnail = "stored"]
      BY <2>4, <3>1 DEF UpdateThumbnail
    <3>3. /\ DOMAIN collections' = DOMAIN collections
          /\ \A l \in DOMAIN collections \ {k} : collections'[l] = collections[l]
          /\ collections'[k] = [collections[k] EXCEPT !.thumbnail = "stored"]
      BY <3>2
    <3>4. /\ DOMAIN collections'[k] = DOMAIN collections[k]
          /\ collections'[k].thumbnail = "stored"
          /\ SameCollection(collections'[k], collections[k])
      BY <3>1, <3>3 DEF CollectionDoc, SameCollection
    <3>5. CollectionDoc(collections'[k], clock)
      BY <3>1, <3>4 DEF CollectionDoc, SameCollection
    <3>6. ThumbnailStep(j)
      BY <3>1, <3>2, <3>3, <3>4, <3>5 DEF ThumbnailStep
    <3> QED  BY <2>1, <3>6
  <2>5. CASE FailFetch(j)
    BY <2>1, <2>5 DEF FailFetch, GiveUpStep, stores
  <2> QED  BY <2>1, <2>3, <2>4, <2>5
<1> QED  BY <1>1, <1>2, <1>3, NextFrames

LEMMA CollectionsNext ==
    ASSUME Typed, Next
    PROVE  CollectionsTyped' /\ CollectionsStay
<1>0. clock \in Nat /\ clock' \in Nat /\ clock <= clock'
  BY ClockFacts
<1>1. CollectionsTyped /\ \A k \in DOMAIN collections : CollectionDoc(collections[k], clock')
  BY <1>0, LaterDocs DEF Typed, TypeOK, CollectionsTyped
<1>2. CASE UNCHANGED <<collections, fetching, bucket>>
  BY <1>1, <1>2 DEF CollectionsTyped, CollectionsStay, SameCollection
<1>3. CASE \E c \in Call, k \in Collection : NewCollectionStep(c, k)
  <2>1. PICK c \in Call, k \in Collection : NewCollectionStep(c, k)
    BY <1>3
  <2>2. CollectionDoc(Stamped(calls[c]), clock')
    BY <1>0, <2>1, NewCollection, LaterDocs DEF NewCollectionStep
  <2>3. fetching' \subseteq [collection: DOMAIN collections', step: {"fetch", "update"}]
    BY <1>1, <2>1 DEF CollectionsTyped, NewCollectionStep
  <2>4. CollectionsStay
    BY <2>1 DEF NewCollectionStep, CollectionsStay, SameCollection
  <2>5. bucket' \subseteq DOMAIN collections' /\ DOMAIN collections' \subseteq Collection
    BY <1>1, <2>1 DEF CollectionsTyped, NewCollectionStep
  <2>6. ASSUME NEW l \in DOMAIN collections' PROVE CollectionDoc(collections'[l], clock')
    BY <1>1, <2>1, <2>2, <2>6 DEF NewCollectionStep
  <2> QED  BY <2>3, <2>4, <2>5, <2>6 DEF CollectionsTyped
<1>4. CASE \E j \in fetching : UploadStep(j) \/ ThumbnailStep(j) \/ GiveUpStep(j)
  <2>1. PICK j \in fetching : UploadStep(j) \/ ThumbnailStep(j) \/ GiveUpStep(j)
    BY <1>4
  <2>2. j.collection \in DOMAIN collections
    BY <1>1, <2>1 DEF CollectionsTyped
  <2>5. ThumbnailStep(j) => CollectionDoc(collections'[j.collection], clock')
    BY <1>0, LaterDocs DEF ThumbnailStep
  <2>3. CASE UploadStep(j) \/ GiveUpStep(j)
    BY <1>1, <2>2, <2>3 DEF CollectionsTyped, UploadStep, GiveUpStep, CollectionsStay, SameCollection
  <2>4. CASE ThumbnailStep(j)
    <3>1. ASSUME NEW l \in DOMAIN collections' PROVE CollectionDoc(collections'[l], clock')
      BY <1>1, <2>4, <2>5, <3>1 DEF ThumbnailStep
    <3>2. CollectionsStay
      BY <2>2, <2>4 DEF ThumbnailStep, CollectionsStay, SameCollection
    <3> QED  BY <1>1, <2>2, <2>4, <3>1, <3>2 DEF CollectionsTyped, ThumbnailStep
  <2> QED  BY <2>1, <2>3, <2>4
<1> QED  BY <1>2, <1>3, <1>4, CollectionSteps

\* Names of tags and licences, of which none goes.
LEMMA NamesNext ==
    ASSUME Typed, Next
    PROVE  /\ DOMAIN tags' \subseteq Tag /\ DOMAIN licences' \subseteq Licence
           /\ DOMAIN tags \subseteq DOMAIN tags'
<1>1. DOMAIN tags \subseteq Tag /\ DOMAIN licences \subseteq Licence /\ TypeOK /\ CallsShaped
  BY DEF Typed, TypeOK, RequestsHeld
<1>2. ASSUME NEW c \in Call, CreateTag(c)
      PROVE  DOMAIN tags' \subseteq Tag /\ DOMAIN tags \subseteq DOMAIN tags'
  <2>1. Field(calls[c]).endpoint = "createTag" /\ Running(calls[c])
    BY <1>2, AtRuns DEF CreateTag, At
  <2>2. Field(calls[c]).name \in Tag
    BY <2>1, FieldFacts DEF Typed, RequestsHeld, ValidField
  <2>3. tags' = tags \/ \E doc : tags' = Put(tags, Field(calls[c]).name, doc)
    BY <1>2 DEF CreateTag
  <2> QED  BY <1>1, <2>2, <2>3 DEF Put
<1>3. ASSUME NEW c \in Call, CreateLicence(c)
      PROVE  DOMAIN licences' \subseteq Licence
  <2>1. Field(calls[c]).endpoint = "createLicence" /\ Running(calls[c])
    BY <1>3, AtRuns DEF CreateLicence, At
  <2>2. Field(calls[c]).name \in Licence
    BY <2>1, FieldFacts DEF Typed, RequestsHeld, ValidField
  <2>3. licences' = licences \/ \E doc : licences' = Put(licences, Field(calls[c]).name, doc)
    BY <1>3 DEF CreateLicence
  <2> QED  BY <1>1, <2>2, <2>3 DEF Put
<1> QED  BY <1>1, <1>2, <1>3, NextFrames

LEMMA TouchingNext ==
    ASSUME Typed, Next
    PROVE  \A t \in touching' : t.user \in User /\ t.at \in 1..clock'
<1>1. /\ clock \in Nat /\ clock' \in Nat /\ clock <= clock' /\ CallsShaped /\ TypeOK
      /\ \A t \in touching : t.user \in User /\ t.at \in 1..clock'
  BY ClockFacts DEF Typed, TypeOK, RequestsHeld
<1>2. ASSUME NEW c \in Call, UpdateMe(c)
      PROVE  \A t \in touching' : t.user \in User /\ t.at \in 1..clock'
  <2>1. /\ Running(calls[c]) /\ Field(calls[c]).endpoint = "updateMe"
        /\ \/ touching' = touching
           \/ /\ touching' = touching \cup {[user |-> Me(calls[c]), at |-> clock + 1]}
              /\ clock' = clock + 1
    BY <1>2, AtRuns DEF UpdateMe, At
  <2>2. Me(calls[c]) \in User
    BY <2>1, FieldFacts DEF Typed, RequestsHeld, RoleEndpoint
  <2> QED  BY <1>1, <2>1, <2>2
<1>3. ASSUME NEW t \in touching, Touch(t)
      PROVE  touching' \subseteq touching
  BY <1>3 DEF Touch
<1> QED  BY <1>1, <1>2, <1>3, NextFrames

LEMMA InsertsNext ==
    ASSUME Typed, Next
    PROVE  InsertsReady'
<1>1. /\ clock \in Nat /\ clock' \in Nat /\ clock <= clock' /\ CallsShaped /\ TypeOK
      /\ DOMAIN tags \subseteq DOMAIN tags' /\ InsertsReady
      /\ \A r \in asked : ValidRequest(r)
  BY ClockFacts, NamesNext DEF Typed, RequestsHeld
<1>2. ASSUME NEW d \in Call, calls'[d] = calls[d], calls[d].stage = "insert"
      PROVE  calls[d].stamp \in 0..clock' /\ Field(calls[d]).tagIds \subseteq DOMAIN tags'
  BY <1>1, <1>2 DEF InsertsReady
<1>3. CASE calls' = calls
  BY <1>2, <1>3 DEF InsertsReady
<1>4. ASSUME NEW c \in Call, (\E r \in asked : Arrive(c, r)) \/ Acts(c)
      PROVE  InsertsReady'
  <2>1. PICK s : /\ Becomes(c, s) /\ Shaped(s)
                 /\ s.stage = "insert" =>
                       s.stamp \in 0..clock' /\ Field(s).tagIds \subseteq DOMAIN tags
    <3>1. CASE \E r \in asked : Arrive(c, r)
      BY <1>1, <3>1, ArriveFacts DEF Arrived
    <3>2. CASE ValidateTags(c)
      <4>1. PICK s :
              /\ Becomes(c, s)
              /\ \/ Refused(calls[c], s)
                 \/ /\ Makes(calls[c], s, {}) /\ s.stamp = clock + 1
                    /\ clock' = clock + 1 /\ Missing(Field(calls[c]).tagIds, DOMAIN tags) = {}
        BY <1>1, <3>2, ValidateTagsFacts
      <4>2. CASE Refused(calls[c], s)
        <5>1. Shaped(s) /\ s.stage = "done"
          BY <1>1, <4>2, AnsweredFacts DEF Refused, CallsShaped
        <5> QED  BY <4>1, <5>1
      <4>3. CASE ~Refused(calls[c], s)
        <5>1. Shaped(s) /\ s.stamp \in 0..clock'
          BY <1>1, <4>1, <4>3 DEF Makes, GoesOn
        <5>2. Field(s) = Field(calls[c]) /\ Field(calls[c]).tagIds \subseteq DOMAIN tags
          BY <4>1, <4>3 DEF Makes, GoesOn, Field, Missing
        <5> QED  BY <4>1, <5>1, <5>2
      <4> QED  BY <4>2, <4>3
    <3>3. CASE Acts(c) /\ ~ValidateTags(c)
      <4>1. PICK s : /\ Becomes(c, s) /\ Moves(calls[c], s)
                     /\ Goes(calls[c], s) => s.stage # "insert"
        BY <1>1, <3>3, ActsMove
      <4>2. Shaped(calls[c]) /\ RequestHeld(calls[c])
        BY DEF Typed, RequestsHeld, CallsShaped
      <4> QED  BY <4>1, <4>2, MovesFacts
    <3> QED  BY <1>4, <3>1, <3>2, <3>3
  <2>2. calls'[c] = s /\ \A d \in Call \ {c} : calls'[d] = calls[d]
    BY <1>1, <2>1, BecomesFacts
  <2> QED  BY <1>1, <1>2, <2>1, <2>2 DEF InsertsReady
<1> QED  BY <1>1, <1>3, <1>4, NextFrames

LEMMA NoCallHeld == RequestHeld(NoCall)
<1>1. /\ NoCall.stage = "idle" /\ NoCall.code = "none" /\ NoCall.ran = {}
      /\ NoCall.allowed = {} /\ NoCall.made = {}
  BY DEF NoCall
<1> QED  BY <1>1 DEF RequestHeld, Running, Stages, Codes

LEMMA TypedInit ==
    ASSUME Init
    PROVE  Typed
<1>1. PICK case \in Case :
         /\ users = case.users /\ nfts = case.nfts /\ collections = case.collections
         /\ tags = case.tags /\ licences = case.licences
         /\ asked = case.asked /\ left = case.left /\ clock = case.clock
         /\ DOMAIN index = case.indexed
  BY DEF Init
<1>2. Consistent(case)
  BY RequestCases
<1>3. calls = [c \in Call |-> NoCall] /\ fetching = {} /\ bucket = {} /\ touching = {} /\ faults = 0
      /\ ruled \in BOOLEAN
  BY DEF Init
<1>4. /\ DOMAIN users \subseteq User /\ DOMAIN index \subseteq DOMAIN nfts
      /\ DOMAIN nfts \subseteq Nft /\ DOMAIN collections \subseteq Collection
      /\ DOMAIN tags \subseteq Tag /\ DOMAIN licences \subseteq Licence
      /\ clock \in Nat /\ left \in Nat
  BY <1>1, <1>2 DEF Consistent
<1>5. /\ \A u \in DOMAIN users : UserDoc(users[u], clock)
      /\ \A n \in DOMAIN nfts : NftDoc(nfts[n], clock)
      /\ \A k \in DOMAIN collections : CollectionDoc(collections[k], clock)
  BY <1>1, <1>2 DEF Consistent
<1>6. \A c \in Call : calls[c] = NoCall /\ NoCall.stage = "idle" /\ NoCall.code = "none"
  BY <1>3 DEF NoCall
<1>7. 0 \in 0..MaxFaults
  BY RequestConstants
<1>8. TypeOK
  BY <1>3, <1>4, <1>5, <1>6, <1>7 DEF TypeOK, Stages, Codes
<1>9. CallsShaped
  BY <1>3, NoCallShaped DEF CallsShaped
<1>10. \A r \in asked : ValidRequest(r)
  BY <1>1, <1>2 DEF Consistent
<1> QED  BY <1>6, <1>8, <1>9, <1>10, NoCallHeld DEF Typed, RequestsHeld, InsertsReady

LEMMA TypedNext ==
    ASSUME Typed, [Next]_requestVars
    PROVE  Typed'
<1>1. CASE Next
  <2>1. TypeOK /\ RequestsHeld /\ CallsShaped
    BY DEF Typed, RequestsHeld
  <2>2. RequestsHeld' /\ InsertsReady'
    BY <1>1, <2>1, HeldNext, InsertsNext
  <2>3. /\ ruled' \in BOOLEAN /\ clock' \in Nat /\ left' \in Nat /\ faults' \in 0..MaxFaults
    BY <1>1, <2>1, NextFrames, ClockFacts DEF TypeOK
  <2>4. UsersTyped' /\ NftsTyped' /\ CollectionsTyped'
    BY <1>1, UsersNext, NftsNext, CollectionsNext
  <2>5. /\ DOMAIN tags' \subseteq Tag /\ DOMAIN licences' \subseteq Licence
        /\ \A t \in touching' : t.user \in User /\ t.at \in 1..clock'
    BY <1>1, NamesNext, TouchingNext
  <2>6. \A c \in Call : /\ calls'[c].stage \in Stages /\ calls'[c].code \in Codes
                        /\ (calls'[c].code = "none") = (calls'[c].stage # "done")
    <3>1. ASSUME NEW c \in Call PROVE RequestHeld(calls[c])'
      BY <2>2 DEF RequestsHeld
    <3> QED  BY <3>1 DEF RequestHeld
  <2>7. TypeOK'
    BY <2>3, <2>4, <2>5, <2>6 DEF TypeOK, UsersTyped, NftsTyped, CollectionsTyped
  <2> QED  BY <2>2, <2>7 DEF Typed
<1>2. CASE UNCHANGED requestVars
  BY <1>2 DEF requestVars, stores, images, Typed, TypeOK, RequestsHeld, CallsShaped, InsertsReady,
              RequestHeld, OnlyRulesRefuse, Verdicts
<1> QED  BY <1>1, <1>2

\* What is stored keeps its shape, and a request holds at each stage of its
\* resolvers what the stages that are left will need (one await after another of
\* user, nft, collection, newsfeed and search services).
THEOREM TypedAlways == Spec => []Typed
<1>1. Init => Typed
  BY TypedInit
<1>2. Typed /\ [Next]_requestVars => Typed'
  BY TypedNext
<1> QED  BY <1>1, <1>2, PTL DEF Spec

\* Every document keeps its shape, whoever writes it, every date is of the past
\* and every request has an answer exactly when it is done (the Mongoose schemas,
\* the services' create and update operations).
THEOREM RequestsTyped == Spec => []TypeOK
<1>1. Typed => TypeOK
  BY DEF Typed
<1> QED  BY <1>1, TypedAlways, PTL

-----------------------------------------------------------------------------
(* Whoever makes something bears a token. *)

\* What a request made is its requester's.
OwnWorks ==
    \A c \in Call :
        /\ \A n \in calls[c].made \cap Nft :
              n \in DOMAIN nfts /\ nfts[n].creatorId = Me(calls[c])
        /\ \A k \in calls[c].made \cap Collection :
              k \in DOMAIN collections /\ collections[k].creatorId = Me(calls[c])

LEMMA OwnWorksNext ==
    ASSUME Typed, OwnWorks, Next
    PROVE  OwnWorks'
<1>1. /\ CallsShaped /\ TypeOK /\ NftsStay /\ CollectionsStay
      /\ \A r \in asked : ValidRequest(r)
      /\ \A c \in Call : Shaped(calls[c]) /\ RequestHeld(calls[c])
  BY NftsNext, CollectionsNext DEF Typed, RequestsHeld, CallsShaped
<1>2. ASSUME NEW d \in Call, calls'[d].made = calls[d].made, Me(calls'[d]) = Me(calls[d])
      PROVE  /\ \A n \in calls'[d].made \cap Nft :
                   n \in DOMAIN nfts' /\ nfts'[n].creatorId = Me(calls'[d])
             /\ \A k \in calls'[d].made \cap Collection :
                   k \in DOMAIN collections' /\ collections'[k].creatorId = Me(calls'[d])
  BY <1>1, <1>2 DEF OwnWorks, NftsStay, CollectionsStay, SameCollection
<1>3. CASE calls' = calls
  BY <1>2, <1>3 DEF OwnWorks, Me
<1>4. ASSUME NEW c \in Call, \E r \in asked : Arrive(c, r)
      PROVE  OwnWorks'
  <2>1. PICK s : Becomes(c, s) /\ Shaped(s) /\ s.made = {}
    BY <1>1, <1>4, ArriveFacts DEF Arrived
  <2>2. calls'[c].made = {} /\ \A d \in Call \ {c} : calls'[d] = calls[d]
    BY <1>1, <2>1, BecomesFacts
  <2> QED  BY <1>2, <2>2 DEF OwnWorks, Me
<1>5. ASSUME NEW c \in Call, Acts(c)
      PROVE  OwnWorks'
  <2>1. PICK s : /\ Becomes(c, s) /\ Moves(calls[c], s)
                 /\ \/ s.made = calls[c].made
                    \/ SignUp(c) \/ InsertNft(c) \/ InsertCollection(c)
    BY <1>1, <1>5, ActsMove
  <2>2. Shaped(s) /\ s.ctx = calls[c].ctx
    BY <1>1, <2>1, MovesFacts
  <2>3. calls'[c] = s /\ \A d \in Call \ {c} : calls'[d] = calls[d]
    BY <1>1, <2>1, <2>2, BecomesFacts
  <2>4. Me(calls'[c]) = Me(calls[c]) /\ \A d \in Call \ {c} : Me(calls'[d]) = Me(calls[d])
    BY <2>2, <2>3 DEF Me
  <2>5. ASSUME NEW id,
               calls'[c].made \subseteq calls[c].made \cup {id},
               id \in Nft => id \in DOMAIN nfts' /\ nfts'[id].creatorId = Me(calls[c]),
               id \in Collection =>
                  id \in DOMAIN collections' /\ collections'[id].creatorId = Me(calls[c])
        PROVE  OwnWorks'
    <3>1. ASSUME NEW n \in calls'[c].made \cap Nft
          PROVE  n \in DOMAIN nfts' /\ nfts'[n].creatorId = Me(calls'[c])
      BY <1>1, <2>4, <2>5 DEF OwnWorks, NftsStay
    <3>2. ASSUME NEW k \in calls'[c].made \cap Collection
          PROVE  k \in DOMAIN collections' /\ collections'[k].creatorId = Me(calls'[c])
      BY <1>1, <2>4, <2>5 DEF OwnWorks, CollectionsStay, SameCollection
    <3> QED  BY <1>2, <2>3, <2>4, <3>1, <3>2 DEF OwnWorks, Me
  <2>6. CASE s.made = calls[c].made
    BY <1>2, <2>3, <2>4, <2>6 DEF OwnWorks, Me
  <2>7. CASE SignUp(c)
    <3>1. PICK u \in User : \E t : Becomes(c, t) /\ Makes(calls[c], t, {u})
      BY <1>1, <2>7, SignUpFacts
    <3>2. Makes(calls[c], calls'[c], {u})
      BY <1>1, <3>1, BecomesFacts DEF Makes, GoesOn
    <3> QED  BY <2>5, <3>2, RequestConstants DEF Makes
  <2>8. CASE InsertNft(c)
    <3>1. PICK n \in Nft \ DOMAIN nfts :
             /\ At(c, "insert", "createNft")
             /\ \E t : Becomes(c, t) /\ Makes(calls[c], t, {n})
             /\ nfts' = Put(nfts, n, Stamped(calls[c]))
      BY <1>1, <2>8, InsertNftFacts
    <3>2. Makes(calls[c], calls'[c], {n})
      BY <1>1, <3>1, BecomesFacts DEF Makes, GoesOn
    <3>3. n \in DOMAIN nfts' /\ nfts'[n] = Stamped(calls[c])
      BY <3>1 DEF Put
    <3>4. nfts'[n].creatorId = Me(calls[c])
      BY <3>1, <3>3, NewNft
    <3> QED  BY <2>5, <3>1, <3>2, <3>3, <3>4, RequestConstants DEF Makes
  <2>9. CASE InsertCollection(c) /\ s.made # calls[c].made
    <3>1. At(c, "insert", "createCollection")
      BY <1>1, <2>9, InsertCollectionFacts
    <3>2. PICK t :
             /\ Becomes(c, t)
             /\ \/ Refused(calls[c], t)
                \/ \E k \in Collection \ DOMAIN collections :
                      /\ Makes(calls[c], t, {k})
                      /\ collections' = Put(collections, k, Stamped(calls[c]))
      BY <1>1, <2>9, InsertCollectionFacts
    <3>3. calls'[c] = t
      <4>1. Shaped(t)
        BY <1>1, <3>2, AnsweredFacts DEF Refused, Makes, GoesOn
      <4> QED  BY <1>1, <3>2, <4>1, BecomesFacts
    <3>4. ~Refused(calls[c], t)
      BY <1>1, <2>3, <2>9, <3>3, EndingFacts DEF SameWorks
    <3>5. PICK k \in Collection \ DOMAIN collections :
             /\ Makes(calls[c], t, {k})
             /\ collections' = Put(collections, k, Stamped(calls[c]))
      BY <3>2, <3>4
    <3>6. k \in DOMAIN collections' /\ collections'[k] = Stamped(calls[c])
      BY <3>5 DEF Put
    <3>7. collections'[k].creatorId = Me(calls[c])
      BY <3>1, <3>6, NewCollection
    <3> QED  BY <2>5, <3>3, <3>5, <3>6, <3>7, RequestConstants DEF Makes
  <2> QED  BY <2>1, <2>6, <2>7, <2>8, <2>9
<1> QED  BY <1>1, <1>3, <1>4, <1>5, NextFrames

LEMMA GuardedWhenHeld ==
    ASSUME RequestsHeld, OwnWorks
    PROVE  GuardedRunsAuthenticated
<1> SUFFICES ASSUME NEW c \in Call
             PROVE  LET call == calls[c] IN
                /\ call.ran \cap DevEndpoint # {} => call.ask.devToken = "right"
                /\ call.ran \cap RoleEndpoint # {} =>
                      /\ call.ask.header.kind = "Auth" /\ call.ask.header.role = "User"
                      /\ \A n \in call.made \cap Nft : nfts[n].creatorId = call.ask.header.sub
                      /\ \A k \in call.made \cap Collection :
                            collections[k].creatorId = call.ask.header.sub
  BY DEF GuardedRunsAuthenticated
<1> DEFINE r == calls[c]
<1>1. CASE r.stage = "idle"
  <2>1. r.ran = {}
    BY <1>1 DEF RequestsHeld, RequestHeld, NoCall
  <2> QED  BY <2>1
<1>2. CASE r.stage # "idle"
  <2>1. /\ ValidRequest(r.ask) /\ r.ctx = Context(r.ask.header)
        /\ \A e \in r.ran : e \in Endpoint /\ Guard(e, r.ctx, r.ask.devToken) = "OK"
    BY <1>2 DEF RequestsHeld, RequestHeld
  <2>2. r.ask.devToken \in {"none", "wrong", "right"}
    BY <2>1 DEF ValidRequest
  <2>3. r.ran \cap DevEndpoint # {} => r.ask.devToken = "right"
    BY <2>1, <2>2, GuardFacts
  <2>4. ASSUME r.ran \cap RoleEndpoint # {}
        PROVE  /\ r.ask.header.kind = "Auth" /\ r.ask.header.role = "User"
               /\ Me(r) = r.ask.header.sub
    <3>1. ~r.ctx.error /\ r.ctx.payload # NoPayload /\ r.ctx.payload.role = "User"
      BY <2>1, <2>2, <2>4, GuardFacts
    <3> QED  BY <2>1, <3>1, RoleNeedsToken DEF Me
  <2> QED  BY <2>3, <2>4 DEF OwnWorks
<1> QED  BY <1>1, <1>2

\* Only the bearer of an Auth token of a user has anything done that is for users,
\* and owns what it made, however many fields and requests run in between; the
\* development endpoints run for the development token only (role.guard.ts,
\* dev-endpoint.guard.ts, endpoint-auth-monitor.guard.ts).
THEOREM GuardsHold == Spec => []GuardedRunsAuthenticated
<1> DEFINE Inv == Typed /\ OwnWorks
<1>1. Init => Inv
  <2> SUFFICES ASSUME Init PROVE OwnWorks
    BY TypedInit
  <2>1. \A c \in Call : calls[c].made = {}
    BY DEF Init, NoCall
  <2> QED  BY <2>1 DEF OwnWorks
<1>2. Inv /\ [Next]_requestVars => Inv'
  <2> SUFFICES ASSUME Inv, [Next]_requestVars PROVE OwnWorks'
    BY TypedNext
  <2>1. CASE UNCHANGED requestVars
    BY <2>1 DEF OwnWorks, Me, requestVars, stores
  <2> QED  BY <2>1, OwnWorksNext
<1>3. Inv => GuardedRunsAuthenticated
  BY GuardedWhenHeld DEF Typed
<1> QED  BY <1>1, <1>2, <1>3, PTL DEF Spec

\* No guard keeps anybody from a public endpoint, in a request of any number of
\* fields; where the rules of BaseUser are in force, they alone may refuse its
\* answer, for the users it shows (graphql.module.ts context, public.decorator.ts,
\* authz-rules.ts).
THEOREM PublicIsPublic == Spec => []PublicFieldsAnswered
<1>1. Typed => PublicFieldsAnswered
  BY DEF Typed, RequestsHeld, RequestHeld, OnlyRulesRefuse, PublicFieldsAnswered, AsksPublic
<1> QED  BY <1>1, TypedAlways, PTL

\* Where the rules are in force, what an answer shows of users is the requester
\* and whom this request itself made (authz-rules.ts, setAsAuthorizedDocument).
THEOREM OthersAreWithheld == Spec => []ForeignDocsWithheld
<1>1. Typed => ForeignDocsWithheld
  BY DEF Typed, RequestsHeld, RequestHeld, ForeignDocsWithheld
<1> QED  BY <1>1, TypedAlways, PTL

-----------------------------------------------------------------------------
(* The loader of users *)

\* What r loaded of a user is no older than what there was when r arrived, that
\* is no newer than what there is, and r was shown what it loaded.
LoadHeld(r) ==
    /\ \A u \in DOMAIN r.began :
          u \in DOMAIN users /\ r.began[u] \in Nat /\ r.began[u] <= users[u].rev
    /\ \A u \in DOMAIN r.cache :
          r.cache[u] \in Nat /\ (u \in DOMAIN r.began => r.began[u] <= r.cache[u])
    /\ \A one \in r.shown : one[1] \in DOMAIN r.cache /\ one[2] = r.cache[one[1]]

LoadsHeld == \A c \in Call : LoadHeld(calls[c])

\* Users only get newer.
LEMMA LoadLater ==
    ASSUME Typed, Next, NEW r, LoadHeld(r)
    PROVE  LoadHeld(r)'
<1>1. UsersGoOn
  BY UsersNext
<1>2. ASSUME NEW u \in DOMAIN r.began
      PROVE  u \in DOMAIN users' /\ r.began[u] \in Nat /\ r.began[u] <= users'[u].rev
  <2>1. PICK began, old, new \in Nat :
           /\ began = r.began[u] /\ old = users[u].rev /\ new = users'[u].rev
           /\ began <= old /\ old <= new
    BY <1>1 DEF LoadHeld, UsersGoOn
  <2>2. began <= new
    BY <2>1
  <2> QED  BY <1>1, <2>1, <2>2 DEF LoadHeld, UsersGoOn
<1> QED  BY <1>2 DEF LoadHeld

LEMMA LoadHandedOut ==
    ASSUME Typed, NEW r, NEW s, NEW keys, LoadHeld(r), HandsOut(r, s, keys)
    PROVE  LoadHeld(s)
<1>1. /\ s.began = r.began /\ DOMAIN s.cache = DOMAIN r.cache \cup keys
      /\ \A u \in DOMAIN r.cache : s.cache[u] = r.cache[u]
      /\ \A u \in keys \ DOMAIN r.cache : s.cache[u] = users[u].rev /\ u \in DOMAIN users
      /\ s.shown = r.shown \cup {<<u, s.cache[u]>> : u \in keys}
  BY DEF HandsOut, GoesOn
<1>2. \A u \in DOMAIN users : users[u].rev \in Nat
  BY DEF Typed, TypeOK, UserDoc
<1>3. \A u \in DOMAIN s.cache :
         s.cache[u] \in Nat /\ (u \in DOMAIN s.began => s.began[u] <= s.cache[u])
  BY <1>1, <1>2 DEF LoadHeld
<1>4. \A one \in s.shown : one[1] \in DOMAIN s.cache /\ one[2] = s.cache[one[1]]
  BY <1>1 DEF LoadHeld
<1> QED  BY <1>1, <1>3, <1>4 DEF LoadHeld

LEMMA LoadsNext ==
    ASSUME Typed, LoadsHeld, Next
    PROVE  LoadsHeld'
<1>1. /\ CallsShaped /\ TypeOK /\ \A r \in asked : ValidRequest(r)
      /\ \A c \in Call : Shaped(calls[c]) /\ RequestHeld(calls[c])
  BY DEF Typed, RequestsHeld, CallsShaped
<1>2. CASE calls' = calls
  <2>1. ASSUME NEW d \in Call PROVE LoadHeld(calls[d])'
    <3>1. PICK r : r = calls[d] /\ r = calls'[d]
      BY <1>2
    <3>2. LoadHeld(r)'
      BY <3>1, LoadLater DEF LoadsHeld
    <3> QED  BY <3>1, <3>2 DEF LoadHeld
  <2> QED  BY <2>1 DEF LoadsHeld
<1>3. ASSUME NEW c \in Call, (\E r \in asked : Arrive(c, r)) \/ Acts(c)
      PROVE  LoadsHeld'
  <2>1. PICK s : Becomes(c, s) /\ Shaped(s) /\ LoadHeld(s)
    <3>1. CASE \E r \in asked : Arrive(c, r)
      <4>1. PICK s : Becomes(c, s) /\ Arrived(s)
        BY <1>1, <3>1, ArriveFacts
      <4>2. \A u \in DOMAIN users : users[u].rev \in Nat /\ users[u].rev <= users[u].rev
        BY DEF Typed, TypeOK, UserDoc
      <4>3. LoadHeld(s)
        BY <4>1, <4>2 DEF Arrived, LoadHeld
      <4> QED  BY <4>1, <4>3 DEF Arrived
    <3>2. CASE Acts(c)
      <4>1. PICK s : /\ Becomes(c, s) /\ Moves(calls[c], s)
                     /\ SameLoads(calls[c], s) \/ \E keys : HandsOut(calls[c], s, keys)
        BY <1>1, <3>2, ActsMove
      <4>2. Shaped(s) /\ s.began = calls[c].began
        BY <1>1, <4>1, MovesFacts
      <4>3. CASE SameLoads(calls[c], s)
        BY <4>1, <4>2, <4>3 DEF LoadsHeld, LoadHeld, SameLoads
      <4>4. CASE \E keys : HandsOut(calls[c], s, keys)
        BY <4>1, <4>2, <4>4, LoadHandedOut DEF LoadsHeld
      <4> QED  BY <4>1, <4>3, <4>4
    <3> QED  BY <1>3, <3>1, <3>2
  <2>2. calls'[c] = s /\ \A d \in Call \ {c} : calls'[d] = calls[d]
    BY <1>1, <2>1, BecomesFacts
  <2>3. ASSUME NEW d \in Call PROVE LoadHeld(calls[d])'
    <3>1. PICK r : r = calls'[d] /\ LoadHeld(r)
      BY <2>1, <2>2 DEF LoadsHeld
    <3>2. LoadHeld(r)'
      BY <3>1, LoadLater
    <3> QED  BY <3>1, <3>2 DEF LoadHeld
  <2> QED  BY <2>3 DEF LoadsHeld
<1> QED  BY <1>1, <1>2, <1>3, NextFrames

\* One answer shows one version of a user, however often its fields load the user
\* and whoever updates the user between, and none from before the request
\* (get-or-create-dataloader.ts getOrCreateDataloader, user.service.ts).
THEOREM AnswersShowOneVersion == Spec => []LoaderShowsOneVersion
<1> DEFINE Inv == Typed /\ LoadsHeld
<1>1. Init => Inv
  <2> SUFFICES ASSUME Init PROVE LoadsHeld
    BY TypedInit
  <2>1. \A c \in Call : calls[c].began = <<>> /\ calls[c].cache = <<>> /\ calls[c].shown = {}
    BY DEF Init, NoCall
  <2> QED  BY <2>1 DEF LoadsHeld, LoadHeld
<1>2. Inv /\ [Next]_requestVars => Inv'
  <2> SUFFICES ASSUME Inv, [Next]_requestVars PROVE LoadsHeld'
    BY TypedNext
  <2>1. CASE UNCHANGED requestVars
    BY <2>1 DEF LoadsHeld, LoadHeld, requestVars, stores
  <2> QED  BY <2>1, LoadsNext
<1>3. Inv => LoaderShowsOneVersion
  <2> SUFFICES ASSUME LoadsHeld, NEW c \in Call, NEW one \in calls[c].shown
               PROVE  /\ \A other \in calls[c].shown : one[1] = other[1] => one[2] = other[2]
                      /\ one[1] \in DOMAIN calls[c].began => one[2] >= calls[c].began[one[1]]
    BY DEF LoaderShowsOneVersion
  <2>1. LoadHeld(calls[c])
    BY DEF LoadsHeld
  <2> QED  BY <2>1 DEF LoadHeld
<1> QED  BY <1>1, <1>2, <1>3, PTL DEF Spec

-----------------------------------------------------------------------------
(* Collections *)

\* A thumbnail is updated after its image was stored.
FetchedIsStored == \A j \in fetching : j.step = "update" => j.collection \in bucket

LEMMA SoundNext ==
    ASSUME Typed, CollectionsSound, FetchedIsStored, Next
    PROVE  CollectionsSound' /\ FetchedIsStored'
<1>1. /\ CallsShaped /\ DOMAIN tags \subseteq DOMAIN tags' /\ NftsStay
      /\ fetching \subseteq [collection: DOMAIN collections, step: {"fetch", "update"}]
  BY NamesNext, NftsNext DEF Typed, RequestsHeld, TypeOK
<1>2. \A n \in DOMAIN nfts' : nfts'[n].tagIds \subseteq DOMAIN tags'
  <2>1. CASE nfts' = nfts
    BY <1>1, <2>1 DEF CollectionsSound
  <2>2. CASE \E c \in Call : InsertNft(c)
    <3>1. PICK c \in Call, n \in Nft \ DOMAIN nfts :
             At(c, "insert", "createNft") /\ nfts' = Put(nfts, n, Stamped(calls[c]))
      BY <1>1, <2>2, InsertNftFacts
    <3>2. Stamped(calls[c]).tagIds \subseteq DOMAIN tags
      BY <3>1, NewNft
    <3>3. DOMAIN nfts' = DOMAIN nfts \cup {n} /\ nfts'[n] = Stamped(calls[c])
      BY <3>1 DEF Put
    <3> QED  BY <1>1, <3>2, <3>3 DEF CollectionsSound, NftsStay
  <2> QED  BY <1>1, <2>1, <2>2, NextFrames DEF Typed
<1>3. CASE UNCHANGED <<collections, fetching, bucket>>
  BY <1>1, <1>2, <1>3 DEF CollectionsSound, FetchedIsStored
<1>4. CASE \E c \in Call, k \in Collection : NewCollectionStep(c, k)
  <2>1. PICK c \in Call, k \in Collection : NewCollectionStep(c, k)
    BY <1>4
  <2>2. LET doc == Stamped(calls[c]) IN
        /\ doc.thumbnail = "link" /\ doc.tagIds \subseteq DOMAIN tags
        /\ doc.mintAddress = Field(calls[c]).doc.mintAddress
    BY <2>1, NewCollection DEF NewCollectionStep
  <2>3. \A l, m \in DOMAIN collections' :
           l # m => collections'[l].mintAddress # collections'[m].mintAddress
    BY <2>1, <2>2 DEF NewCollectionStep, CollectionsSound
  <2>4. \A l \in DOMAIN collections' : collections'[l].thumbnail = "stored" => l \in bucket'
    BY <2>1, <2>2 DEF NewCollectionStep, CollectionsSound
  <2>5. \A l \in DOMAIN collections' : collections'[l].tagIds \subseteq DOMAIN tags'
    BY <1>1, <2>1, <2>2 DEF NewCollectionStep, CollectionsSound
  <2>6. FetchedIsStored'
    BY <2>1 DEF NewCollectionStep, FetchedIsStored
  <2> QED  BY <1>2, <2>3, <2>4, <2>5, <2>6 DEF CollectionsSound
<1>5. CASE \E j \in fetching : UploadStep(j) \/ GiveUpStep(j)
  BY <1>1, <1>2, <1>5 DEF CollectionsSound, FetchedIsStored, UploadStep, GiveUpStep
<1>6. CASE \E j \in fetching : ThumbnailStep(j)
  <2>1. PICK j \in fetching : ThumbnailStep(j)
    BY <1>6
  <2>2. j.collection \in DOMAIN collections /\ j.collection \in bucket'
    BY <1>1, <2>1 DEF ThumbnailStep, FetchedIsStored
  <2>3. /\ DOMAIN collections' = DOMAIN collections
        /\ \A l \in DOMAIN collections : SameCollection(collections'[l], collections[l])
        /\ \A l \in DOMAIN collections' : collections'[l].thumbnail = "stored" => l \in bucket'
    BY <2>1, <2>2 DEF ThumbnailStep, SameCollection, CollectionsSound
  <2>4. FetchedIsStored'
    BY <2>1 DEF ThumbnailStep, FetchedIsStored
  <2> QED  BY <1>1, <1>2, <2>3, <2>4 DEF CollectionsSound, SameCollection
<1> QED  BY <1>3, <1>4, <1>5, <1>6, CollectionSteps

\* No two collections have one mint address, a thumbnail in the bucket is there,
\* and what was made has tags that exist, though they were checked one await before
\* (nft-collection.service.ts create, updateThumbnail; tag.service.ts validateIdsExist).
THEOREM CollectionsAreSound == Spec => []CollectionsSound
<1> DEFINE Inv == Typed /\ CollectionsSound /\ FetchedIsStored
<1>1. Init => Inv
  <2> SUFFICES ASSUME Init PROVE CollectionsSound /\ FetchedIsStored
    BY TypedInit
  <2>1. PICK case \in Case :
           nfts = case.nfts /\ collections = case.collections /\ tags = case.tags
    BY DEF Init
  <2>2. Consistent(case) /\ fetching = {}
    BY RequestCases DEF Init
  <2>3. CollectionsSound
    BY <2>1, <2>2 DEF Consistent, CollectionsSound
  <2> QED  BY <2>2, <2>3 DEF FetchedIsStored
<1>2. Inv /\ [Next]_requestVars => Inv'
  <2> SUFFICES ASSUME Inv, [Next]_requestVars PROVE CollectionsSound' /\ FetchedIsStored'
    BY TypedNext
  <2>1. CASE UNCHANGED requestVars
    BY <2>1 DEF CollectionsSound, FetchedIsStored, requestVars, stores, images
  <2> QED  BY <2>1, SoundNext
<1>3. Inv => CollectionsSound
  OBVIOUS
<1> QED  BY <1>1, <1>2, <1>3, PTL DEF Spec
=============================================================================
