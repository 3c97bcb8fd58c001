------------------------------ MODULE Community ------------------------------
(***************************************************************************)
(* What the social operations promise, whatever happens between their      *)
(* awaits: the members' bonds are one set, a request that was asked makes  *)
(* or breaks its one bond in one step or never, and nothing else touches   *)
(* the set - except that a torn migration may forget what members saved.   *)
(* Social implements it.                                                   *)
(***************************************************************************)
CONSTANTS
    Member,   \* who makes bonds
    Item,     \* what can be saved
    Purse,    \* what can be linked
    Asker,    \* one id per request
    NoWish    \* a request that is not open

VARIABLES
    bonds,    \* <<relation, member, what it is bound to>>
    open,     \* the wish each request still has to fulfil
    kept,     \* the requests answered as done
    torn      \* whether a migration was torn

communityVars == <<bonds, open, kept, torn>>

Bond == ({"follows"} \X Member \X Member)
          \cup ({"saves"} \X Member \X Item)
          \cup ({"links"} \X Member \X Purse)

\* A purse once linked stays linked: no operation breaks that bond.
Wish == [make: {TRUE}, bond: Bond]
          \cup [make: {FALSE}, bond: {b \in Bond : b[1] # "links"}]

CommunityInit ==
    /\ bonds \subseteq ({"saves"} \X Member \X Item)
    /\ open = [a \in Asker |-> NoWish]
    /\ kept = {} /\ torn = FALSE

Ask(a, w) ==
    /\ open[a] = NoWish /\ a \notin kept
    /\ open' = [open EXCEPT ![a] = w]
    /\ UNCHANGED <<bonds, kept, torn>>

Fulfil(a) ==
    /\ open[a] # NoWish
    /\ bonds' = IF open[a].make THEN bonds \cup {open[a].bond} ELSE bonds \ {open[a].bond}
    /\ open' = [open EXCEPT ![a] = NoWish]
    /\ kept' = kept \cup {a}
    /\ UNCHANGED torn

\* Some requests fail together, for instance when the process exits.
Abandon ==
    /\ \E A \in SUBSET Asker :
          open' = [a \in Asker |-> IF a \in A THEN NoWish ELSE open[a]]
    /\ torn' \in {torn, TRUE}
    /\ UNCHANGED <<bonds, kept>>

Forget(m) ==
    /\ torn
    /\ bonds' = bonds \ ({"saves"} \X {m} \X Item)
    /\ UNCHANGED <<open, kept, torn>>

CommunityNext ==
    \/ \E a \in Asker : Fulfil(a) \/ \E w \in Wish : Ask(a, w)
    \/ Abandon
    \/ \E m \in Member : Forget(m)

CommunitySpec == CommunityInit /\ [][CommunityNext]_communityVars
=============================================================================
