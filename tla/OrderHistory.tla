---------------------------- MODULE OrderHistory ----------------------------
(***************************************************************************)
(* Order history paging: the coordinator's announce, its GET history route *)
(* with the keyset query and the cursor codec, and the browser's           *)
(* TransactionHistory, which folds pages into one list.                    *)
(*                                                                         *)
(* A row's key is its creation second and its random public id.  Rows are  *)
(* announced while pages are read, answers arrive late and in any order,   *)
(* and the user may switch wallets while a page is on its way.             *)
(***************************************************************************)
EXTENDS Naturals, FiniteSets, FiniteSetsExt

CONSTANTS
    Users,      \* wallet addresses
    PublicIds,  \* public ids, ordered as numbers
    Fetches,    \* page requests in flight at one time
    PageSize,   \* limit of one page
    MaxSecond   \* bound on the clock

VARIABLES
    second,     \* external: the coordinator's clock
    table,      \* orders: set of [user, at, id]
    account,    \* the connected wallet
    list,       \* transactionsRef: the rows on screen
    nextCursor, \* the token for the next page, or NoCursor
    stopped,    \* historyError is shown, so "Load more" is hidden
    loading,    \* isLoading: both buttons are disabled
    fetch,      \* requests in flight
    wanted,     \* history: the rows that existed when this walk began
    crossed     \* history: an answer older than the latest request arrived

view == <<list, nextCursor, stopped, loading>>
pageVars == <<second, table, account, list, nextCursor, stopped,
              loading, fetch, wanted, crossed>>

Row == [user: Users, at: 0..MaxSecond, id: PublicIds]
NoCursor == [user |-> "none", at |-> 0, id |-> 0]
Cursor == [user: Users, at: 0..MaxSecond, id: PublicIds] \cup {NoCursor}
NoFetch == [at |-> "idle"]

(* A new request; whatever else is in flight is now older than it.         *)
Ask(f, user, c) ==
    [g \in Fetches |->
        IF g = f THEN [at |-> "sent", user |-> user, cursor |-> c, stale |-> FALSE]
        ELSE IF fetch[g] = NoFetch THEN NoFetch
        ELSE [fetch[g] EXCEPT !.stale = TRUE]]

-----------------------------------------------------------------------------
(* The keyset query: strictly older than the cursor's row, newest first,   *)
(* one row more than the page to learn whether there is another page.      *)
Newer(q, r) == q.at > r.at \/ (q.at = r.at /\ q.id > r.id)

Older_BySecond(r, c) == r.at < c.at
Older(r, c) == r.at < c.at \/ (r.at = c.at /\ r.id < c.id)

findByAddressPage(user, c, limit) ==
    LET rows == {r \in table : r.user = user /\ (c = NoCursor \/ Older(r, c))}
    IN  {r \in rows : Cardinality({q \in rows : Newer(q, r)}) < limit}

(* validateHistoryCursor, then the query, then the token for the last row. *)
Last(page) == CHOOSE r \in page : \A q \in page \ {r} : Newer(q, r)

historyRoute(user, c) ==
    IF c # NoCursor /\ c.user # user
    THEN [ok |-> FALSE, page |-> {}, next |-> NoCursor]
    ELSE LET rows == findByAddressPage(user, c, PageSize + 1)
             more == Cardinality(rows) > PageSize
             page == IF more THEN rows \ {Last(rows)} ELSE rows
         IN  [ok |-> TRUE, page |-> page,
              next |-> IF more THEN Last(page) ELSE NoCursor]

-----------------------------------------------------------------------------
(* announce inserts a row with the clock's second and a fresh public id.   *)
announce(user, id) ==
    /\ \A r \in table : r.id # id
    /\ table' = table \cup {[user |-> user, at |-> second, id |-> id]}
    /\ UNCHANGED <<second, account, view, fetch, wanted, crossed>>

-----------------------------------------------------------------------------
(* fetchHistoryPage(null, true): on mount, on a wallet switch and on the   *)
(* refresh button; a new walk starts.                                      *)
refreshFromCoordinator(f) ==
    /\ fetch[f] = NoFetch /\ ~loading
    /\ fetch' = Ask(f, account, NoCursor)
    /\ loading' = TRUE
    /\ wanted' = {r \in table : r.user = account}
    /\ crossed' = FALSE
    /\ UNCHANGED <<second, table, account, list, nextCursor, stopped>>

(* loadMoreFromCoordinator: only while a cursor is held and no error shown.*)
loadMoreFromCoordinator(f) ==
    /\ fetch[f] = NoFetch /\ ~loading
    /\ nextCursor # NoCursor /\ ~stopped
    /\ fetch' = Ask(f, account, nextCursor)
    /\ loading' = TRUE
    /\ UNCHANGED <<second, table, account, list, nextCursor, stopped, wanted,
                   crossed>>

serve(f) ==
    /\ fetch[f].at = "sent"
    /\ fetch' = [fetch EXCEPT ![f] =
                    [at |-> "answered", stale |-> @.stale,
                     answer |-> historyRoute(@.user, @.cursor)]]
    /\ UNCHANGED <<second, table, account, view, wanted, crossed>>

(* mergeHistoryPage: a page is added, never swapped in; a refused cursor   *)
(* leaves the list and stops the walk.                                     *)
mergeHistoryPage(shown, page) == shown \cup page

receivePage(f) ==
    LET got == fetch[f] IN
    /\ got.at = "answered"
    /\ fetch' = [fetch EXCEPT ![f] = NoFetch]
    /\ crossed' = (crossed \/ got.stale)
    /\ loading' = FALSE
    /\ IF got.answer.ok
       THEN /\ list' = mergeHistoryPage(list, got.answer.page)
            /\ nextCursor' = got.answer.next
            /\ stopped' = FALSE
       ELSE /\ stopped' = TRUE
            /\ UNCHANGED <<list, nextCursor>>
    /\ UNCHANGED <<second, table, account, wanted>>

(* The request fails on the way: only a first page falls back to storage,  *)
(* which already holds every merged page.                                  *)
lostPage(f) ==
    /\ fetch[f].at = "sent"
    /\ fetch' = [fetch EXCEPT ![f] = NoFetch]
    /\ stopped' = TRUE
    /\ loading' = FALSE
    /\ UNCHANGED <<second, table, account, list, nextCursor, wanted, crossed>>

(* The wallet changes: the effect fetches the first page for it at once.   *)
switchAccount(user, f) ==
    /\ user # account
    /\ fetch[f] = NoFetch
    /\ account' = user
    /\ wanted' = {r \in table : r.user = user}
    /\ fetch' = Ask(f, user, NoCursor)
    /\ loading' = TRUE
    /\ crossed' = FALSE
    /\ UNCHANGED <<second, table, list, nextCursor, stopped>>

Tick ==
    /\ second < MaxSecond
    /\ second' = second + 1
    /\ UNCHANGED <<table, account, view, fetch, wanted, crossed>>

PageInit ==
    /\ second = 0
    /\ table = {}
    /\ account \in Users
    /\ list = {} /\ nextCursor = NoCursor /\ stopped = FALSE
    /\ loading = FALSE
    /\ fetch = [f \in Fetches |-> NoFetch]
    /\ wanted = {} /\ crossed = FALSE

PageNext ==
    \/ \E user \in Users, id \in PublicIds : announce(user, id)
    \/ \E f \in Fetches :
          \/ refreshFromCoordinator(f)
          \/ loadMoreFromCoordinator(f)
          \/ serve(f)
          \/ receivePage(f)
          \/ lostPage(f)
          \/ \E user \in Users : switchAccount(user, f)
    \/ Tick

PageSpec == PageInit /\ [][PageNext]_pageVars

-----------------------------------------------------------------------------
(* The rows, the cursor and the requests have their shapes.                *)
PageTypeOK ==
    /\ table \subseteq Row /\ list \subseteq Row /\ wanted \subseteq Row
    /\ nextCursor \in Cursor
    /\ \A f \in Fetches : fetch[f].at \in {"idle", "sent", "answered"}
    /\ stopped \in BOOLEAN /\ loading \in BOOLEAN

(* "an off-by-one hides a fill" (cursor-utils.ts): a walk that reached its *)
(* last page, with nothing in flight and no error on screen, shows every   *)
(* order its wallet had when the walk began, whatever was announced        *)
(* meanwhile and whichever requests failed, unless an answer that a later  *)
(* request had overtaken was folded in.                                    *)
WalkIsComplete ==
    /\ nextCursor = NoCursor /\ ~stopped /\ ~crossed
    /\ \A f \in Fetches : fetch[f] = NoFetch
    => wanted \subseteq list

=============================================================================
