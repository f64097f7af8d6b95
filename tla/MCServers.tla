------------------------------ MODULE MCServers ------------------------------
(***************************************************************************)
(* The books of the two servers.  The coordinator's: one order and the     *)
(* handlers that race on its row (OrderService), the listeners' catch-up   *)
(* across restarts (ChainCatchUp), a client walking the paged history      *)
(* (OrderHistory), quotes and the announcements that use them (QuoteBook). *)
(* The relayer's: the file of its submissions (SubmissionStore), its event *)
(* history, partial fills, the Fusion+ order book and its price services.  *)
(*                                                                         *)
(* They share no variable; `part' picks the one a behavior is about, so    *)
(* each is explored in full and their product is not.                      *)
(***************************************************************************)
EXTENDS OrderService, FiniteSets, TLC

CONSTANTS
    Explored,    \* the parts this run explores
    Swaps, MaxBlock, MaxBoots,
    Users, PublicIds, Fetches, PageSize, MaxSecond,
    Askers, Announcers, Hashlocks, QuoteAmounts, CacheTtl, FetchTimeout,
    MaxClock, MaxQuotes,
    StoreKeys, MaxRecords, MaxEnds, MaxCrashes, MaxStarts,
    MaxMemory, MaxHistory, MaxDay,
    FillOrders, Parts, Amounts, MaxFills,
    RpcClients, Hashes, EventKinds, Lifetime, Window, RateMax, HistorySize,
    MaxListeners, MaxTime,
    TokenPrices, SwapAmounts, Slippages, Validity, GasPrices, GasHistory,
    MaxSeconds, MaxIssued, MaxTimers

\* Bounds are numbers, pages and the file keep at least one entry, and the
\* placeholder "none" is neither a wallet nor a submission key.  The relayer's
\* limits are above zero (1000 events in memory, 100 requests per minute), its
\* token prices too; only parts that divide 100 make an order.
ASSUME ServersAssumption ==
    /\ {MaxBlock, MaxBoots, MaxSecond, MaxClock, MaxQuotes, CacheTtl, FetchTimeout,
        MaxEnds, MaxCrashes, MaxStarts} \subseteq Nat
    /\ PublicIds \subseteq Nat /\ PageSize \in Nat \ {0} /\ "none" \notin Users
    /\ QuoteAmounts \subseteq Nat
    /\ IsFiniteSet(StoreKeys) /\ "none" \notin StoreKeys /\ MaxRecords \in Nat \ {0}
    /\ {MaxHistory, MaxFills, Lifetime, Window, HistorySize, MaxListeners, MaxTime,
        Validity, GasHistory, MaxSeconds, MaxTimers} \subseteq Nat
    /\ MaxMemory \in Nat \ {0, 1} /\ MaxDay \in Nat \ {0} /\ RateMax \in Nat \ {0}
    /\ Parts \subseteq {p \in 1 .. 100 : 100 % p = 0} /\ Amounts \subseteq Nat \ {0}
    /\ TokenPrices \subseteq Nat \ {0} /\ SwapAmounts \cup Slippages \subseteq Nat

VARIABLES
    part,
    swap, processed, applied, cursor, ethLogs, ledger, run, poll, boots,
    origin, unseen, failed,
    second, table, account, list, nextCursor, stopped, loading, fetch, wanted,
    crossed,
    clock, store, ask, cache, quotes, gate, rows,
    records, file, saving, driver, tx, landed, ends, crashes, starts, newer, excused,
    memory, index, persisted, archives, day, born, replaying, stoppedAt,
    reordered, rewritten,
    book, fills, over,
    time, active, completed, secrets, listeners, history, limits, served,
    seconds, issued, kept, gasPrices, gasTimer, monTimer, running, timers, health

catchUp == <<swap, processed, applied, cursor, ethLogs, ledger, run, poll, boots,
             origin, unseen, failed>>
pages == <<second, table, account, list, nextCursor, stopped, loading, fetch,
           wanted, crossed>>
quoting == <<clock, store, ask, cache, quotes, gate, rows>>
coordinator == <<vars, catchUp, pages, quoting>>

saved == <<records, file, saving, driver, tx, landed, ends, crashes, starts, newer,
           excused>>
eventLog == <<memory, index, persisted, archives, day, born, replaying, stoppedAt,
              reordered, rewritten>>
partial == <<book, fills, over>>
rpc == <<time, active, completed, secrets, listeners, history, limits, served>>
pricing == <<seconds, issued, kept, gasPrices, gasTimer, monTimer, running, timers,
             health>>
relayer == <<saved, eventLog, partial, rpc, pricing>>

Catch == INSTANCE ChainCatchUp
Pages == INSTANCE OrderHistory
Book == INSTANCE QuoteBook
Store == INSTANCE SubmissionStore
Hist == INSTANCE EventHistory
Fills == INSTANCE PartialFills
Rpc == INSTANCE FusionRpc
Pricing == INSTANCE RelayerPricing

HandlerSymmetry == Permutations(Handlers)

MCInit ==
    /\ part \in Explored
    \* a part that is not explored stays in one of its initial states
    /\ part # "orders" => boundTo = "none" /\ gapOk = TRUE
    /\ part # "pages" => account = CHOOSE u \in Users : TRUE
    /\ part # "quoting" => store = "sqlite"
    /\ Init /\ Catch!CatchInit /\ Pages!PageInit /\ Book!QuoteInit
    /\ Store!StoreInit /\ Hist!HistInit /\ Fills!FillInit
    /\ Rpc!RpcInit /\ Pricing!PricingInit

MCNext ==
    /\ UNCHANGED part
    /\ \/ /\ UNCHANGED relayer
          /\ \/ part = "orders" /\ Next /\ UNCHANGED <<catchUp, pages, quoting>>
             \/ part = "catchUp" /\ Catch!CatchNext /\ UNCHANGED <<vars, pages, quoting>>
             \/ part = "pages" /\ Pages!PageNext /\ UNCHANGED <<vars, catchUp, quoting>>
             \/ part = "quoting" /\ Book!QuoteNext /\ UNCHANGED <<vars, catchUp, pages>>
       \/ /\ UNCHANGED coordinator
          /\ \/ part = "saved" /\ Store!StoreNext
                /\ UNCHANGED <<eventLog, partial, rpc, pricing>>
             \/ part = "events" /\ Hist!HistNext
                /\ UNCHANGED <<saved, partial, rpc, pricing>>
             \/ part = "partial" /\ Fills!FillNext
                /\ UNCHANGED <<saved, eventLog, rpc, pricing>>
             \/ part = "rpc" /\ Rpc!RpcNext
                /\ UNCHANGED <<saved, eventLog, partial, pricing>>
             \/ part = "pricing" /\ Pricing!PricingNext
                /\ UNCHANGED <<saved, eventLog, partial, rpc>>

MCSpec == MCInit /\ [][MCNext]_<<part, coordinator, relayer>>

-----------------------------------------------------------------------------
\* Rows, cursors, pages, quotes, files, histories and listings have their shapes.
ServersTypeOK ==
    /\ TypeOK /\ Catch!CatchTypeOK /\ Pages!PageTypeOK /\ Book!QuoteTypeOK
    /\ Store!StoreTypeOK /\ Hist!HistTypeOK /\ Fills!FillTypeOK
    /\ Rpc!RpcTypeOK /\ Pricing!PricingTypeOK

\* EthereumListener.handle and ChainEventProcessor: "A crash between any two
\* steps only causes redelivery".  Behind a saved cursor every refund is on its
\* row and every Soroban event was applied, unless the database itself failed.
NothingLostBehindCursor == Catch!NothingLostBehindCursor

\* ChainEventProcessor.apply: "a restart resumes where the previous run
\* stopped".  A claim caught up after a restart reaches its order.
ClaimsCaughtUp == Catch!ClaimsCaughtUp

\* mergeHistoryPage and the history cursor: a finished walk shows every order
\* its wallet had when the walk began, unless an overtaken answer came in.
WalkIsComplete == Pages!WalkIsComplete

\* QuoteService.assertFresh and OrderService.announce: a quote that still
\* passes carries a price no older than one cache lifetime and one fetch
\* timeout, and on SQLite two orders never share a hashlock.
AnnouncedOnFreshQuotes == Book!FreshQuotesAreRecent /\ Book!OneOrderPerHashlock

\* RelaySubmissionTracker over FileSubmissionStore: a key pays at most once
\* across failed saves, restarts and pruning, unless it was forgotten while
\* live, its save failed before a restart, or as many keys ended after it as
\* the file keeps.
PaidOnceWithinWindow == Store!PaidOnceWithinWindow

\* EventHistoryManager: an event ever added is in memory, in a file or in an
\* archive, unless a query reordered memory or an archive was written twice, and
\* whatever is in memory can be found through the index.
HistoryComplete == Hist!HistoryComplete /\ Hist!MemoryIndexed

\* The Fusion+ book, the splitter and the price services: the amounts of a
\* split add up, a completed order is never pending again, no stretch as long
\* as a window of the rate limit is served more than twice the limit, a quote
\* is served as issued for its whole term, and no timer outlives its service.
BookKeepsItsTerms ==
    /\ Fills!SplitIsSound
    /\ Rpc!CompletedNeverPending /\ Rpc!RateLimitHolds
    /\ Pricing!QuotesKeepTheirTerm /\ Pricing!NoLeakedTimer
=============================================================================
