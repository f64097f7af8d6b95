----------------------------- MODULE QuoteBook -----------------------------
(***************************************************************************)
(* Coordinator quotes and the announcement of orders: quoteEthXlm with its *)
(* shared price cache and the awaited price fetch, the quote routes, and   *)
(* OrderService.announce, which passes a quote gate, awaits a lookup by    *)
(* hashlock and inserts.                                                   *)
(*                                                                         *)
(* A price is identified with the instant at which the price API sampled   *)
(* it, so its age is the difference to the clock.                          *)
(***************************************************************************)
EXTENDS Naturals, FiniteSets

CONSTANTS
    Askers,         \* concurrent quote requests
    Announcers,     \* concurrent announce requests
    Hashlocks,      \* hashlocks orders are announced with
    QuoteAmounts,   \* source amounts in base units
    CacheTtl,       \* cacheTtlMs
    FetchTimeout,   \* AbortSignal.timeout(8000)
    MaxClock,       \* bound on the clock
    MaxQuotes       \* bound on the quotes issued

VARIABLES
    clock,      \* now()
    store,      \* "sqlite" runs its statements at once, "postgres" awaits them
    ask,        \* quote requests
    cache,      \* priceCache["ETH-XLM"]
    quotes,     \* issued quotes, as a set of records with their id
    gate,       \* announce requests between the gate and the insert
    rows        \* inserted orders: [hashlock, by], one element per insert

quoteVars == <<clock, store, ask, cache, quotes, gate, rows>>

NoPrice == MaxClock + 1     \* a null price
NoAmount == 0               \* the quote is not bound to an amount
NoQuote == 0                \* announced without a quote
NoCache == [price |-> NoPrice, expiresAt |-> 0]
Prices == 0..NoPrice
Idle == [at |-> "idle"]

-----------------------------------------------------------------------------
(* Quote requests.  A live cache entry is reissued with the entry's own    *)
(* expiry; otherwise the request awaits the price API.                     *)
issueQuote(price, expiresAt, amount) ==
    quotes' = quotes \cup {[id |-> Cardinality(quotes) + 1, price |-> price,
                            expiresAt |-> expiresAt, amount |-> amount]}

ReissueExpiry_Renewed(c) == clock + CacheTtl
ReissueExpiry(c) == c.expiresAt

quoteEthXlm(a, amount) ==
    /\ ask[a] = Idle
    /\ Cardinality(quotes) < MaxQuotes
    /\ IF cache # NoCache /\ clock < cache.expiresAt
       THEN /\ issueQuote(cache.price, ReissueExpiry(cache), amount)
            /\ UNCHANGED ask
       ELSE /\ ask' = [ask EXCEPT ![a] = [at |-> "fetching", since |-> clock,
                                          amount |-> amount, price |-> NoPrice]]
            /\ UNCHANGED quotes
    /\ UNCHANGED <<clock, store, cache, gate, rows>>

(* GET /quotes/eth-xlm, with or without an amount to bind the quote to; an *)
(* amount that does not parse is answered 400 and changes nothing.         *)
quotesRoute(a) == \E amount \in QuoteAmounts \cup {NoAmount} : quoteEthXlm(a, amount)

(* External: the price API samples a price some time before it answers.    *)
SamplePrice(a) ==
    /\ ask[a].at = "fetching"
    /\ ask' = [ask EXCEPT ![a] = [at |-> "sampled", since |-> @.since,
                                  amount |-> @.amount, price |-> clock]]
    /\ UNCHANGED <<clock, store, cache, quotes, gate, rows>>

(* The fetch returns, or fails or times out with null prices; either way   *)
(* the result is cached and a quote issued for it.                         *)
FetchReturns(a) ==
    /\ ask[a].at \in {"fetching", "sampled"}
    /\ Cardinality(quotes) < MaxQuotes
    /\ \E price \in {ask[a].price, NoPrice} :
          /\ cache' = [price |-> price, expiresAt |-> clock + CacheTtl]
          /\ issueQuote(price, clock + CacheTtl, ask[a].amount)
    /\ ask' = [ask EXCEPT ![a] = Idle]
    /\ UNCHANGED <<clock, store, gate, rows>>

-----------------------------------------------------------------------------
(* GET /quotes/:id/status answers from this predicate alone.               *)
Fresh(q) == clock <= q.expiresAt

(* bindOrderTerms and assertFresh: the quote is known, unexpired and, when *)
(* it was issued for an amount, for this one.                              *)
GatePasses(quoteId, amount) ==
    \/ quoteId = NoQuote
    \/ \E q \in quotes :
          /\ q.id = quoteId
          /\ Fresh(q)
          /\ q.amount \in {NoAmount, amount}

findByHashlock(hashlock) == {r \in rows : r.hashlock = hashlock}

(* announce: after the gate the lookup and the insert run at once on       *)
(* SQLite, and with an await in between on Postgres.  No unique constraint *)
(* on the hashlock backs the lookup.                                       *)
announce(b, hashlock, quoteId, amount) ==
    /\ gate[b] = Idle
    /\ GatePasses(quoteId, amount)
    /\ findByHashlock(hashlock) = {}
    /\ IF store = "sqlite"
       THEN /\ rows' = rows \cup {[hashlock |-> hashlock, by |-> b]}
            /\ UNCHANGED gate
       ELSE /\ gate' = [gate EXCEPT ![b] = [at |-> "looked_up", hashlock |-> hashlock]]
            /\ UNCHANGED rows
    /\ UNCHANGED <<clock, store, ask, cache, quotes>>

insertOrder(b) ==
    /\ gate[b].at = "looked_up"
    /\ rows' = rows \cup {[hashlock |-> gate[b].hashlock, by |-> b]}
    /\ gate' = [gate EXCEPT ![b] = Idle]
    /\ UNCHANGED <<clock, store, ask, cache, quotes>>

(* A process restart forgets quotes and cache, never the rows.             *)
RestartCoordinator ==
    /\ ask' = [a \in Askers |-> Idle]
    /\ gate' = [b \in Announcers |-> Idle]
    /\ cache' = NoCache
    /\ quotes' = {}
    /\ UNCHANGED <<clock, store, rows>>

(* Time passes; a fetch never outlives its abort signal.                   *)
PassTime ==
    /\ clock < MaxClock
    /\ \A a \in Askers : ask[a] # Idle => clock < ask[a].since + FetchTimeout
    /\ clock' = clock + 1
    /\ UNCHANGED <<store, ask, cache, quotes, gate, rows>>

QuoteInit ==
    /\ clock = 0
    /\ store \in {"sqlite", "postgres"}
    /\ ask = [a \in Askers |-> Idle]
    /\ cache = NoCache
    /\ quotes = {}
    /\ gate = [b \in Announcers |-> Idle]
    /\ rows = {}

QuoteNext ==
    \/ \E a \in Askers :
          \/ quotesRoute(a)
          \/ SamplePrice(a)
          \/ FetchReturns(a)
    \/ \E b \in Announcers :
          \/ \E hashlock \in Hashlocks, quoteId \in 0..MaxQuotes, amount \in QuoteAmounts :
                announce(b, hashlock, quoteId, amount)
          \/ insertOrder(b)
    \/ RestartCoordinator
    \/ PassTime

QuoteSpec == QuoteInit /\ [][QuoteNext]_quoteVars

-----------------------------------------------------------------------------
(* The cache, the quotes and the rows have their shapes.                   *)
QuoteTypeOK ==
    /\ clock \in 0..MaxClock
    /\ cache.price \in Prices
    /\ \A q \in quotes : q.price \in Prices /\ q.amount \in QuoteAmounts \cup {NoAmount}
    /\ \A r \in rows : r.hashlock \in Hashlocks /\ r.by \in Announcers

(* "rejects fills that reference stale quotes" (quote-service.ts): however *)
(* requests, slow fetches and reissues from the cache interleave, a quote  *)
(* that still passes assertFresh carries a price the API sampled no longer *)
(* ago than one cache lifetime and one fetch timeout.                      *)
FreshQuotesAreRecent ==
    \A q \in quotes : Fresh(q) /\ q.price # NoPrice =>
        clock - q.price <= CacheTtl + FetchTimeout

(* "An order with hashlock ... already exists" (order-service.ts): on      *)
(* SQLite, whose lookup and insert run without giving way, two orders      *)
(* never share a hashlock, across concurrent announcements and restarts.   *)
OneOrderPerHashlock ==
    store = "sqlite" =>
        \A r, s \in rows : r.hashlock = s.hashlock => r = s

=============================================================================
