--------------------------- MODULE RelayerPricing ---------------------------
(***************************************************************************)
(* The relayer's own quotes (quoter-service.ts), and the gas price tracker *)
(* (gas-tracker.ts) and the uptime monitor (monitoring.ts), the services   *)
(* that run on an interval timer.                                          *)
(*                                                                         *)
(* A rate is the quotient of two token prices.  What the tracker and the   *)
(* monitor measure is mocked in the code and any value here.               *)
(***************************************************************************)
EXTENDS Naturals, Sequences, FiniteSets

CONSTANTS
    TokenPrices,    \* prices of the quoted tokens
    SwapAmounts,    \* amounts quoted
    Slippages,      \* slippage in basis points
    Validity,       \* QUOTE_VALIDITY_DURATION
    GasPrices,      \* gas prices of an update
    GasHistory,     \* MAX_HISTORY_SIZE
    MaxSeconds,     \* bound on the clock
    MaxIssued,      \* bound on the quotes issued
    MaxTimers       \* bound on the timers set

VARIABLES
    seconds,    \* getCurrentTimestamp()
    issued,     \* quotes ever returned to a client
    kept,       \* this.quotes: the ids still stored
    gasPrices,  \* priceHistory
    gasTimer,   \* updateInterval of the tracker, NoTimer when null
    monTimer,   \* monitoringInterval, NoTimer when null
    running,    \* timers set and not cleared
    timers,     \* number of timers ever set
    health      \* status of the registered services at the last check

pricingVars == <<seconds, issued, kept, gasPrices, gasTimer, monTimer, running, timers, health>>
clockVars == <<gasPrices, gasTimer, monTimer, running, timers, health>>
quoterVars == <<seconds, issued, kept>>

NoTimer == 0

-----------------------------------------------------------------------------
(* getQuote.  The rate is applied and the slippage taken off, each with an *)
(* integer division; the fee is 0.1 % on one chain and 0.3 % across.       *)
validateQuoteRequest(amount, slippage) == amount > 0 /\ slippage \in 0..500

baseToAmount(amount, fromPrice, toPrice) == (amount * fromPrice) \div toPrice

minimumReceived(toAmount, slippage) == (toAmount * (10000 - slippage)) \div 10000

calculateFee(amount, crossChain) == (amount * (IF crossChain THEN 30 ELSE 10)) \div 10000

getQuote(amount, slippage, fromPrice, toPrice, crossChain) ==
    LET toAmount == baseToAmount(amount, fromPrice, toPrice)
        id == Cardinality(issued) + 1
    IN  /\ id <= MaxIssued
        /\ validateQuoteRequest(amount, slippage)
        /\ issued' = issued \cup {[id |-> id, amount |-> amount, toAmount |-> toAmount,
                                   minimum |-> minimumReceived(toAmount, slippage),
                                   fee |-> calculateFee(amount, crossChain),
                                   validUntil |-> seconds + Validity]}
        /\ kept' = kept \cup {id}
        /\ UNCHANGED <<seconds, clockVars>>

(* updateQuotePricing drops the quote it is asked for once the clock is    *)
(* past its validity; getActiveQuotes and cleanupExpiredQuotes drop every  *)
(* quote whose validity the clock has reached.                             *)
updateQuotePricing(q) ==
    /\ seconds > q.validUntil
    /\ kept' = kept \ {q.id}
    /\ UNCHANGED <<seconds, issued, clockVars>>

Expired(q) == q.validUntil <= seconds

cleanupExpiredQuotes ==
    /\ kept' = kept \ {q.id : q \in {r \in issued : Expired(r)}}
    /\ UNCHANGED <<seconds, issued, clockVars>>

PassSecond ==
    /\ seconds < MaxSeconds
    /\ seconds' = seconds + 1
    /\ UNCHANGED <<issued, kept, clockVars>>

-----------------------------------------------------------------------------
(* Gas tracker: starting it replaces its interval and updates at once.     *)
Recorded(price) ==
    LET longer == Append(gasPrices, price)
    IN  IF Len(longer) > GasHistory THEN Tail(longer) ELSE longer

StillRunning(timer) == running \ {timer}

startGasTracker(price) ==
    /\ timers < MaxTimers
    /\ timers' = timers + 1
    /\ gasTimer' = timers + 1
    /\ running' = StillRunning(gasTimer) \cup {timers + 1}
    /\ gasPrices' = Recorded(price)
    /\ UNCHANGED <<quoterVars, monTimer, health>>

stopGasTracker ==
    /\ gasTimer' = NoTimer
    /\ running' = StillRunning(gasTimer)
    /\ UNCHANGED <<quoterVars, gasPrices, monTimer, timers, health>>

updateGasPrices(price) ==
    /\ gasTimer \in running
    /\ gasPrices' = Recorded(price)
    /\ UNCHANGED <<quoterVars, gasTimer, monTimer, running, timers, health>>

(* Uptime monitor: starting it while it runs does nothing; its built-in    *)
(* check answers healthy or degraded.                                      *)
startMonitoring ==
    /\ monTimer = NoTimer
    /\ timers < MaxTimers
    /\ timers' = timers + 1
    /\ monTimer' = timers + 1
    /\ running' = running \cup {timers + 1}
    /\ UNCHANGED <<quoterVars, gasPrices, gasTimer, health>>

stopMonitoring ==
    /\ monTimer # NoTimer
    /\ monTimer' = NoTimer
    /\ running' = StillRunning(monTimer)
    /\ UNCHANGED <<quoterVars, gasPrices, gasTimer, timers, health>>

collectMetrics ==
    /\ monTimer \in running
    /\ health' \in {"healthy", "degraded"}
    /\ UNCHANGED <<quoterVars, gasPrices, gasTimer, monTimer, running, timers>>

PricingInit ==
    /\ seconds = 0
    /\ issued = {}
    /\ kept = {}
    /\ gasPrices = <<>>
    /\ gasTimer = NoTimer
    /\ monTimer = NoTimer
    /\ running = {}
    /\ timers = 0
    /\ health = "unknown"

PricingNext ==
    \/ \E amount \in SwapAmounts, slippage \in Slippages, fromPrice, toPrice \in TokenPrices,
          crossChain \in BOOLEAN : getQuote(amount, slippage, fromPrice, toPrice, crossChain)
    \/ \E q \in issued : updateQuotePricing(q)
    \/ cleanupExpiredQuotes
    \/ PassSecond
    \/ \E price \in GasPrices : startGasTracker(price) \/ updateGasPrices(price)
    \/ stopGasTracker
    \/ startMonitoring \/ stopMonitoring \/ collectMetrics

PricingSpec == PricingInit /\ [][PricingNext]_pricingVars

-----------------------------------------------------------------------------
(* Stored quotes were issued; histories and timers stay in their bounds.   *)
PricingTypeOK ==
    /\ seconds \in 0..MaxSeconds
    /\ kept \subseteq {q.id : q \in issued}
    /\ Len(gasPrices) <= GasHistory
    /\ running \subseteq 1..MaxTimers
    /\ health \in {"unknown", "healthy", "degraded"}

(* QUOTE_VALIDITY_DURATION: a quote handed to a client stays available for *)
(* its whole validity, whatever is listed, repriced or cleaned up in the   *)
(* meantime, and promises no more than its rate gives.                     *)
QuotesKeepTheirTerm ==
    \A q \in issued : /\ seconds < q.validUntil => q.id \in kept
                      /\ q.minimum <= q.toAmount

(* startMonitoring and stopMonitoring: however often the two services are  *)
(* started and stopped, only the timers they still hold are running.       *)
NoLeakedTimer == running = {gasTimer, monTimer} \ {NoTimer}

=============================================================================
