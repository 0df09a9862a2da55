----------------------------- MODULE ExchangeRates -----------------------------
(***************************************************************************)
(* The rate a subscription is charged at: the row of exchange_rates while  *)
(* it is fresh, else a fetched rate that is stored, else what there is.  A *)
(* rate is modelled by the hour it was quoted at.  Prices are shown with   *)
(* another rate, cached by the process and taken from the payment provider.*)
(***************************************************************************)
EXTENDS Integers

CONSTANTS
  RateCharges,   \* checkouts and renewals
  MaxHour,       \* bound: hours
  RateTtl        \* CACHE_TTL_HOURS, and EXCHANGE_RATE_SYNC_INTERVAL_HOURS

ASSUME RateTtlIsPositive == RateTtl \in Nat \ {0} /\ MaxHour \in Nat

VARIABLES
  hour,
  rateRow,       \* the row: when its rate was quoted, when it was written, by whom
  rateCharge,    \* each charge: the row it loaded, the rate it uses, whether the fetch failed
  shownRate      \* the rate in the cache of the process

ratesVars == <<hour, rateRow, rateCharge, shownRate>>

Fallback == -1
NoRate == [quoted |-> Fallback, updated |-> Fallback, provider |-> "fallback"]
IdleCharge == [pc |-> "idle", loaded |-> NoRate, quoted |-> Fallback, at |-> 0, failed |-> FALSE]

RatesTypeOK ==
  /\ hour \in 0..MaxHour
  /\ rateRow \in [quoted : Fallback..MaxHour, updated : Fallback..MaxHour, provider : {"fallback", "api", "manual"}]
  /\ rateCharge \in [RateCharges -> [pc : {"idle", "fetch", "store", "done"}, loaded : [quoted : Fallback..MaxHour,
       updated : Fallback..MaxHour, provider : {"fallback", "api", "manual"}],
       quoted : Fallback..MaxHour, at : 0..MaxHour, failed : BOOLEAN]]
  /\ shownRate \in [quoted : Fallback..MaxHour, synced : Fallback..MaxHour]

RatesInit ==
  /\ hour = 0 /\ rateRow = NoRate /\ shownRate = [quoted |-> Fallback, synced |-> Fallback]
  /\ rateCharge = [c \in RateCharges |-> IdleCharge]

-----------------------------------------------------------------------------
\* Mutant of FreshRate: a rate that is exactly as old as the limit.
FreshRateInclusive(row) == row # NoRate /\ row.updated >= hour - RateTtl

\* "if updated < 24h ago"
FreshRate(row) == row # NoRate /\ row.updated > hour - RateTtl

ChargeAt(c, quoted, failed) ==
  [rateCharge EXCEPT ![c].pc = "done", ![c].quoted = quoted, ![c].at = hour, ![c].failed = failed]

\* get_ngn_rate: the row, when it is fresh.
LoadRate(c) ==
  /\ rateCharge[c].pc = "idle"
  /\ rateCharge' = IF FreshRate(rateRow) THEN ChargeAt(c, rateRow.quoted, FALSE)
                   ELSE [rateCharge EXCEPT ![c].pc = "fetch", ![c].loaded = rateRow]
  /\ UNCHANGED <<hour, rateRow, shownRate>>

\* The rate is fetched; without a key, or when that fails, the stale row is used or
\* the configured fallback.
FetchRate(c) ==
  /\ rateCharge[c].pc = "fetch"
  /\ \/ rateCharge' = [rateCharge EXCEPT ![c].pc = "store", ![c].quoted = hour]
     \/ rateCharge' = ChargeAt(c, rateCharge[c].loaded.quoted, TRUE)
  /\ UNCHANGED <<hour, rateRow, shownRate>>

\* _update_db_cache: the rate and its time, not the provider.  A failure is rolled
\* back and the fetched rate used all the same.
StoreRate(c) ==
  LET quoted == rateCharge[c].quoted
  IN /\ rateCharge[c].pc = "store"
     /\ \/ rateRow' = [quoted |-> quoted, updated |-> hour,
                       provider |-> IF rateRow = NoRate THEN "api" ELSE rateRow.provider]
        \/ UNCHANGED rateRow
     /\ rateCharge' = ChargeAt(c, quoted, FALSE)
     /\ UNCHANGED <<hour, shownRate>>

NextCharge(c) ==
  /\ rateCharge[c].pc = "done" /\ rateCharge' = [rateCharge EXCEPT ![c] = IdleCharge]
  /\ UNCHANGED <<hour, rateRow, shownRate>>

\* POST /billing/admin/rates
SetRate ==
  /\ rateRow' = [quoted |-> hour, updated |-> hour, provider |-> "manual"]
  /\ UNCHANGED <<hour, rateCharge, shownRate>>

\* get_exchange_rate of the currency service: the cache, the provider's rate or the
\* hard-coded one, which is then cached like a rate.
ShowRate ==
  /\ shownRate.synced = Fallback \/ hour - shownRate.synced >= RateTtl
  /\ \E quoted \in {hour, Fallback} : shownRate' = [quoted |-> quoted, synced |-> hour]
  /\ UNCHANGED <<hour, rateRow, rateCharge>>

\* A fetched rate is stored before a second hour strikes: the request has a timeout.
NextHour ==
  /\ hour < MaxHour /\ \A c \in RateCharges : rateCharge[c].pc = "store" => rateCharge[c].quoted = hour
  /\ hour' = hour + 1
  /\ UNCHANGED <<rateRow, rateCharge, shownRate>>

RatesNext ==
  \/ \E c \in RateCharges : LoadRate(c) \/ FetchRate(c) \/ StoreRate(c) \/ NextCharge(c)
  \/ SetRate \/ ShowRate \/ NextHour

RatesSpec == RatesInit /\ [][RatesNext]_ratesVars

-----------------------------------------------------------------------------
\* Unless the fetch of the charge itself failed, nobody is charged at a rate quoted
\* longer ago than the limit, although the row is dated by when it was written and not
\* by when its rate was quoted (currency.py:45-55, 91-104).
ChargedAtRecentRate ==
  \A c \in RateCharges :
    rateCharge[c].pc = "done" /\ ~rateCharge[c].failed => rateCharge[c].quoted >= rateCharge[c].at - RateTtl

=============================================================================
