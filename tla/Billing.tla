-------------------------------- MODULE Billing --------------------------------
(***************************************************************************)
(* price_table.cpp and the accounting of charging_station.cpp: what a      *)
(* charging session has used, by hour of the day, and what it is billed.   *)
(*                                                                         *)
(* A period of the tariff lies between two times of the local day.  Energy *)
(* is booked by the hour of the UTC day, one unit per charge callback, and *)
(* a commercial session is billed anew at every callback: what each hour   *)
(* has used times get_price of that hour.  Prices are whole numbers; the   *)
(* callback and the commands exclude each other by charge_info_mutex.      *)
(***************************************************************************)
EXTENDS Integers, Sequences, FiniteSetsExt

CONSTANTS
    Hours,          \* hours of a day, 24
    HourLength,     \* minutes of an hour, 60
    Files,          \* price.json as it may be found: [price_list, other_price]
    Zones,          \* local time is ahead of UTC by so many hours
    Junk,           \* what a call can leave behind where a price is expected
    MaxTicks,       \* bound: callbacks of a session
    MaxTime         \* bound: minutes that pass

ASSUME BillingAssumption ==
    /\ Hours \in Nat \ {0} /\ HourLength \in Nat \ {0}
    /\ Zones \subseteq 0 .. Hours - 1 /\ Junk \subseteq Int /\ Junk # {}
    /\ MaxTicks \in Nat /\ MaxTime \in Nat

Time == [h : Int, m : Int]

\* Nothing more is asked of a price.json: periods may overlap, be empty, be in
\* any order, and a price may be negative.
ASSUME FilesAssumption ==
    \A f \in Files :
        /\ f.price_list \in Seq([start : Time, end : Time, price : Int, service_fee : Int])
        /\ f.other_price \in Int

VARIABLES
    priceList, otherPrice,      \* price_list_, other_price_ + other_service_fee_
    zone,                       \* the time zone of the machine
    now,                        \* minutes of UTC since some midnight
    charging,                   \* the charge timer runs
    startType,                  \* charge_info.start_type
    stats,                      \* charge_info.period_stats
    allEnergy, total,           \* charge_info.all_energy, charge_info.total
    ticks,                      \* history: callbacks of this session
    owed                        \* history: what the tariff asks for them

tariff == <<priceList, otherPrice, zone>>
record == <<startType, stats, allEnergy, total>>
billVars == <<tariff, now, charging, record, ticks, owed>>

HourSet == 0 .. Hours - 1

-----------------------------------------------------------------------------
(* price_table.cpp *)

\* time_str_to_minutes of "h:m"
Minutes(time) == time.h * HourLength + time.m

\* PriceTable::load
Loaded(file) ==
    [i \in DOMAIN file.price_list |->
        LET item == file.price_list[i] IN
        [start |-> Minutes(item.start), end |-> Minutes(item.end),
         price |-> item.price + item.service_fee]]

\* Mutant: the end belongs to the period.
ContainsEnd(period, minutes) == period.start <= minutes /\ minutes <= period.end

Contains(period, minutes) == period.start <= minutes /\ minutes < period.end

PeriodsAt(minutes) == {i \in DOMAIN priceList : Contains(priceList[i], minutes)}

\* get_price(hour): no period, no return statement.
HourPrice(hour, junk) ==
    LET found == PeriodsAt(hour * HourLength) IN
    IF found = {} THEN junk[hour] ELSE priceList[Min(found)].price

\* get_price(unix_time), which reads the local clock.
PriceNow ==
    LET found == PeriodsAt((now + zone * HourLength) % (Hours * HourLength)) IN
    IF found = {} THEN otherPrice ELSE priceList[Min(found)].price

-----------------------------------------------------------------------------
(* The record of the session. *)

BillingInit ==
    /\ \/ \E f \in Files : priceList = Loaded(f) /\ otherPrice = f.other_price
       \/ priceList = <<>> /\ otherPrice = 0        \* the file cannot be opened
    /\ zone \in Zones /\ now = 0 /\ charging = FALSE
    /\ startType = "none" /\ stats = [h \in HourSet |-> 0]
    /\ allEnergy = 0 /\ total = 0 /\ ticks = 0 /\ owed = 0

\* ChargeInfo::clear
Clear ==
    /\ stats' = [h \in HourSet |-> 0] /\ allEnergy' = 0 /\ total' = 0

\* The hour of ChargeInfo::add_period_stats(unix_time, energy)
BookedHour == (now \div HourLength) % Hours

\* Mutant: all of the energy at the price of this hour.
BillAtThisHour(booked, junk) ==
    MapThenSumSet(LAMBDA h : booked[h], HourSet) * HourPrice(BookedHour, junk)

\* The loop of charge_timer_callback over the hours.
Bill(booked, junk) ==
    MapThenSumSet(LAMBDA h : booked[h] * HourPrice(h, junk), HourSet)

\* A start command that is admitted.
StartSession(type) ==
    /\ ~charging /\ charging' = TRUE
    /\ Clear /\ startType' = type
    /\ ticks' = 0 /\ owed' = 0
    /\ UNCHANGED <<tariff, now>>

\* The STOP command leaves the record as it is.
StopSession ==
    /\ charging' = FALSE
    /\ UNCHANGED <<tariff, now, record, ticks, owed>>

\* charge_timer_callback
ChargeCallback ==
    /\ charging /\ ticks < MaxTicks
    /\ stats' = [stats EXCEPT ![BookedHour] = @ + 1]
    /\ \E junk \in [HourSet -> Junk] :
         total' = IF startType = "commercial" THEN Bill(stats', junk) ELSE 0
    /\ allEnergy' = MapThenSumSet(LAMBDA h : stats'[h], HourSet)
    /\ ticks' = ticks + 1 /\ owed' = owed + PriceNow
    /\ UNCHANGED <<tariff, now, charging, startType>>

Passes ==
    /\ now < MaxTime /\ now' = now + 1
    /\ UNCHANGED <<tariff, charging, record, ticks, owed>>

BillingNext ==
    \/ \E type \in {"remote", "commercial"} : StartSession(type)
    \/ StopSession \/ ChargeCallback \/ Passes

BillingSpec == BillingInit /\ [][BillingNext]_billVars

-----------------------------------------------------------------------------
(* Safety. *)

\* Every hour has a period, and none begins or ends in the middle of one.
Covered == \A h \in HourSet : PeriodsAt(h * HourLength) # {}
HourWise == \A i \in DOMAIN priceList :
                priceList[i].start % HourLength = 0 /\ priceList[i].end % HourLength = 0
NoRefund == \A i \in DOMAIN priceList : priceList[i].price >= 0

\* Over a tariff of whole hours that leaves none out, on a machine that keeps UTC,
\* a commercial session is billed what get_price(unix_time) asks at each callback,
\* though the bill is only ever made from sums by the hour.  Each of the three
\* conditions is needed.
BilledByTariff ==
    Covered /\ HourWise /\ zone = 0 /\ startType = "commercial" => total = owed

\* While a session lasts its bill does not fall, in any zone and with periods
\* that begin at any minute, unless an hour is left out or costs less than nothing.
BillGrows ==
    [][charging /\ charging' /\ Covered /\ NoRefund => total' >= total]_billVars
=============================================================================
