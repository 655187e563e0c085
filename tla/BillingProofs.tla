---------------------------- MODULE BillingProofs ----------------------------
(***************************************************************************)
(* A session is billed by its tariff, for a day of any number of hours of  *)
(* any length and for any price.json.  The bill is a sum over the hours,   *)
(* made anew at every callback: what module Induction says of such sums    *)
(* gives how it differs from the one before.                               *)
(***************************************************************************)
EXTENDS Billing, Induction

-----------------------------------------------------------------------------
(* The bill as a sum of a function, and the price of an hour. *)

\* get_price(hour) where a period covers the hour.
ListedPrice(hour) == priceList[Min(PeriodsAt(hour * HourLength))].price

\* What each hour is billed at these prices.
Amounts(booked) == [h \in HourSet |-> booked[h] * ListedPrice(h)]

Periods == [start : Int, end : Int, price : Int]

\* The hours of a day are finitely many.
LEMMA HoursFinite == IsFiniteSet(HourSet) /\ 0 \in HourSet
<1>1. Hours - 1 \in Int /\ 0 <= Hours - 1
  BY BillingAssumption
<1> QED BY <1>1, FS_Interval DEF HourSet

\* The price of a covered hour is that of a period.
LEMMA ListedPriceType ==
    ASSUME priceList \in Seq(Periods), NEW minutes, PeriodsAt(minutes) # {}
    PROVE  /\ Min(PeriodsAt(minutes)) \in DOMAIN priceList
           /\ priceList[Min(PeriodsAt(minutes))].price \in Int
<1>1. PeriodsAt(minutes) \in SUBSET Nat /\ PeriodsAt(minutes) \subseteq DOMAIN priceList
  BY DEF PeriodsAt
<1>2. \E x \in PeriodsAt(minutes) : \A y \in PeriodsAt(minutes) : x <= y
  BY <1>1, LeastElement
<1>3. Min(PeriodsAt(minutes)) \in PeriodsAt(minutes)
  BY <1>2 DEF Min
<1>4. \A i \in DOMAIN priceList : priceList[i] \in Periods
  OBVIOUS
<1> QED BY <1>1, <1>3, <1>4 DEF Periods

\* Where every hour is covered, what the call without a return statement leaves
\* behind is in no bill.
LEMMA BillIsSum ==
    ASSUME Covered, priceList \in Seq(Periods),
           NEW booked \in [HourSet -> Nat], NEW junk
    PROVE  /\ Bill(booked, junk) = SumOver(Amounts(booked), HourSet)
           /\ Amounts(booked) \in [HourSet -> Int]
<1>1. \A h \in HourSet : HourPrice(h, junk) = ListedPrice(h) /\ ListedPrice(h) \in Int
  BY ListedPriceType DEF Covered, HourPrice, ListedPrice
<1>2. Amounts(booked) \in [HourSet -> Int]
  BY <1>1 DEF Amounts
<1> DEFINE Sum(sum) == [s \in SUBSET HourSet |->
               IF s = {} THEN 0
               ELSE booked[Chosen(s)] * HourPrice(Chosen(s), junk) + sum[s \ {Chosen(s)}]]
           ByAmount(sum) == [s \in SUBSET HourSet |->
               IF s = {} THEN 0
               ELSE Amounts(booked)[Chosen(s)] + sum[s \ {Chosen(s)}]]
<1>3. ASSUME NEW sum PROVE Sum(sum) = ByAmount(sum)
  <2>1. \A s \in SUBSET HourSet : s # {} => Chosen(s) \in HourSet
    BY DEF Chosen
  <2>2. \A h \in HourSet : booked[h] * HourPrice(h, junk) = Amounts(booked)[h]
    BY <1>1 DEF Amounts
  <2> QED BY <2>1, <2>2
<1>4. Bill(booked, junk) = (CHOOSE sum : sum = Sum(sum))[HourSet]
  BY DEF Bill, MapThenSumSet, MapThenFoldSet, Chosen
<1>5. SumOver(Amounts(booked), HourSet) = (CHOOSE sum : sum = ByAmount(sum))[HourSet]
  BY DEF SumOver, MapThenSumSet, MapThenFoldSet, Chosen
<1>6. (CHOOSE sum : sum = Sum(sum)) = (CHOOSE sum : sum = ByAmount(sum))
  <2> HIDE DEF Sum, ByAmount
  <2> QED BY <1>3
<1> QED BY <1>2, <1>4, <1>5, <1>6

\* One unit booked in an hour adds its price to the bill.
LEMMA BillOfOneMore ==
    ASSUME Covered, priceList \in Seq(Periods), NEW booked \in [HourSet -> Nat],
           NEW hour \in HourSet
    PROVE  /\ SumOver(Amounts(booked), HourSet) \in Int
           /\ ListedPrice(hour) \in Int
           /\ SumOver(Amounts([booked EXCEPT ![hour] = @ + 1]), HourSet)
              = SumOver(Amounts(booked), HourSet) + ListedPrice(hour)
<1> DEFINE new == [booked EXCEPT ![hour] = @ + 1]
<1>1. new \in [HourSet -> Nat]
  OBVIOUS
<1>2. /\ Amounts(booked) \in [HourSet -> Int]
      /\ Amounts(new) \in [HourSet -> Int]
  <2> HIDE DEF new
  <2> QED BY <1>1, BillIsSum
<1>3. ListedPrice(hour) \in Int
  BY ListedPriceType DEF Covered, ListedPrice
<1>4. \A h \in HourSet \ {hour} : Amounts(new)[h] = Amounts(booked)[h]
  BY DEF Amounts
<1>5. Amounts(new)[hour] - Amounts(booked)[hour] = ListedPrice(hour)
  <2>1. Amounts(new)[hour] = (booked[hour] + 1) * ListedPrice(hour)
    BY DEF Amounts
  <2>2. Amounts(booked)[hour] = booked[hour] * ListedPrice(hour)
    BY DEF Amounts
  <2>3. ASSUME NEW n \in Int, NEW p \in Int PROVE (n + 1) * p - n * p = p
    OBVIOUS
  <2>4. booked[hour] \in Int
    OBVIOUS
  <2> QED BY <2>1, <2>2, <2>3, <2>4, <1>3
<1>6. SumOver(Amounts(new), HourSet)
      = SumOver(Amounts(booked), HourSet) + (Amounts(new)[hour] - Amounts(booked)[hour])
  <2> HIDE DEF new
  <2> QED BY <1>2, <1>4, HoursFinite, SumUpdate
<1>7. SumOver(Amounts(booked), HourSet) \in Int
  BY <1>2, HoursFinite, SumType
<1> QED BY <1>3, <1>5, <1>6, <1>7

\* Nothing booked is billed nothing.
LEMMA EmptyBill ==
    ASSUME Covered, priceList \in Seq(Periods)
    PROVE  SumOver(Amounts([h \in HourSet |-> 0]), HourSet) = 0
<1> DEFINE none == [h \in HourSet |-> 0]
<1>1. \A h \in HourSet : Amounts(none)[h] = 0
  <2>1. \A h \in HourSet : ListedPrice(h) \in Int
    BY ListedPriceType DEF Covered, ListedPrice
  <2> QED BY <2>1 DEF Amounts
<1>2. Amounts(none) \in [HourSet -> Int]
  BY <1>1 DEF Amounts
<1> QED
  <2> HIDE DEF none
  <2>1. SumOver(Amounts(none), HourSet) = 0
    BY <1>1, <1>2, HoursFinite, SumOfZeros
  <2> QED BY <2>1 DEF none

-----------------------------------------------------------------------------
(* The price of this minute and the price of this hour. *)

LEMMA Division ==
    ASSUME NEW a \in Nat, NEW b \in Nat \ {0}
    PROVE  /\ a \div b \in Nat /\ a % b \in 0 .. b - 1
           /\ a = ((a \div b) * b) + (a % b)
OBVIOUS

LEMMA Remainder ==
    ASSUME NEW q \in Int, NEW b \in Nat \ {0}, NEW r \in 0 .. b - 1
    PROVE  ((q * b) + r) % b = r
OBVIOUS

\* The minute of the day is some minutes into the hour of the day.
LEMMA MinuteOfDay ==
    ASSUME NEW t \in Nat
    PROVE  \E r \in 0 .. HourLength - 1 :
              /\ (t \div HourLength) % Hours \in HourSet
              /\ t % (Hours * HourLength) = (((t \div HourLength) % Hours) * HourLength) + r
<1> DEFINE L == HourLength
           q == t \div L
           r == t % L
           day == q \div Hours
           h == q % Hours
<1>1. L \in Nat \ {0} /\ Hours \in Nat \ {0} /\ Hours * L \in Nat \ {0}
  BY BillingAssumption
<1>2. q \in Nat /\ r \in 0 .. L - 1 /\ t = (q * L) + r
  BY <1>1, Division
<1>3. day \in Nat /\ h \in 0 .. Hours - 1 /\ q = (day * Hours) + h
  BY <1>1, <1>2, Division
<1> HIDE DEF L, q, r, day, h
<1>4. q * L = (day * (Hours * L)) + (h * L)
  <2>1. ((day * Hours) + h) * L = ((day * Hours) * L) + (h * L)
    BY <1>1, <1>3, Product
  <2>2. (day * Hours) * L = day * (Hours * L)
    BY <1>1, <1>3, Product
  <2> QED BY <1>3, <2>1, <2>2
<1>5. (h * L) + r \in 0 .. (Hours * L) - 1
  <2>1. (h + 1) * L <= Hours * L
    BY <1>1, <1>3, Product
  <2>2. (h + 1) * L = (h * L) + L
    BY <1>1, <1>3, Product
  <2>3. h * L \in Nat
    BY <1>1, <1>3
  <2> QED BY <1>1, <1>2, <2>1, <2>2, <2>3
<1>6. t = (day * (Hours * L)) + ((h * L) + r)
  <2>1. h * L \in Int /\ day * (Hours * L) \in Int /\ r \in Int
    BY <1>1, <1>2, <1>3
  <2> QED BY <1>2, <1>4, <2>1
<1>7. t % (Hours * L) = (h * L) + r
  <2> DEFINE M == Hours * L
             m == (h * L) + r
  <2>1. M \in Nat \ {0} /\ m \in 0 .. M - 1 /\ t = (day * M) + m
    BY <1>1, <1>5, <1>6
  <2> HIDE DEF M, m
  <2>2. t % M = m
    BY <2>1, <1>3, Remainder
  <2> QED BY <2>2 DEF M, m
<1> QED BY <1>2, <1>3, <1>7 DEF L, q, r, day, h, HourSet

\* A time of whole hours is reached in the course of an hour only if it is
\* reached at its beginning.
LEMMA WholeHours ==
    ASSUME NEW s \in Int, s % HourLength = 0, NEW h \in Int, NEW r \in 0 .. HourLength - 1
    PROVE  s <= (h * HourLength) + r <=> s <= h * HourLength
<1> DEFINE L == HourLength
           a == s \div L
<1>1. L \in Nat \ {0}
  BY BillingAssumption
<1>2. a \in Int /\ s = a * L
  BY <1>1
<1> HIDE DEF L, a
<1>3. h * L \in Int /\ (h + 1) * L = (h * L) + L
  BY <1>1, Product
<1>4. CASE a <= h
  <2>1. a * L <= h * L
    BY <1>1, <1>2, <1>4, Product
  <2> QED BY <1>1, <1>2, <1>3, <2>1 DEF L
<1>5. CASE h + 1 <= a
  <2>1. (h + 1) * L <= a * L
    BY <1>1, <1>2, <1>5, Product
  <2> QED BY <1>1, <1>2, <1>3, <2>1 DEF L
<1> QED BY <1>2, <1>4, <1>5

\* On a machine that keeps UTC, the tariff of whole hours asks at any minute the
\* price of the hour the energy is booked in.
LEMMA PriceOfTheHour ==
    ASSUME priceList \in Seq(Periods), now \in Nat, zone = 0, Covered, HourWise
    PROVE  BookedHour \in HourSet /\ PriceNow = ListedPrice(BookedHour)
<1> DEFINE h == BookedHour
<1>1. PICK r \in 0 .. HourLength - 1 :
          /\ h \in HourSet
          /\ now % (Hours * HourLength) = (h * HourLength) + r
  BY MinuteOfDay DEF BookedHour
<1> HIDE DEF h
<1>2. now + zone * HourLength = now
  BY BillingAssumption
<1>3. h \in Int /\ h * HourLength \in Int /\ r \in Nat /\ (h * HourLength) + r \in Int
  BY <1>1, BillingAssumption DEF HourSet
<1>4. ASSUME NEW i \in DOMAIN priceList
      PROVE  Contains(priceList[i], (h * HourLength) + r)
             <=> Contains(priceList[i], h * HourLength)
  <2>1. /\ priceList[i].start \in Int /\ priceList[i].start % HourLength = 0
        /\ priceList[i].end \in Int /\ priceList[i].end % HourLength = 0
    <3>1. priceList[i] \in Periods
      OBVIOUS
    <3>2. priceList[i].start % HourLength = 0 /\ priceList[i].end % HourLength = 0
      BY DEF HourWise
    <3> QED BY <3>1, <3>2 DEF Periods
  <2>2. /\ priceList[i].start <= (h * HourLength) + r <=> priceList[i].start <= h * HourLength
        /\ priceList[i].end <= (h * HourLength) + r <=> priceList[i].end <= h * HourLength
    BY <1>3, <2>1, WholeHours
  <2> QED BY <1>3, <2>1, <2>2 DEF Contains
<1>5. PeriodsAt((h * HourLength) + r) = PeriodsAt(h * HourLength)
  BY <1>4 DEF PeriodsAt
<1>6. PeriodsAt(h * HourLength) # {}
  BY <1>1 DEF Covered
<1>7. PriceNow = ListedPrice(h)
  BY <1>1, <1>2, <1>5, <1>6 DEF PriceNow, ListedPrice
<1> QED BY <1>1, <1>7 DEF h

-----------------------------------------------------------------------------
(* The inductive invariant. *)

BillingTypeOK ==
    /\ priceList \in Seq(Periods) /\ otherPrice \in Int
    /\ zone \in Zones /\ now \in Nat /\ charging \in BOOLEAN
    /\ startType \in {"none", "remote", "commercial"}
    /\ stats \in [HourSet -> Nat] /\ ticks \in Nat

\* A commercial session is billed the sum of its hours, whatever the calls for
\* the price of an hour return; no other is billed anything.
BilledBySum ==
    IF startType = "commercial"
    THEN Covered => total = SumOver(Amounts(stats), HourSet)
    ELSE total = 0

\* The energy of a session, and what its hours add up to, is one unit for every
\* callback.
EnergyBooked == allEnergy = ticks /\ SumOver(stats, HourSet) = ticks

BillingInv == BillingTypeOK /\ BilledBySum /\ EnergyBooked /\ BilledByTariff

\* The tariff is only loaded once.
LEMMA TariffUnchanged ==
    ASSUME UNCHANGED tariff
    PROVE  /\ Covered' <=> Covered
           /\ HourWise' <=> HourWise
           /\ \A booked : Amounts(booked)' = Amounts(booked)
BY DEF tariff, Covered, HourWise, Amounts, ListedPrice, PeriodsAt

\* What load makes of a price.json.
LEMMA LoadedType ==
    ASSUME NEW f \in Files
    PROVE  Loaded(f) \in Seq(Periods) /\ f.other_price \in Int
<1> DEFINE Items == [start : Time, end : Time, price : Int, service_fee : Int]
           list == f.price_list
<1>1. list \in Seq(Items) /\ f.other_price \in Int
  BY FilesAssumption
<1>2. ASSUME NEW i \in DOMAIN list PROVE Loaded(f)[i] \in Periods
  <2>1. list[i] \in Items
    <3> HIDE DEF list, Items
    <3> QED BY <1>1
  <2>2. \A time \in Time : Minutes(time) \in Int
    BY BillingAssumption DEF Minutes, Time
  <2>3. /\ Minutes(list[i].start) \in Int /\ Minutes(list[i].end) \in Int
        /\ list[i].price + list[i].service_fee \in Int
    BY <2>1, <2>2
  <2> QED BY <2>3 DEF Loaded, Periods
<1>3. Loaded(f) = [i \in 1 .. Len(list) |-> Loaded(f)[i]] /\ Len(list) \in Nat
  BY <1>1 DEF Loaded
<1>4. DOMAIN list = 1 .. Len(list)
  BY <1>1
<1> HIDE DEF list
<1>5. [i \in 1 .. Len(list) |-> Loaded(f)[i]] \in Seq(Periods)
  BY <1>2, <1>3, <1>4
<1> QED BY <1>1, <1>3, <1>5

\* A record that is cleared.
LEMMA ClearedSum == SumOver([h \in HourSet |-> 0], HourSet) = 0
<1> DEFINE none == [h \in HourSet |-> 0]
<1>1. none \in [HourSet -> Int] /\ \A h \in HourSet : none[h] = 0
  OBVIOUS
<1> HIDE DEF none
<1>2. SumOver(none, HourSet) = 0
  BY <1>1, HoursFinite, SumOfZeros
<1> QED BY <1>2 DEF none

LEMMA BillingInit_Inv == BillingInit => BillingInv
<1> SUFFICES ASSUME BillingInit PROVE BillingInv
  OBVIOUS
<1>1. priceList \in Seq(Periods) /\ otherPrice \in Int
  <2>1. CASE \E f \in Files : priceList = Loaded(f) /\ otherPrice = f.other_price
    BY <2>1, LoadedType
  <2>2. CASE priceList = <<>> /\ otherPrice = 0
    BY <2>2
  <2> QED BY <2>1, <2>2 DEF BillingInit
<1>2. BillingTypeOK
  BY <1>1 DEF BillingTypeOK, BillingInit
<1>3. EnergyBooked
  BY ClearedSum DEF EnergyBooked, BillingInit
<1>4. BilledBySum /\ BilledByTariff
  BY DEF BilledBySum, BilledByTariff, BillingInit
<1> QED BY <1>2, <1>3, <1>4 DEF BillingInv

\* The record after a start command.
LEMMA StartSession_Inv ==
    ASSUME BillingInv, NEW type \in {"remote", "commercial"}, StartSession(type)
    PROVE  BillingInv'
<1> USE DEF StartSession, Clear
<1>1. UNCHANGED tariff /\ UNCHANGED <<priceList, otherPrice, zone, now>>
  BY DEF tariff
<1>2. stats' \in [HourSet -> Nat]
  OBVIOUS
<1>3. BillingTypeOK'
  BY <1>1, <1>2 DEF BillingTypeOK, BillingInv
<1>4. EnergyBooked'
  BY ClearedSum DEF EnergyBooked
<1>5. BilledBySum'
  <2>1. Covered => SumOver(Amounts(stats'), HourSet) = 0
    BY EmptyBill DEF BillingTypeOK, BillingInv
  <2>2. Covered' => SumOver(Amounts(stats)', HourSet) = 0
    BY <1>1, <2>1, TariffUnchanged DEF Amounts
  <2> QED BY <2>2 DEF BilledBySum
<1>6. BilledByTariff'
  BY DEF BilledByTariff
<1> QED BY <1>3, <1>4, <1>5, <1>6 DEF BillingInv

\* The record after a callback: one unit more in the hour of the UTC day.
LEMMA ChargeCallback_Inv ==
    ASSUME BillingInv, ChargeCallback
    PROVE  /\ BillingInv'
           /\ Covered /\ startType = "commercial" =>
                 total \in Int /\ ListedPrice(BookedHour) \in Int
                 /\ BookedHour \in HourSet /\ total' = total + ListedPrice(BookedHour)
<1>1. UNCHANGED tariff /\ UNCHANGED <<priceList, otherPrice, zone, now, charging, startType>>
  BY DEF ChargeCallback, tariff
<1>2. priceList \in Seq(Periods) /\ now \in Nat /\ stats \in [HourSet -> Nat] /\ ticks \in Nat
  BY DEF BillingInv, BillingTypeOK
<1>3. BookedHour \in HourSet
  BY <1>2, MinuteOfDay DEF BookedHour
<1>4. stats' = [stats EXCEPT ![BookedHour] = @ + 1] /\ stats' \in [HourSet -> Nat]
  BY <1>2, <1>3 DEF ChargeCallback
<1>5. BillingTypeOK'
  BY <1>1, <1>4 DEF BillingInv, BillingTypeOK, ChargeCallback
<1>6. EnergyBooked'
  <2>1. stats \in [HourSet -> Int] /\ stats' \in [HourSet -> Int]
    BY <1>2, <1>4
  <2>2. \A h \in HourSet \ {BookedHour} : stats'[h] = stats[h]
    BY <1>2, <1>4
  <2>3. stats'[BookedHour] - stats[BookedHour] = 1
    BY <1>2, <1>3, <1>4
  <2>4. SumOver(stats', HourSet) = SumOver(stats, HourSet) + 1
    BY <1>3, <2>1, <2>2, <2>3, HoursFinite, SumUpdate
  <2>5. allEnergy' = SumOver(stats', HourSet)
    BY DEF ChargeCallback, SumOver
  <2> QED BY <2>4, <2>5 DEF EnergyBooked, BillingInv, ChargeCallback
<1>7. ASSUME Covered, startType = "commercial"
      PROVE  /\ total = SumOver(Amounts(stats), HourSet)
             /\ total' = SumOver(Amounts(stats'), HourSet)
             /\ total \in Int /\ ListedPrice(BookedHour) \in Int
             /\ total' = total + ListedPrice(BookedHour)
  <2>1. PICK junk : total' = Bill(stats', junk)
    BY <1>7 DEF ChargeCallback
  <2>2. total' = SumOver(Amounts(stats'), HourSet)
    BY <1>2, <1>4, <1>7, <2>1, BillIsSum
  <2>3. total = SumOver(Amounts(stats), HourSet)
    BY <1>7 DEF BillingInv, BilledBySum
  <2> QED BY <1>2, <1>3, <1>4, <1>7, <2>2, <2>3, BillOfOneMore
<1>8. BilledBySum'
  <2>1. CASE startType = "commercial"
    <3>1. Covered' => total' = SumOver(Amounts(stats)', HourSet)
      BY <1>1, <1>7, <2>1, TariffUnchanged DEF Amounts, ListedPrice, PeriodsAt
    <3> QED BY <1>1, <2>1, <3>1 DEF BilledBySum
  <2>2. CASE startType # "commercial"
    BY <1>1, <2>2 DEF BilledBySum, ChargeCallback
  <2> QED BY <2>1, <2>2
<1>9. BilledByTariff'
  <2> SUFFICES ASSUME Covered, HourWise, zone = 0, startType = "commercial"
               PROVE  total' = owed'
    BY <1>1, TariffUnchanged DEF BilledByTariff
  <2>1. PriceNow = ListedPrice(BookedHour)
    BY <1>2, PriceOfTheHour
  <2>2. total = owed
    BY DEF BillingInv, BilledByTariff
  <2>3. owed' = owed + PriceNow
    BY DEF ChargeCallback
  <2> QED BY <1>7, <2>1, <2>2, <2>3
<1> QED BY <1>3, <1>5, <1>6, <1>7, <1>8, <1>9 DEF BillingInv

\* Nothing of the record changes when a session stops or time passes.
LEMMA SameRecord_Inv ==
    ASSUME BillingInv, UNCHANGED <<tariff, record, ticks, owed>>,
           now' \in Nat, charging' \in BOOLEAN
    PROVE  BillingInv'
<1> USE DEF BillingInv
<1>1. BillingTypeOK' /\ EnergyBooked'
  BY DEF BillingTypeOK, EnergyBooked, tariff, record
<1>2. BilledBySum'
  BY TariffUnchanged DEF BilledBySum, record, Amounts, ListedPrice, PeriodsAt, tariff
<1>3. BilledByTariff'
  BY TariffUnchanged DEF BilledByTariff, record, tariff
<1> QED BY <1>1, <1>2, <1>3

LEMMA BillingNext_Inv == BillingInv /\ [BillingNext]_billVars => BillingInv'
<1> SUFFICES ASSUME BillingInv, [BillingNext]_billVars PROVE BillingInv'
  OBVIOUS
<1>1. now \in Nat /\ charging \in BOOLEAN
  BY DEF BillingInv, BillingTypeOK
<1>2. CASE \E type \in {"remote", "commercial"} : StartSession(type)
  BY <1>2, StartSession_Inv
<1>3. CASE StopSession
  BY <1>1, <1>3, SameRecord_Inv DEF StopSession
<1>4. CASE ChargeCallback
  BY <1>4, ChargeCallback_Inv
<1>5. CASE Passes
  BY <1>1, <1>5, SameRecord_Inv DEF Passes
<1>6. CASE UNCHANGED billVars
  BY <1>1, <1>6, SameRecord_Inv DEF billVars
<1> QED BY <1>2, <1>3, <1>4, <1>5, <1>6 DEF BillingNext

\* The invariant holds of every reachable state.
THEOREM BillingInvariant == BillingSpec => []BillingInv
BY BillingInit_Inv, BillingNext_Inv, PTL DEF BillingSpec

\* Over a tariff of whole hours that leaves none out, on a machine that keeps UTC,
\* a commercial session is billed what the tariff asks at each of its callbacks,
\* however many hours and days it lasts.
THEOREM SessionsBilledByTariff == BillingSpec => []BilledByTariff
<1>1. BillingInv => BilledByTariff
  BY DEF BillingInv
<1> QED BY <1>1, BillingInvariant, PTL

\* The energy shown for a session is one unit for every callback of it, over
\* midnight too.
THEOREM SessionsBookEnergy == BillingSpec => []EnergyBooked
<1>1. BillingInv => EnergyBooked
  BY DEF BillingInv
<1> QED BY <1>1, BillingInvariant, PTL

\* The bill of a session that lasts does not fall, in any zone, whatever the
\* minutes its periods begin at.
THEOREM BillsGrow == BillingSpec => BillGrows
<1>1. BillingInv /\ [BillingNext]_billVars
      => [charging /\ charging' /\ Covered /\ NoRefund => total' >= total]_billVars
  <2> SUFFICES ASSUME BillingInv, BillingNext, charging, charging', Covered, NoRefund
               PROVE  total' >= total
    OBVIOUS
  <2>1. priceList \in Seq(Periods)
    BY DEF BillingInv, BillingTypeOK
  <2>2. total \in Int
    BY HoursFinite, <2>1, BillOfOneMore DEF BillingInv, BilledBySum, BillingTypeOK
  <2>3. CASE ChargeCallback
    <3>1. CASE startType = "commercial"
      <4>1. /\ total' = total + ListedPrice(BookedHour) /\ BookedHour \in HourSet
            /\ ListedPrice(BookedHour) \in Int
        BY <2>3, <3>1, ChargeCallback_Inv
      <4>2. Min(PeriodsAt(BookedHour * HourLength)) \in DOMAIN priceList
        BY <2>1, <4>1, ListedPriceType DEF Covered
      <4>3. ListedPrice(BookedHour) >= 0
        BY <4>2 DEF ListedPrice, NoRefund
      <4> QED BY <2>2, <4>1, <4>3
    <3>2. CASE startType # "commercial"
      BY <2>3, <3>2 DEF ChargeCallback, BillingInv, BilledBySum
    <3> QED BY <3>1, <3>2
  <2>4. CASE \E type \in {"remote", "commercial"} : StartSession(type)
    BY <2>4 DEF StartSession
  <2>5. CASE StopSession
    BY <2>5 DEF StopSession
  <2>6. CASE Passes
    BY <2>2, <2>6 DEF Passes, record
  <2> QED BY <2>3, <2>4, <2>5, <2>6 DEF BillingNext
<1> QED BY <1>1, BillingInvariant, PTL DEF BillingSpec, BillGrows
=============================================================================
