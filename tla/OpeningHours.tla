---------------------------- MODULE OpeningHours ----------------------------
(***************************************************************************)
(* opening-hours.util: the week a shop stores, and whether it is open.  Time *)
(* is counted in hours.                                                     *)
(***************************************************************************)
EXTENDS Requests, Integers

CONSTANTS Weeks,           \* opening hours as they are sent, day by day
          Clock            \* hours since Sunday 00:00 UTC, of one week

VARIABLES week,            \* the opening hours of a shop, or Unset
          asked            \* the hour it was asked, and the answer

hoursVars == <<week, asked>>

Days == 0..6

Unset == <<>>                            \* operatingHours is null
Closed == [kind |-> "closed"]            \* null, or no such day
Unreadable == [kind |-> "unreadable"]    \* not HH:MM
Open(from, to) == [kind |-> "open", from |-> from, to |-> to]

(* parseTime reads the hours of a clock; a week has 168.                      *)
Schedule == {Closed, Unreadable} \cup {Open(from, to) : from, to \in 0..23}

ASSUME WeeksAssumption == Weeks \subseteq [Days -> Schedule]
ASSUME ClockAssumption == Clock \subseteq 0..167

NotAsked == [at |-> 0, of |-> "nothing", answer |-> "not asked"]

HoursInit == week = Unset /\ asked = NotAsked

(* normalizeOperatingHours: seven days, each closed or readable, or nothing  *)
(* is stored.  updateProfile of a cooperative, of its console and of a       *)
(* partner store a week that passed it.                                     *)
Normalized(days) == \A d \in DOMAIN days : days[d] # Unreadable

HoursStored(days) ==
    /\ week = Unset /\ asked = NotAsked
    /\ Normalized(days)
    /\ week' = days
    /\ UNCHANGED <<asked, job>>

(* updateLocation of a partner, by an administrator, stores the week as sent. *)
LocationStored(days) ==
    /\ week = Unset /\ asked = NotAsked
    /\ week' = days
    /\ UNCHANGED <<asked, job>>

(* isOpenNow: the clock of the server is UTC, that of the shops seven hours  *)
(* ahead.  A day that closes before it opens runs past midnight.            *)
WibOffset_Mutant == 0
WibOffset == 7

LocalHour(now) == (now + WibOffset) % 168

Serves(day, hour) ==
    IF day.to <= day.from THEN hour >= day.from \/ hour < day.to
                          ELSE day.from <= hour /\ hour < day.to

IsOpenNow(hours, now) ==
    LET today == hours[LocalHour(now) \div 24]
    IN  IF hours = Unset THEN "unknown"
        ELSE CASE today = Unreadable   -> "unknown"
               [] today = Closed       -> "no"
               [] today.kind = "open"  ->
                    IF Serves(today, LocalHour(now) % 24) THEN "yes" ELSE "no"

(* storeStatus of the staff dashboard, of an active cooperative: the day and  *)
(* the hour of the server's own clock, no hours at all where opening and     *)
(* closing are equal, and no answer on a day that is closed.                *)
StoreStatus(hours, now) ==
    LET today == hours[now \div 24]
        hour == now % 24
    IN  IF hours = Unset THEN "unknown"
        ELSE CASE today = Closed       -> "unknown"
               [] today = Unreadable   -> "no"
               [] today.kind = "open"  ->
                    IF today.from # today.to /\ Serves(today, hour) THEN "yes" ELSE "no"

AskWhetherOpen(now) ==
    /\ asked = NotAsked
    /\ asked' \in {[at |-> now, of |-> "card", answer |-> IsOpenNow(week, now)],
                   [at |-> now, of |-> "dashboard", answer |-> StoreStatus(week, now)]}
    /\ UNCHANGED <<week, job>>

HoursNext ==
    \/ \E days \in Weeks : HoursStored(days) \/ LocationStored(days)
    \/ \E now \in Clock : AskWhetherOpen(now)

(* The hours from opening to closing, each day's own, in the local week.     *)
PostedHours(days) ==
    UNION {{(24 * d + h) % 168 :
              h \in days[d].from .. (IF days[d].to <= days[d].from
                                     THEN days[d].to + 23 ELSE days[d].to - 1)} :
             d \in {e \in Days : days[e].kind = "open"}}

ShopHour(now) == (now + 7) % 168

PastMidnight(day) == day.kind = "open" /\ day.to <= day.from

(* A card of a shop reports it open in the hours it has posted, in the        *)
(* shops' own time, wherever the server runs.  Where a day runs past midnight *)
(* this needs the next day to have the same hours: the small hours are looked *)
(* up under the new day.                                                    *)
OpenAsPosted ==
    asked.of = "card" /\ asked.answer \in {"yes", "no"}
      /\ (\A d \in Days : PastMidnight(week[d]) \/ PastMidnight(week[(d + 1) % 7])
                            => week[d] = week[(d + 1) % 7])
      => (asked.answer = "yes" <=> ShopHour(asked.at) \in PostedHours(week))
=============================================================================
