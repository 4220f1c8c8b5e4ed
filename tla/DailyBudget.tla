----------------------------- MODULE DailyBudget -----------------------------
(***************************************************************************)
(* The wall-clock daily request budget of AlgoOps (struct DailyBudget in   *)
(* algo_ops/src/ops.rs) as operators on its two mutable fields:            *)
(*                                                                         *)
(*    window   window_start_unix, the start of the window being counted    *)
(*    spent    requests committed against that window                      *)
(*                                                                         *)
(* Time is a natural number of clock units; DayLen units make a day        *)
(* (86_400 seconds in the code).                                           *)
(***************************************************************************)
EXTENDS Integers

CONSTANTS
    DayLen,         \* length of a daily window
    DayStartOffset, \* day_start_offset_secs as configured
    MaxPerDay       \* max_requests_per_day

ASSUME DayLenAssumption == DayLen \in Nat \ {0}
ASSUME OffsetAssumption == DayStartOffset \in Nat
ASSUME MaxPerDayAssumption == MaxPerDay \in Nat

\* DailyBudget::new reduces an out-of-range offset into one day.
Offset == DayStartOffset % DayLen

\* DailyBudget::window_start_for: floor division, clamped at the epoch.
WindowStartFor(now) ==
    LET start == ((now - Offset) \div DayLen) * DayLen + Offset
    IN  IF start < 0 THEN 0 ELSE start

\* DailyBudget::new
NewBudget(now, primed) == [window |-> WindowStartFor(now), spent |-> primed]

\* Mutants: the window moves on by one day however far now is from it; it also
\* starts afresh at its own first instant.
MutRollByDay(b, now) ==
    IF now < b.window \/ now >= b.window + DayLen
    THEN [window |-> b.window + DayLen, spent |-> 0]
    ELSE b

MutRoll(b, now) ==
    IF now <= b.window \/ now >= b.window + DayLen
    THEN NewBudget(now, 0)
    ELSE b

\* DailyBudget::roll: forward or back, whenever now is outside the window.
Roll(b, now) ==
    IF now < b.window \/ now >= b.window + DayLen
    THEN NewBudget(now, 0)
    ELSE b

\* Mutants: one request too many passes; the wait ends inside the window.
MutCheckPasses(b, now) == Roll(b, now).spent <= MaxPerDay
MutCheckWait(b, now) == Roll(b, now).window + DayLen - now - 1

\* DailyBudget::check: the verdict, and the wait handed back on a refusal.
CheckPasses(b, now) == Roll(b, now).spent < MaxPerDay
CheckWait(b, now) == Roll(b, now).window + DayLen - now

\* DailyBudget::record
Record(b, now) == [Roll(b, now) EXCEPT !.spent = @ + 1]
=============================================================================
