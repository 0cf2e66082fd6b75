----------------------------- MODULE KernelTimer -----------------------------
(***************************************************************************)
(* The timers of the port layer, call by call: the enabling and disabling  *)
(* of porttimer_m.c and porttimer.c, the list of hard timers of            *)
(* RT-Thread's timer.c, and the check of that list at each tick.           *)
(* MasterRTU and SlaveRTU take each of these calls as one step; here they  *)
(* are taken apart where interrupts are not masked.                        *)
(*                                                                         *)
(* Threads may be preempted between any two steps, by each other and by    *)
(* interrupts; the interrupt of the serial line runs to its end at once,   *)
(* and may start timers too.  The list has one level                       *)
(* (RT_TIMER_SKIP_LIST_LEVEL), and all timers are one-shot timers.         *)
(***************************************************************************)
EXTENDS Integers, SequencesExt

CONSTANTS Timers, Threads,
          IsrTimers,   \* timers that the serial interrupt starts
          Modes,       \* of eMBMasterTimerMode
          ModesOf,     \* ModesOf[t]: the slave's timer has one mode only
          Period,      \* Period[m]: ticks of the mode m
          TickMod,     \* ticks count modulo this, 2^32
          MaxPreempt,  \* bound: ticks from computing a time to inserting it
          MaxOverlap   \* bound: no call begins after more overlaps than this

(* RT_TICK_MAX / 2 *)
Half == (TickMod - 1) \div 2

ASSUME TimerAssumption ==
  /\ TickMod \in Nat \ {0, 1, 2}
  /\ MaxPreempt \in Nat /\ MaxOverlap \in Nat
  /\ IsrTimers \subseteq Timers
  /\ Period \in [Modes -> Nat \ {0}]
  /\ ModesOf \in [Timers -> SUBSET Modes]
  /\ \A m \in Modes : Period[m] + MaxPreempt < Half

VARIABLES
  tick,       \* rt_tick
  checking,   \* the tick was increased, the list is not checked yet
  list,       \* rt_timer_list
  due,        \* timeout_tick
  period,     \* init_tick
  mode,       \* eMasterCurTimerMode
  activated,  \* RT_TIMER_FLAG_ACTIVATED
  call,       \* of each thread: its next step, its timer, timer_tick
  damaged,    \* a timer was linked that is linked already: no more is known
  overlap     \* history: timers that were worked on twice at a time

vars == <<tick, checking, list, due, period, mode, activated, call,
          damaged, overlap>>

Steps == {"set_time", "remove", "compute", "insert", "unlink", "clear"}

(* A thread that is in no call of a timer. *)
Out == [step |-> "out"]

Calls == [step : Steps, timer : Timers, ticks : Nat] \cup {Out}

TypeOK ==
  /\ tick \in 0 .. TickMod - 1
  /\ checking \in BOOLEAN
  /\ list \in Seq(Timers)
  /\ due \in [Timers -> 0 .. TickMod - 1]
  /\ period \in [Timers -> Nat]
  /\ mode \in [Timers -> Modes]
  /\ activated \in [Timers -> BOOLEAN]
  /\ call \in [Threads -> Calls]
  /\ damaged \in BOOLEAN /\ overlap \subseteq Timers

(* rt_timer_init gives the master's timer one tick more than T3.5, the     *)
(* slave's timer the time of its only mode.                                *)
InitialPeriod(t) ==
  Period[mode[t]] + IF {mode[t]} = ModesOf[t] THEN 0 ELSE 1

Init ==
  /\ tick = 0 /\ checking = FALSE /\ list = <<>>
  /\ due = [t \in Timers |-> 0]
  /\ mode \in {f \in [Timers -> Modes] : \A t \in Timers : f[t] \in ModesOf[t]}
  /\ period = [t \in Timers |-> InitialPeriod(t)]
  /\ activated = [t \in Timers |-> FALSE]
  /\ call = [th \in Threads |-> Out]
  /\ damaged = FALSE /\ overlap = {}

-----------------------------------------------------------------------------
Linked(t) == t \in Range(list)

(* How far b lies after a, in unsigned arithmetic. *)
Ahead(a, b) == (b - a) % TickMod

Busy(t) == \E th \in Threads : call[th] # Out /\ call[th].timer = t

Overlap(t) == IF Busy(t) THEN overlap \cup {t} ELSE overlap

(* _rt_timer_remove *)
Unlinked(t) ==
  IF Linked(t) THEN RemoveAt(list, CHOOSE i \in DOMAIN list : list[i] = t)
  ELSE list

\* faulty variant: times are compared as they are
GoesBeforeAbsolute(u, d) == due[u] > d

(* rt_timer_start: the timer goes in front of the first one that is due    *)
(* later, and behind those that are due at the same time.                  *)
GoesBefore(u, d) == due[u] # d /\ Ahead(d, due[u]) < Half

InsertedInto(seq, t, d) ==
  \E place \in 1 .. Len(seq) + 1 :
    /\ place <= Len(seq) => GoesBefore(seq[place], d)
    /\ \A i \in 1 .. place - 1 : ~GoesBefore(seq[i], d)
    /\ list' = InsertAt(seq, place, t)

\* faulty variant: unsigned arithmetic is forgotten
DueUnbounded(t) == tick + period[t]

(* timeout_tick = rt_tick_get() + init_tick *)
DueNow(t) == (tick + period[t]) % TickMod

-----------------------------------------------------------------------------
(* Threads run when no interrupt does, and while the list is whole. *)
Runs(th, step) == ~damaged /\ ~checking /\ call[th].step = step

(* After MaxOverlap overlaps only the calls that are under way go on.      *)
Begins == ~damaged /\ Cardinality(overlap) <= MaxOverlap

Goes(th, step) == call' = [call EXCEPT ![th].step = step]

Returns(th) == call' = [call EXCEPT ![th] = Out]

(* vMBMasterPortTimersT35Enable, ...ConvertDelayEnable and                 *)
(* ...RespondTimeoutEnable: the mode, the period, the start.               *)
CallEnable(th, t, m) ==
  /\ Runs(th, "out") /\ Begins
  /\ {m} # ModesOf[t]
  /\ call' = [call EXCEPT ![th] = [step |-> "set_time", timer |-> t,
                                  ticks |-> Period[m]]]
  /\ mode' = [mode EXCEPT ![t] = m]
  /\ overlap' = Overlap(t)
  /\ UNCHANGED <<tick, checking, list, due, period, activated, damaged>>

(* vMBPortTimersEnable of the slave: the start alone. *)
CallStart(th, t) ==
  /\ Runs(th, "out") /\ Begins
  /\ {mode[t]} = ModesOf[t]
  /\ call' = [call EXCEPT ![th] = [step |-> "remove", timer |-> t,
                                  ticks |-> 0]]
  /\ overlap' = Overlap(t)
  /\ UNCHANGED <<tick, checking, list, due, period, mode, activated, damaged>>

\* faulty variant: the period of the timer is left as it is
KeepPeriod(th) ==
  /\ Runs(th, "set_time") /\ Goes(th, "remove")
  /\ UNCHANGED <<tick, checking, list, due, period, mode, activated, damaged,
                 overlap>>

(* RT_TIMER_CTRL_SET_TIME *)
SetTime(th) ==
  /\ Runs(th, "set_time") /\ Goes(th, "remove")
  /\ period' = [period EXCEPT ![call[th].timer] = call[th].ticks]
  /\ UNCHANGED <<tick, checking, list, due, mode, activated,
                 damaged, overlap>>

\* faulty variant: a running timer is not taken out of the list
Deactivate(th) ==
  /\ Runs(th, "remove") /\ Goes(th, "compute")
  /\ activated' = [activated EXCEPT ![call[th].timer] = FALSE]
  /\ UNCHANGED <<tick, checking, list, due, period, mode, damaged, overlap>>

(* rt_timer_start, masked: the timer is stopped. *)
RemoveTimer(th) ==
  /\ Runs(th, "remove") /\ Goes(th, "compute")
  /\ list' = Unlinked(call[th].timer)
  /\ activated' = [activated EXCEPT ![call[th].timer] = FALSE]
  /\ UNCHANGED <<tick, checking, due, period, mode, damaged,
                 overlap>>

(* rt_timer_start, not masked: the time is computed. *)
ComputeDue(th) ==
  /\ Runs(th, "compute") /\ Goes(th, "insert")
  /\ due' = [due EXCEPT ![call[th].timer] = DueNow(call[th].timer)]
  /\ UNCHANGED <<tick, checking, list, period, mode, activated,
                 damaged, overlap>>

(* rt_timer_start, masked: the timer is linked.  If it is in the list      *)
(* already the pointers are no list any more.                              *)
InsertTimer(th) ==
  /\ Runs(th, "insert") /\ Returns(th)
  /\ IF Linked(call[th].timer)
     THEN damaged' = TRUE /\ UNCHANGED <<list, activated>>
     ELSE /\ InsertedInto(list, call[th].timer, due[call[th].timer])
          /\ activated' = [activated EXCEPT ![call[th].timer] = TRUE]
          /\ UNCHANGED damaged
  /\ UNCHANGED <<tick, checking, due, period, mode, overlap>>

(* vMBMasterPortTimersDisable: rt_timer_stop does nothing to a timer whose *)
(* flag is clear; it unlinks another one, masked, and clears the flag when *)
(* interrupts are unmasked again.                                          *)
CallDisable(th, t) ==
  /\ Runs(th, "out") /\ Begins
  /\ activated[t]
  /\ call' = [call EXCEPT ![th] = [step |-> "unlink", timer |-> t,
                                  ticks |-> 0]]
  /\ overlap' = Overlap(t)
  /\ UNCHANGED <<tick, checking, list, due, period, mode, activated, damaged>>

Unlink(th) ==
  /\ Runs(th, "unlink") /\ Goes(th, "clear")
  /\ list' = Unlinked(call[th].timer)
  /\ UNCHANGED <<tick, checking, due, period, mode, activated,
                 damaged, overlap>>

ClearFlag(th) ==
  /\ Runs(th, "clear") /\ Returns(th)
  /\ activated' = [activated EXCEPT ![call[th].timer] = FALSE]
  /\ UNCHANGED <<tick, checking, list, due, period, mode, damaged, overlap>>

(* The interrupt of a received byte starts a timer, all at once: also      *)
(* between a tick and the check of the list.                               *)
IsrEnable(t, m) ==
  /\ Begins
  /\ mode' = [mode EXCEPT ![t] = m]
  /\ period' = [period EXCEPT ![t] = Period[m]]
  /\ due' = [due EXCEPT ![t] = (tick + Period[m]) % TickMod]
  /\ InsertedInto(Unlinked(t), t, (tick + Period[m]) % TickMod)
  /\ activated' = [activated EXCEPT ![t] = TRUE]
  /\ overlap' = Overlap(t)
  /\ UNCHANGED <<tick, checking, call, damaged>>

(* rt_tick_increase.  Bound: a thread between computing a time and         *)
(* inserting it is preempted for at most MaxPreempt ticks.                 *)
Tick ==
  /\ ~damaged /\ ~checking
  /\ \A th \in Threads : call[th].step = "insert" =>
       Ahead(due[call[th].timer] - period[call[th].timer], tick) < MaxPreempt
  /\ tick' = (tick + 1) % TickMod
  /\ checking' = TRUE
  /\ UNCHANGED <<list, due, period, mode, activated, call, damaged, overlap>>

Overdue(t) == Ahead(due[t], tick) < Half

\* faulty variant: one timer a tick
ExpiresFirst(n) ==
  n = IF list # <<>> /\ Overdue(Head(list)) THEN 1 ELSE 0

(* The first n timers have expired, and the next one has not. *)
Expire(n) ==
  /\ \A i \in 1 .. n : Overdue(list[i])
  /\ n < Len(list) => ~Overdue(list[n + 1])

\* faulty variant: the flag is left to the one who reads it
CheckKeepsFlag ==
  /\ ~damaged /\ checking
  /\ \E n \in 0 .. Len(list) :
       Expire(n) /\ list' = SubSeq(list, n + 1, Len(list))
  /\ checking' = FALSE
  /\ UNCHANGED <<tick, due, period, mode, activated, call, damaged, overlap>>

(* rt_timer_check is masked from end to end.  The callback of the port     *)
(* stops its timer again, which has no effect on one that is unlinked.     *)
Check ==
  /\ ~damaged /\ checking
  /\ \E n \in 0 .. Len(list) :
       /\ Expire(n)
       /\ list' = SubSeq(list, n + 1, Len(list))
       /\ activated' = [t \in Timers |->
                          activated[t] /\ \A i \in 1 .. n : list[i] # t]
  /\ checking' = FALSE
  /\ UNCHANGED <<tick, due, period, mode, call, damaged, overlap>>

Next ==
  \/ \E th \in Threads, t \in Timers :
       \/ \E m \in ModesOf[t] : CallEnable(th, t, m)
       \/ CallStart(th, t)
       \/ CallDisable(th, t)
  \/ \E th \in Threads : \/ SetTime(th) \/ RemoveTimer(th) \/ ComputeDue(th)
                         \/ InsertTimer(th) \/ Unlink(th) \/ ClearFlag(th)
  \/ \E t \in IsrTimers : \E m \in ModesOf[t] : IsrEnable(t, m)
  \/ Tick \/ Check

Spec == Init /\ [][Next]_vars

-----------------------------------------------------------------------------
(* The list is only damaged when a timer is started while it is being      *)
(* started or stopped: that tick, expiry and calls for other timers fall   *)
(* between the two masked parts of rt_timer_start is harmless.             *)
DamageNeedsOverlap == damaged => overlap # {}

(* The list is in the order of the times, across the wrap of the tick,     *)
(* even if a timer was due before it was inserted.                         *)
ListSorted ==
  (~damaged /\ overlap = {}) =>
    \A i, j \in DOMAIN list : i < j =>
      /\ list[i] # list[j]
      /\ Ahead(due[list[i]], due[list[j]]) < Half

(* No timer that has expired stays in the list: the check may stop at the  *)
(* first one that has not (timer.c:541).                                   *)
CheckMissesNone ==
  [][(Check /\ overlap = {}) =>
        \A i \in DOMAIN list' : ~Overdue(list'[i])]_vars

(* A timer that nobody is working on is linked if and only if its flag     *)
(* says so, although rt_timer_stop reads and clears the flag unmasked:     *)
(* otherwise the next stop would do nothing (timer.c:423).                 *)
FlagMatchesList ==
  \A t \in Timers :
    (~damaged /\ t \notin overlap /\ ~Busy(t)) => (activated[t] <=> Linked(t))

(* A running timer runs for the time of its mode: the expiry would take it *)
(* for something else (porttimer_m.c:63).                                  *)
ModeMatchesPeriod ==
  \A t \in Timers :
    (~damaged /\ t \notin overlap /\ ~Busy(t) /\ Linked(t)) =>
      period[t] = Period[mode[t]]
=============================================================================
