------------------------------- MODULE Timers -------------------------------
(***************************************************************************)
(* The timers of every server (common/timer.c) with two of their users on  *)
(* the map server: the walk timer of a unit (unit.c) and the event timer   *)
(* of a player (pc.c).                                                     *)
(*                                                                         *)
(* A timer is known by its id, its place in timer_data; the ids that are   *)
(* pending are in a heap, the expired ones on a list to be used again.     *)
(* Ticks are unsigned 32 bit milliseconds, here TickRange of them; a clock *)
(* that never wraps is kept beside them for the properties.                *)
(***************************************************************************)
EXTENDS Integers, Sequences, FiniteSets, SequencesExt

CONSTANTS Walkers,   \* units that walk
          Events,    \* event timers of players
          TickRange, \* 2^32
          MaxDelay,  \* bound: how far ahead a timer is set
          MaxLag,    \* bound: how late do_timer is called
          LateBy,    \* the lateness from which an expired timer counts as due now: 1000
          Interval,  \* the interval of the one timer that repeats itself
          MaxTime,   \* bound: how long the clock runs
          MaxIds,    \* bound: how many ids are ever used
          NoTimer    \* INVALID_TIMER

Users == Walkers \cup Events
Repeating == "mob_ai_hard"    \* any timer of add_timer_interval

ASSUME TimerAssumption == /\ Walkers \cap Events = {} /\ Repeating \notin Users
                          /\ NoTimer \notin Users \cup {Repeating} /\ NoTimer \notin Nat
                          /\ {MaxDelay, MaxLag, Interval} \subseteq Nat \ {0} /\ LateBy \in Nat
                          /\ TickRange \in Nat /\ TickRange > 2 * (MaxDelay + MaxLag + Interval + LateBy) /\ MaxTime \in Nat

VARIABLES clock,      \* the time; its tick is the remainder
          timer_data, \* per id: func (whose callback, NoTimer if deleted), tick, type; due is for the properties
          timer_heap, \* the pending ids
          free_timer_list, \* expired ids, the last one is used first
          handle,     \* per user: the id it remembers (ud->walktimer, sd->eventtimer[i])
          run,        \* the tick do_timer works with, NoTimer outside of it
          lastRun     \* time of the last complete do_timer, and whether it ran a timer too early

timerVars == <<clock, timer_data, timer_heap, free_timer_list, handle, run, lastRun>>

Ticks == 0 .. TickRange - 1
gettick == clock % TickRange

(* ((int)(a-b)): the unsigned difference, taken as a signed number *)
DIFF_TICK_plain(a, b) == a - b                         \* a mistake the runs must notice
DIFF_TICK(a, b) == LET d == (a - b) % TickRange IN IF d >= TickRange \div 2 THEN d - TickRange ELSE d

Data == [func : Users \cup {Repeating, NoTimer}, tick : Ticks, type : {"none", "once", "interval"}, due : Nat]

TimerTypeOK ==
    /\ clock \in 0 .. MaxTime
    /\ timer_data \in Seq(Data) /\ timer_heap \subseteq DOMAIN timer_data
    /\ free_timer_list \in Seq(DOMAIN timer_data)
    /\ handle \in [Users -> DOMAIN timer_data \cup {NoTimer}]
    /\ run \in Ticks \cup {NoTimer} /\ lastRun \in [at : 0 .. MaxTime, early : BOOLEAN]

TimerInit ==
    /\ clock = 0 /\ run = NoTimer /\ lastRun = [at |-> 0, early |-> FALSE]
    /\ timer_data = <<[func |-> Repeating, tick |-> 1, type |-> "interval", due |-> 1]>>
    /\ timer_heap = {1} /\ free_timer_list = <<>>
    /\ handle = [u \in Users |-> NoTimer]

(* acquire_timer: the id freed last, else a new one *)
Acquired == IF free_timer_list # <<>> THEN Last(free_timer_list) ELSE Len(timer_data) + 1
FreeKept == free_timer_list                            \* a mistake the runs must notice
FreeAfter == IF free_timer_list # <<>> THEN Front(free_timer_list) ELSE <<>>

Spent == [func |-> NoTimer, tick |-> 0, type |-> "none", due |-> 0]   \* what it holds is not looked at again

(* add_timer(tick, func, ...) by user u; due is the time the tick means *)
WithTimer(data, tid, u, due) ==
    LET new == [func |-> u, tick |-> due % TickRange, type |-> "once", due |-> due]
    IN IF tid \in DOMAIN data THEN [data EXCEPT ![tid] = new] ELSE Append(data, new)

(* delete_timer: refused when the id has another callback; else it stays in the heap, undone. *)
SameFunc(tid, u) == \/ timer_data[tid].func \in Walkers /\ u \in Walkers
                    \/ timer_data[tid].func \in Events /\ u \in Events
Deleted(tid, u) == IF SameFunc(tid, u) THEN [timer_data EXCEPT ![tid].func = NoTimer, ![tid].type = "once"]
                   ELSE timer_data

(* unit_walktoxy_sub, pc_addeventtimer: only while none is remembered *)
Start(u) ==
    /\ run = NoTimer /\ handle[u] = NoTimer
    /\ Acquired <= MaxIds
    /\ \E delay \in 1 .. MaxDelay : timer_data' = WithTimer(timer_data, Acquired, u, clock + delay)
    /\ timer_heap' = timer_heap \cup {Acquired}
    /\ free_timer_list' = FreeAfter
    /\ handle' = [handle EXCEPT ![u] = Acquired]
    /\ UNCHANGED <<clock, run, lastRun>>

(* unit_stop_walking, pc_deleventtimer, pc_cleareventtimer *)
Stop(u) ==
    /\ run = NoTimer /\ handle[u] # NoTimer
    /\ timer_data' = Deleted(handle[u], u)
    /\ handle' = [handle EXCEPT ![u] = NoTimer]
    /\ UNCHANGED <<clock, timer_heap, free_timer_list, run, lastRun>>

(* pc_addeventtimercount: addtick_timer, settick_timer *)
PutOff(e) ==
    /\ run = NoTimer /\ handle[e] # NoTimer
    /\ timer_data[handle[e]].due + 1 <= clock + MaxDelay
    /\ timer_data' = [timer_data EXCEPT ![handle[e]].tick = (@ + 1) % TickRange, ![handle[e]].due = @ + 1]
    /\ UNCHANGED <<clock, timer_heap, free_timer_list, handle, run, lastRun>>

Pass ==
    /\ run = NoTimer
    /\ \E d \in 1 .. MaxLag : clock' = clock + d /\ clock' <= MaxTime /\ clock' - lastRun.at <= MaxLag
    /\ UNCHANGED <<timer_data, timer_heap, free_timer_list, handle, run, lastRun>>

----------------------------------------------------------------------------
(* do_timer(gettick()): one step for every timer it takes from the top of the heap. *)

BeginRun ==
    /\ run = NoTimer /\ clock > lastRun.at
    /\ run' = gettick
    /\ UNCHANGED <<clock, timer_data, timer_heap, free_timer_list, handle, lastRun>>

AtTop(tid) == tid \in timer_heap /\ \A other \in timer_heap : DIFF_TICK(timer_data[tid].tick, timer_data[other].tick) <= 0
Expired(tid) == DIFF_TICK(timer_data[tid].tick, run) <= 0

(* The tick a callback is told, and the time it means. *)
IsLate(tid) == DIFF_TICK(timer_data[tid].tick, run) < -LateBy
TimeTold(tid) == IF IsLate(tid) THEN clock ELSE timer_data[tid].due

Ran(tid) == lastRun' = [lastRun EXCEPT !.early = @ \/ timer_data[tid].due > clock]
Freed(list, tid) == Append(list, tid)

(* A deleted timer expires without a callback. *)
ExpireDeleted(tid) ==
    /\ timer_data[tid].func = NoTimer
    /\ timer_data' = [timer_data EXCEPT ![tid] = Spent]
    /\ free_timer_list' = Freed(free_timer_list, tid)
    /\ timer_heap' = timer_heap \ {tid}
    /\ UNCHANGED handle

(* unit_walktoxy_timer, pc_eventtimer: the user forgets the id; it may walk on with a new timer
   (the id that runs is not free yet), and what happens may stop others. *)
Remembers(u) == handle                                 \* a mistake the runs must notice
Forgets(u) == [handle EXCEPT ![u] = NoTimer]

Callback(tid) ==
    LET u == timer_data[tid].func
        freed == [timer_data EXCEPT ![tid] = Spent]
    IN
    /\ u \in Users
    /\ \/ /\ timer_data' = freed                       \* it stops
          /\ handle' = Forgets(u)
          /\ timer_heap' = timer_heap \ {tid}
          /\ free_timer_list' = Freed(free_timer_list, tid)
       \/ /\ u \in Walkers /\ handle[u] = tid /\ Acquired <= MaxIds          \* it walks on
          /\ \E delay \in 1 .. MaxDelay : timer_data' = WithTimer(freed, Acquired, u, TimeTold(tid) + delay)
          /\ handle' = [Forgets(u) EXCEPT ![u] = Acquired]
          /\ timer_heap' = (timer_heap \ {tid}) \cup {Acquired}
          /\ free_timer_list' = Freed(FreeAfter, tid)
       \/ \E other \in Users \ {u} :                   \* it stops another
             /\ handle[other] # NoTimer
             /\ timer_data' = [Deleted(handle[other], other) EXCEPT ![tid] = Spent]
             /\ handle' = [Forgets(u) EXCEPT ![other] = NoTimer]
             /\ timer_heap' = timer_heap \ {tid}
             /\ free_timer_list' = Freed(free_timer_list, tid)

(* A repeating timer goes back to the heap; after a long delay it starts from now. *)
Repeat(tid) ==
    LET next == IF IsLate(tid) THEN clock + Interval ELSE timer_data[tid].due + Interval IN
    /\ timer_data[tid].func = Repeating
    /\ timer_data' = [timer_data EXCEPT ![tid].tick = next % TickRange, ![tid].due = next]
    /\ UNCHANGED <<timer_heap, free_timer_list, handle>>

RunTop ==
    /\ run # NoTimer
    /\ \E tid \in timer_heap :
          /\ AtTop(tid) /\ Expired(tid)
          /\ ExpireDeleted(tid) \/ Callback(tid) \/ Repeat(tid)
          /\ Ran(tid)
    /\ UNCHANGED <<clock, run>>

EndRun ==
    /\ run # NoTimer
    /\ \A tid \in timer_heap : AtTop(tid) => ~Expired(tid)
    /\ run' = NoTimer /\ lastRun' = [lastRun EXCEPT !.at = clock]
    /\ UNCHANGED <<clock, timer_data, timer_heap, free_timer_list, handle>>

TimerNext == \/ Pass \/ BeginRun \/ RunTop \/ EndRun
             \/ \E u \in Users : Start(u) \/ Stop(u)
             \/ \E e \in Events : PutOff(e)
TimerSpec == TimerInit /\ [][TimerNext]_timerVars

----------------------------------------------------------------------------
(* A remembered id is the id of the user's own pending timer, although ids are used again: so
   delete_timer and addtick_timer never hit the timer of somebody else. *)
RememberedIsOwn == \A u \in Users : handle[u] # NoTimer =>
                       handle[u] \in timer_heap /\ timer_data[handle[u]].func = u

(* Across the wrap of the tick, no timer runs before its time, and do_timer leaves none behind
   whose time has come. *)
TimersInTime ==
    /\ ~lastRun.early
    /\ run = NoTimer => \A tid \in timer_heap : timer_data[tid].due > lastRun.at

(* Every id is pending or free, and free only once. *)
IdsAccounted ==
    /\ timer_heap \cup ToSet(free_timer_list) = DOMAIN timer_data
    /\ timer_heap \cap ToSet(free_timer_list) = {}
    /\ Cardinality(ToSet(free_timer_list)) = Len(free_timer_list)
=============================================================================
