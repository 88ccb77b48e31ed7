----------------------- MODULE Infrastructure_proofs -----------------------
(***************************************************************************)
(* Proofs about two parts of common/ that all three servers stand on: the  *)
(* timers, and files that replace themselves.                              *)
(***************************************************************************)
EXTENDS Timers, LockFile, Iteration, FunctionTheorems, FiniteSetTheorems

-----------------------------------------------------------------------------
(***************************************************************************)
(* The timers.                                                             *)
(*                                                                         *)
(* The id of a timer is used again as soon as the timer ran out, yet no    *)
(* user ever holds the id of somebody else's timer: for any users, delays  *)
(* and width of the tick, and whatever a callback deletes or adds.         *)
(*                                                                         *)
(* By itself neither property is inductive.  That an acquired id is not    *)
(* pending needs that ids are pending or free and never both; that a user  *)
(* forgets the right id when a timer fires needs that a pending timer with *)
(* a user's callback is the one the user remembers.                        *)
(***************************************************************************)

Ids == DOMAIN timer_data
Distinct(list) == \A i, j \in DOMAIN list : list[i] = list[j] => i = j

(* Every id is pending or free; IdsAccounted without counting. *)
Accounted(data, heap, list) ==
    /\ list \in Seq(Nat) /\ Distinct(list)
    /\ heap \cup ToSet(list) = DOMAIN data
    /\ heap \cap ToSet(list) = {}

(* A remembered id is the user's own pending timer, and a pending timer of a user is remembered. *)
Own(data, heap, h) ==
    /\ h \in [Users -> heap \cup {NoTimer}]
    /\ \A u \in Users : h[u] # NoTimer => data[h[u]].func = u
    /\ \A tid \in heap : data[tid].func \in Users => h[data[tid].func] = tid

Timer == [func : Users \cup {Repeating, NoTimer}, tick : Int, type : {"none", "once", "interval"}, due : Nat]

TimerInv ==
    /\ clock \in Nat
    /\ timer_data \in Seq(Timer)
    /\ Accounted(timer_data, timer_heap, free_timer_list)
    /\ Own(timer_data, timer_heap, handle)

----------------------------------------------------------------------------
(* The list of free ids. *)

LEMMA FreedList ==
    ASSUME NEW list \in Seq(Nat), Distinct(list), NEW tid \in Nat, tid \notin ToSet(list)
    PROVE  /\ Freed(list, tid) \in Seq(Nat) /\ Distinct(Freed(list, tid))
           /\ ToSet(Freed(list, tid)) = ToSet(list) \cup {tid}
<1> DEFINE longer == Append(list, tid)
<1>1. longer \in Seq(Nat) /\ Len(longer) = Len(list) + 1 /\ Len(list) \in Nat
      /\ DOMAIN longer = 1 .. Len(list) + 1 /\ DOMAIN list = 1 .. Len(list)
    OBVIOUS
<1>2. longer[Len(list) + 1] = tid /\ \A i \in 1 .. Len(list) : longer[i] = list[i]
    OBVIOUS
<1>3. \A i \in 1 .. Len(list) : list[i] # tid
    BY <1>1 DEF ToSet
<1> HIDE DEF longer
<1>4. Distinct(longer)
    BY <1>1, <1>2, <1>3 DEF Distinct
<1>5. ToSet(longer) = ToSet(list) \cup {tid}
    BY <1>1, <1>2 DEF ToSet
<1> QED BY <1>1, <1>4, <1>5 DEF Freed, longer

(* An acquired id is not pending, and leaves the list. *)
LEMMA AcquiredFresh ==
    ASSUME TimerInv
    PROVE  /\ Acquired \in 1 .. Len(timer_data) + 1 /\ Acquired \notin timer_heap
           /\ FreeAfter \in Seq(Nat) /\ Distinct(FreeAfter)
           /\ ToSet(FreeAfter) = ToSet(free_timer_list) \ {Acquired}
<1> DEFINE list == free_timer_list
<1>1. Len(timer_data) \in Nat /\ Ids = 1 .. Len(timer_data)
    BY DEF TimerInv, Ids
<1>2. list \in Seq(Nat) /\ Distinct(list) /\ Len(list) \in Nat /\ DOMAIN list = 1 .. Len(list)
    BY DEF TimerInv, Accounted
<1>3. CASE list = <<>>
  <2>1. Acquired = Len(timer_data) + 1 /\ FreeAfter = <<>>
      BY <1>3 DEF Acquired, FreeAfter
  <2>2. Acquired \notin Ids
      BY <2>1, <1>1
  <2>3. Acquired \notin timer_heap /\ Acquired \notin ToSet(list)
      BY <2>2 DEF TimerInv, Accounted, Ids
  <2> QED BY <1>1, <1>2, <1>3, <2>1, <2>3
<1>4. CASE list # <<>>
  <2>1. Len(list) \in 1 .. Len(list) /\ Acquired = list[Len(list)]
      BY <1>2, <1>4 DEF Acquired, Last
  <2>2. Acquired \in ToSet(list)
      BY <1>2, <2>1 DEF ToSet
  <2>3. Acquired \in Ids /\ Acquired \notin timer_heap
      BY <2>2 DEF TimerInv, Accounted, Ids
  <2>4. FreeAfter = SubSeq(list, 1, Len(list) - 1)
      BY <1>4 DEF FreeAfter, Front
  <2>5. FreeAfter \in Seq(Nat) /\ DOMAIN FreeAfter = 1 .. Len(list) - 1
        /\ \A i \in 1 .. Len(list) - 1 : FreeAfter[i] = list[i]
      BY <1>2, <2>1, <2>4
  <2>6. Distinct(FreeAfter)
      BY <1>2, <2>5, SMTT(30) DEF Distinct
  <2>7. ToSet(FreeAfter) = ToSet(list) \ {Acquired}
    <3>1. \A i \in 1 .. Len(list) - 1 : list[i] # Acquired
        BY <1>2, <2>1 DEF Distinct
    <3>2. \A n \in Nat : \A i \in 1 .. n : i \in 1 .. n - 1 \/ i = n
        OBVIOUS
    <3>3. \A i \in 1 .. Len(list) : i \in 1 .. Len(list) - 1 \/ i = Len(list)
        BY <1>2, <3>2
    <3>4. \A i \in 1 .. Len(list) - 1 : i \in 1 .. Len(list)
        BY <1>2
    <3>5. ToSet(FreeAfter) = {list[i] : i \in 1 .. Len(list) - 1}
        BY <2>5 DEF ToSet
    <3> QED BY <1>2, <2>1, <3>1, <3>3, <3>4, <3>5 DEF ToSet
  <2> QED BY <1>1, <2>3, <2>5, <2>6, <2>7
<1> QED BY <1>3, <1>4

----------------------------------------------------------------------------
(* What happens to the table of timers. *)

LEMMA SeqExcept ==
    ASSUME NEW T, NEW data \in Seq(T), NEW tid \in DOMAIN data, NEW v \in T,
           NEW new, new = [data EXCEPT ![tid] = v]
    PROVE  /\ new \in Seq(T) /\ DOMAIN new = DOMAIN data /\ new[tid] = v
           /\ \A other \in DOMAIN data \ {tid} : new[other] = data[other]
OBVIOUS

LEMMA SeqAppend ==
    ASSUME NEW T, NEW data \in Seq(T), NEW v \in T, NEW new, new = Append(data, v)
    PROVE  /\ new \in Seq(T) /\ DOMAIN new = DOMAIN data \cup {Len(data) + 1} /\ new[Len(data) + 1] = v
           /\ \A other \in DOMAIN data : new[other] = data[other]
<1>1. Len(data) \in Nat /\ DOMAIN data = 1 .. Len(data) /\ DOMAIN new = 1 .. Len(data) + 1
    OBVIOUS
<1>2. \A n \in Nat : 1 .. n + 1 = (1 .. n) \cup {n + 1}
    OBVIOUS
<1>3. DOMAIN new = DOMAIN data \cup {Len(data) + 1}
    BY <1>1, <1>2
<1> QED BY <1>3

Added(new, data, tid, u) ==
    /\ new \in Seq(Timer) /\ DOMAIN new = DOMAIN data \cup {tid}
    /\ new[tid].func = u /\ \A other \in DOMAIN data \ {tid} : new[other] = data[other]

LEMMA WithTimerEffect ==
    ASSUME NEW data \in Seq(Timer), NEW tid \in 1 .. Len(data) + 1, NEW u \in Users, NEW due \in Nat,
           NEW new, new = WithTimer(data, tid, u, due)
    PROVE  Added(new, data, tid, u)
<1> DEFINE timer == [func |-> u, tick |-> due % TickRange, type |-> "once", due |-> due]
<1>1. due % TickRange \in Int
    BY TimerAssumption
<1>2. timer \in Timer /\ timer.func = u
    BY <1>1 DEF Timer
<1>3. CASE tid \in DOMAIN data
  <2>1. new = [data EXCEPT ![tid] = timer]
      BY <1>3 DEF WithTimer
  <2> HIDE DEF timer
  <2>2. new \in Seq(Timer) /\ DOMAIN new = DOMAIN data /\ new[tid] = timer
        /\ \A other \in DOMAIN data \ {tid} : new[other] = data[other]
      BY <1>2, <1>3, <2>1, SeqExcept
  <2> QED BY <1>2, <1>3, <2>2 DEF Added
<1>4. CASE tid \notin DOMAIN data
  <2>1. new = Append(data, timer) /\ tid = Len(data) + 1
      BY <1>4 DEF WithTimer
  <2> HIDE DEF timer
  <2>2. new \in Seq(Timer) /\ DOMAIN new = DOMAIN data \cup {tid} /\ new[tid] = timer
        /\ \A other \in DOMAIN data : new[other] = data[other]
      BY <1>2, <2>1, SeqAppend
  <2> QED BY <1>2, <2>2 DEF Added
<1> QED BY <1>3, <1>4

(* delete_timer with the user's own id takes the callback away. *)
LEMMA DeletedEffect ==
    ASSUME TimerInv, NEW u \in Users, handle[u] # NoTimer, NEW new, new = Deleted(handle[u], u)
    PROVE  /\ new \in Seq(Timer) /\ DOMAIN new = Ids
           /\ handle[u] \in timer_heap /\ handle[u] \in Ids /\ new[handle[u]].func = NoTimer
           /\ \A other \in Ids \ {handle[u]} : new[other] = timer_data[other]
<1> DEFINE tid == handle[u]
           undone == [timer_data[tid] EXCEPT !.func = NoTimer, !.type = "once"]
<1>1. tid \in timer_heap /\ tid \in Ids /\ timer_data[tid].func = u /\ timer_data \in Seq(Timer)
    BY DEF TimerInv, Own, Accounted, Ids
<1>2. timer_data[tid] \in Timer
    BY <1>1 DEF Ids
<1>3. undone \in Timer /\ undone.func = NoTimer
    BY <1>2 DEF Timer
<1>4. new = [timer_data EXCEPT ![tid] = undone]
    BY <1>1 DEF Deleted, SameFunc, Users, Ids
<1> HIDE DEF undone, tid
<1>5. new \in Seq(Timer) /\ DOMAIN new = Ids /\ new[tid] = undone
      /\ \A other \in Ids \ {tid} : new[other] = timer_data[other]
    BY <1>1, <1>3, <1>4, SeqExcept DEF Ids
<1> QED BY <1>1, <1>3, <1>5 DEF tid

----------------------------------------------------------------------------
(* Who remembers which timer. *)

(* A user without a timer starts one. *)
LEMMA OwnStarted ==
    ASSUME NEW data, NEW heap, heap \subseteq Nat, NEW h, Own(data, heap, h), NEW u \in Users, h[u] = NoTimer,
           NEW tid \in Nat, tid \notin heap, NEW new, new[tid].func = u,
           \A other \in heap : new[other] = data[other]
    PROVE  Own(new, heap \cup {tid}, [h EXCEPT ![u] = tid])
<1> DEFINE g == [h EXCEPT ![u] = tid]
<1>1. g \in [Users -> heap \cup {tid} \cup {NoTimer}] /\ g[u] = tid /\ \A other \in Users \ {u} : g[other] = h[other]
    BY DEF Own
<1>2. \A other \in heap : data[other].func # u
    BY TimerAssumption DEF Own
<1> HIDE DEF g
<1>3. ASSUME NEW other \in Users, g[other] # NoTimer PROVE new[g[other]].func = other
  <2>1. CASE other = u
      BY <1>1, <2>1
  <2>2. CASE other # u
    <3>1. g[other] = h[other] /\ h[other] \in heap /\ data[h[other]].func = other
        BY <1>1, <1>3, <2>2 DEF Own
    <3> QED BY <3>1
  <2> QED BY <2>1, <2>2
<1>4. \A other \in heap \cup {tid} : new[other].func \in Users => g[new[other].func] = other
    BY <1>1, <1>2 DEF Own
<1> QED BY <1>1, <1>3, <1>4 DEF Own, g

(* A timer leaves the heap, and the user whose it was forgets it. *)
LEMMA OwnExpired ==
    ASSUME NEW data, NEW heap, NEW h, Own(data, heap, h), NEW tid \in heap, NEW new,
           \A other \in heap \ {tid} : new[other] = data[other]
    PROVE  Own(new, heap \ {tid}, IF data[tid].func \in Users THEN [h EXCEPT ![data[tid].func] = NoTimer] ELSE h)
BY TimerAssumption DEF Own

(* A user's timer is deleted: it stays in the heap and is nobody's. *)
LEMMA OwnStopped ==
    ASSUME NEW data, NEW heap, NEW h, Own(data, heap, h), NEW u \in Users, h[u] # NoTimer,
           NEW new, new[h[u]].func = NoTimer, \A other \in heap \ {h[u]} : new[other] = data[other]
    PROVE  Own(new, heap, [h EXCEPT ![u] = NoTimer])
BY TimerAssumption DEF Own

LEMMA OwnSame ==
    ASSUME NEW data, NEW heap, NEW h, Own(data, heap, h), NEW new,
           \A other \in heap : new[other].func = data[other].func
    PROVE  Own(new, heap, h)
BY DEF Own

LEMMA AccountedExpired ==
    ASSUME NEW data, NEW heap, NEW list, Accounted(data, heap, list), NEW tid \in heap, tid \in Nat,
           NEW new, DOMAIN new = DOMAIN data
    PROVE  Accounted(new, heap \ {tid}, Freed(list, tid))
<1>1. /\ Freed(list, tid) \in Seq(Nat) /\ Distinct(Freed(list, tid))
      /\ ToSet(Freed(list, tid)) = ToSet(list) \cup {tid}
    BY FreedList DEF Accounted
<1> QED BY <1>1 DEF Accounted

LEMMA AccountedStarted ==
    ASSUME TimerInv, NEW new, DOMAIN new = Ids \cup {Acquired}
    PROVE  Accounted(new, timer_heap \cup {Acquired}, FreeAfter)
BY AcquiredFresh DEF TimerInv, Accounted, Ids

----------------------------------------------------------------------------
(* The actions. *)

LEMMA IdsNatural == TimerInv => Ids \subseteq Nat /\ timer_heap \subseteq Ids
BY DEF TimerInv, Accounted, Ids

LEMMA StartInv == ASSUME TimerInv, NEW u \in Users, Start(u) PROVE TimerInv'
<1>1. PICK delay \in 1 .. MaxDelay : timer_data' = WithTimer(timer_data, Acquired, u, clock + delay)
    BY DEF Start
<1>2. clock + delay \in Nat /\ timer_data \in Seq(Timer)
    BY TimerAssumption DEF TimerInv
<1>3. Acquired \in 1 .. Len(timer_data) + 1 /\ Acquired \notin timer_heap /\ Acquired \in Nat
    BY AcquiredFresh
<1>4. Added(timer_data', timer_data, Acquired, u)
    BY <1>1, <1>2, <1>3, WithTimerEffect, Zenon
<1>5. timer_heap \subseteq Nat /\ \A other \in timer_heap : timer_data'[other] = timer_data[other]
    BY <1>3, <1>4, IdsNatural DEF Added, Ids
<1>6. Own(timer_data', timer_heap \cup {Acquired}, [handle EXCEPT ![u] = Acquired])
  <2>1. timer_data'[Acquired].func = u
      BY <1>4 DEF Added
  <2> QED BY <1>3, <1>5, <2>1, OwnStarted DEF Start, TimerInv
<1>7. Accounted(timer_data', timer_heap \cup {Acquired}, FreeAfter)
    BY <1>4, AccountedStarted DEF Added, Ids
<1> QED BY <1>4, <1>6, <1>7 DEF Start, TimerInv, Added

LEMMA StopInv == ASSUME TimerInv, NEW u \in Users, Stop(u) PROVE TimerInv'
<1>1. handle[u] # NoTimer /\ timer_data' = Deleted(handle[u], u)
    BY DEF Stop
<1>2. /\ timer_data' \in Seq(Timer) /\ DOMAIN timer_data' = Ids /\ timer_data'[handle[u]].func = NoTimer
      /\ \A other \in timer_heap \ {handle[u]} : timer_data'[other] = timer_data[other]
    BY <1>1, DeletedEffect, IdsNatural
<1>3. Own(timer_data', timer_heap, [handle EXCEPT ![u] = NoTimer])
    BY <1>1, <1>2, OwnStopped DEF TimerInv
<1> QED BY <1>2, <1>3 DEF Stop, TimerInv, Accounted, Ids

(* What changes only the ticks of one timer. *)
LEMMA RetimedInv ==
    ASSUME TimerInv, NEW tid \in timer_heap, NEW tick \in Int, NEW due \in Nat,
           timer_data' = [timer_data EXCEPT ![tid].tick = tick, ![tid].due = due],
           UNCHANGED <<clock, timer_heap, free_timer_list, handle>>
    PROVE  TimerInv'
<1> DEFINE new == [timer_data[tid] EXCEPT !.tick = tick, !.due = due]
<1>1. tid \in Ids /\ timer_data \in Seq(Timer)
    BY IdsNatural DEF TimerInv
<1>2. timer_data[tid] \in Timer
    BY <1>1 DEF Ids
<1>3. new \in Timer /\ new.func = timer_data[tid].func
    BY <1>2 DEF Timer
<1>4. timer_data' = [timer_data EXCEPT ![tid] = new]
    BY <1>1 DEF Ids
<1> HIDE DEF new
<1>5. /\ timer_data' \in Seq(Timer) /\ DOMAIN timer_data' = Ids
      /\ \A other \in Ids : timer_data'[other].func = timer_data[other].func
  <2>1. /\ timer_data' \in Seq(Timer) /\ DOMAIN timer_data' = Ids /\ timer_data'[tid] = new
        /\ \A other \in Ids \ {tid} : timer_data'[other] = timer_data[other]
    <3>1. \A d : d = [timer_data EXCEPT ![tid] = new] =>
              /\ d \in Seq(Timer) /\ DOMAIN d = Ids /\ d[tid] = new
              /\ \A other \in Ids \ {tid} : d[other] = timer_data[other]
        BY <1>1, <1>3, SeqExcept DEF Ids
    <3> QED BY <1>4, <3>1
  <2> QED BY <1>3, <2>1
<1>6. Own(timer_data', timer_heap, handle)
    BY <1>5, OwnSame, IdsNatural DEF TimerInv
<1> QED BY <1>5, <1>6 DEF TimerInv, Accounted, Ids

LEMMA PutOffInv == ASSUME TimerInv, NEW e \in Events, PutOff(e) PROVE TimerInv'
<1>1. handle[e] \in timer_heap
    BY DEF PutOff, TimerInv, Own, Users
<1>2. timer_data[handle[e]] \in Timer
    BY <1>1, IdsNatural DEF TimerInv, Ids
<1>3. timer_data[handle[e]].tick + 1 \in Int /\ timer_data[handle[e]].due + 1 \in Nat
    BY <1>2 DEF Timer
<1>4. (timer_data[handle[e]].tick + 1) % TickRange \in Int
    BY <1>3, TimerAssumption
<1> QED BY <1>1, <1>3, <1>4, RetimedInv DEF PutOff

(* Timers that are taken from the heap: tid leaves it and what was at its place is not looked at. *)
LEMMA SpentEffect ==
    ASSUME NEW data \in Seq(Timer), NEW tid \in DOMAIN data, NEW new, new = [data EXCEPT ![tid] = Spent]
    PROVE  /\ new \in Seq(Timer) /\ DOMAIN new = DOMAIN data
           /\ \A other \in DOMAIN data \ {tid} : new[other] = data[other]
<1>1. Spent \in Timer
    BY DEF Spent, Timer
<1> QED BY <1>1, SeqExcept

LEMMA ExpireDeletedInv ==
    ASSUME TimerInv, NEW tid \in timer_heap, ExpireDeleted(tid), UNCHANGED clock
    PROVE  TimerInv'
<1>1. tid \in Ids /\ tid \in Nat /\ timer_data \in Seq(Timer)
    BY IdsNatural DEF TimerInv
<1>2. /\ timer_data' \in Seq(Timer) /\ DOMAIN timer_data' = DOMAIN timer_data
      /\ \A other \in timer_heap \ {tid} : timer_data'[other] = timer_data[other]
  <2>1. \A new : new = [timer_data EXCEPT ![tid] = Spent] =>
            /\ new \in Seq(Timer) /\ DOMAIN new = DOMAIN timer_data
            /\ \A other \in Ids \ {tid} : new[other] = timer_data[other]
      BY <1>1, SpentEffect DEF Ids
  <2> QED BY <2>1, IdsNatural DEF ExpireDeleted
<1>3. timer_data[tid].func \notin Users
    BY TimerAssumption DEF ExpireDeleted
<1>4. Own(timer_data', timer_heap \ {tid}, handle)
    BY <1>2, <1>3, OwnExpired DEF TimerInv
<1>5. Accounted(timer_data', timer_heap \ {tid}, Freed(free_timer_list, tid))
    BY <1>1, <1>2, AccountedExpired DEF TimerInv
<1> QED BY <1>2, <1>4, <1>5 DEF ExpireDeleted, TimerInv

(* What every callback does: tid is taken from a table (data, heap, h, list) in which its user
   has not been forgotten yet. *)
LEMMA CalledBack ==
    ASSUME NEW data \in Seq(Timer), NEW heap, heap \subseteq Nat, NEW h, NEW list,
           Own(data, heap, h), Accounted(data, heap, list),
           NEW tid \in heap, NEW u \in Users, data[tid].func = u,
           NEW new, new = [data EXCEPT ![tid] = Spent]
    PROVE  /\ new \in Seq(Timer) /\ DOMAIN new = DOMAIN data
           /\ Own(new, heap \ {tid}, [h EXCEPT ![u] = NoTimer])
           /\ Accounted(new, heap \ {tid}, Freed(list, tid))
<1>1. tid \in DOMAIN data /\ tid \in Nat /\ heap \subseteq DOMAIN data
    BY DEF Accounted
<1>2. /\ new \in Seq(Timer) /\ DOMAIN new = DOMAIN data
      /\ \A other \in heap \ {tid} : new[other] = data[other]
    BY <1>1, SpentEffect
<1>3. Own(new, heap \ {tid}, [h EXCEPT ![u] = NoTimer])
    BY <1>2, OwnExpired
<1>4. Accounted(new, heap \ {tid}, Freed(list, tid))
    BY <1>1, <1>2, AccountedExpired
<1> QED BY <1>2, <1>3, <1>4

LEMMA CallbackInv ==
    ASSUME TimerInv, NEW tid \in timer_heap, Callback(tid), UNCHANGED clock
    PROVE  TimerInv'
<1> DEFINE u == timer_data[tid].func
           freed == [timer_data EXCEPT ![tid] = Spent]
<1>1. tid \in Ids /\ tid \in Nat /\ timer_data \in Seq(Timer) /\ u \in Users /\ timer_heap \subseteq Nat
    BY IdsNatural DEF TimerInv, Callback
<1>2. /\ freed \in Seq(Timer) /\ DOMAIN freed = DOMAIN timer_data
      /\ Own(freed, timer_heap \ {tid}, Forgets(u))
      /\ Accounted(freed, timer_heap \ {tid}, Freed(free_timer_list, tid))
    BY <1>1, CalledBack DEF TimerInv, Forgets
<1> HIDE DEF u, freed
<1>3. CASE /\ timer_data' = freed /\ handle' = Forgets(u) /\ timer_heap' = timer_heap \ {tid}
           /\ free_timer_list' = Freed(free_timer_list, tid)
    BY <1>2, <1>3 DEF TimerInv
<1>4. CASE /\ u \in Walkers /\ handle[u] = tid /\ Acquired <= MaxIds
           /\ \E delay \in 1 .. MaxDelay : timer_data' = WithTimer(freed, Acquired, u, TimeTold(tid) + delay)
           /\ handle' = [Forgets(u) EXCEPT ![u] = Acquired]
           /\ timer_heap' = (timer_heap \ {tid}) \cup {Acquired}
           /\ free_timer_list' = Freed(FreeAfter, tid)
  <2>1. PICK delay \in 1 .. MaxDelay : timer_data' = WithTimer(freed, Acquired, u, TimeTold(tid) + delay)
      BY <1>4
  <2>2. TimeTold(tid) + delay \in Nat
    <3>1. timer_data[tid] \in Timer
        BY <1>1 DEF Ids
    <3>2. timer_data[tid].due \in Nat /\ clock \in Nat
        BY <3>1 DEF Timer, TimerInv
    <3>3. TimeTold(tid) \in Nat
        BY <3>2 DEF TimeTold
    <3> QED BY <3>3, TimerAssumption
  <2>3. /\ Acquired \in 1 .. Len(freed) + 1 /\ Acquired \in Nat /\ Acquired \notin timer_heap
        /\ FreeAfter \in Seq(Nat) /\ Distinct(FreeAfter) /\ ToSet(FreeAfter) = ToSet(free_timer_list) \ {Acquired}
    <3>1. Len(freed) = Len(timer_data)
        BY <1>1, <1>2
    <3> QED BY <3>1, AcquiredFresh
  <2>4. Added(timer_data', freed, Acquired, u)
      BY <1>1, <1>2, <2>1, <2>2, <2>3, WithTimerEffect, Zenon
  <2>5. Acquired # tid /\ \A other \in timer_heap \ {tid} : timer_data'[other] = freed[other]
      BY <1>2, <2>3, <2>4, IdsNatural DEF Added, Ids
  <2>6. Own(timer_data', timer_heap', handle')
    <3>1. Forgets(u)[u] = NoTimer /\ timer_data'[Acquired].func = u
        BY <1>1, <2>4 DEF Forgets, Added, TimerInv, Own
    <3> QED BY <1>1, <1>2, <1>4, <2>3, <2>5, <3>1, OwnStarted
  <2>7. Accounted(timer_data', timer_heap', free_timer_list')
    <3>1. tid \notin ToSet(FreeAfter)
        BY <2>3 DEF TimerInv, Accounted
    <3>2. /\ free_timer_list' \in Seq(Nat) /\ Distinct(free_timer_list')
          /\ ToSet(free_timer_list') = ToSet(FreeAfter) \cup {tid}
        BY <1>1, <1>4, <2>3, <3>1, FreedList
    <3>3. DOMAIN timer_data' = Ids \cup {Acquired}
        BY <1>2, <2>4 DEF Added, Ids
    <3>4. Ids = timer_heap \cup ToSet(free_timer_list) /\ timer_heap \cap ToSet(free_timer_list) = {}
        BY DEF TimerInv, Accounted, Ids
    <3> QED BY <1>4, <2>3, <2>5, <3>2, <3>3, <3>4, ZenonT(40) DEF Accounted
  <2> QED BY <2>4, <2>6, <2>7 DEF TimerInv, Added
<1>5. CASE \E other \in Users \ {u} :
             /\ handle[other] # NoTimer
             /\ timer_data' = [Deleted(handle[other], other) EXCEPT ![tid] = Spent]
             /\ handle' = [Forgets(u) EXCEPT ![other] = NoTimer]
             /\ timer_heap' = timer_heap \ {tid}
             /\ free_timer_list' = Freed(free_timer_list, tid)
  <2>1. PICK other \in Users \ {u} :
             /\ handle[other] # NoTimer
             /\ timer_data' = [Deleted(handle[other], other) EXCEPT ![tid] = Spent]
             /\ handle' = [Forgets(u) EXCEPT ![other] = NoTimer]
      BY <1>5
  <2> DEFINE data == Deleted(handle[other], other)
             h == [handle EXCEPT ![other] = NoTimer]
  <2>2. /\ data \in Seq(Timer) /\ DOMAIN data = Ids /\ handle[other] \in timer_heap
        /\ data[handle[other]].func = NoTimer
        /\ \A third \in Ids \ {handle[other]} : data[third] = timer_data[third]
      BY <2>1, DeletedEffect
  <2>3. Own(data, timer_heap, h)
      BY <2>1, <2>2, OwnStopped, IdsNatural DEF TimerInv
  <2>4. tid # handle[other] /\ data[tid].func = u
      BY <1>1, <2>1, <2>2 DEF TimerInv, Own, u
  <2>5. Accounted(data, timer_heap, free_timer_list)
      BY <2>2 DEF TimerInv, Accounted, Ids
  <2>6. handle' = [h EXCEPT ![u] = NoTimer]
      BY <1>1, <2>1 DEF Forgets, TimerInv, Own
  <2> HIDE DEF data, h
  <2>7. timer_data' = [data EXCEPT ![tid] = Spent]
      BY <2>1 DEF data
  <2>8. \A new : new = [data EXCEPT ![tid] = Spent] =>
            /\ new \in Seq(Timer)
            /\ Own(new, timer_heap \ {tid}, [h EXCEPT ![u] = NoTimer])
            /\ Accounted(new, timer_heap \ {tid}, Freed(free_timer_list, tid))
      BY <1>1, <2>2, <2>3, <2>4, <2>5, CalledBack
  <2> QED BY <1>5, <2>6, <2>7, <2>8 DEF TimerInv
<1> QED BY <1>3, <1>4, <1>5 DEF Callback, u, freed

LEMMA RepeatInv ==
    ASSUME TimerInv, NEW tid \in timer_heap, Repeat(tid), UNCHANGED clock
    PROVE  TimerInv'
<1> DEFINE next == IF IsLate(tid) THEN clock + Interval ELSE timer_data[tid].due + Interval
<1>1. timer_data[tid] \in Timer
    BY IdsNatural DEF TimerInv, Ids
<1>2. next \in Nat
  <2>1. timer_data[tid].due \in Nat /\ clock \in Nat /\ Interval \in Nat
      BY <1>1, TimerAssumption DEF Timer, TimerInv
  <2> QED BY <2>1
<1>3. timer_data' = [timer_data EXCEPT ![tid].tick = next % TickRange, ![tid].due = next]
      /\ UNCHANGED <<timer_heap, free_timer_list, handle>>
    BY DEF Repeat
<1> HIDE DEF next
<1>4. next % TickRange \in Int
    BY <1>2, TimerAssumption
<1> QED BY <1>2, <1>3, <1>4, RetimedInv

LEMMA TimerStep == TimerInv /\ [TimerNext]_timerVars => TimerInv'
<1> SUFFICES ASSUME TimerInv, [TimerNext]_timerVars PROVE TimerInv'
    OBVIOUS
<1>1. CASE Pass
  <2>1. clock' \in Nat
      BY <1>1, TimerAssumption DEF Pass, TimerInv
  <2> QED BY <1>1, <2>1 DEF Pass, TimerInv
<1>2. CASE BeginRun \/ EndRun \/ UNCHANGED timerVars
    BY <1>2 DEF BeginRun, EndRun, timerVars, TimerInv
<1>3. CASE RunTop
    BY <1>3, ExpireDeletedInv, CallbackInv, RepeatInv DEF RunTop
<1>4. CASE \E u \in Users : Start(u) \/ Stop(u)
    BY <1>4, StartInv, StopInv
<1>5. CASE \E e \in Events : PutOff(e)
    BY <1>5, PutOffInv
<1> QED BY <1>1, <1>2, <1>3, <1>4, <1>5 DEF TimerNext

LEMMA TimerInitInv == TimerInit => TimerInv
<1> SUFFICES ASSUME TimerInit PROVE TimerInv
    OBVIOUS
<1>1. timer_data \in Seq(Timer) /\ DOMAIN timer_data = {1} /\ timer_data[1].func = Repeating
    BY DEF TimerInit, Timer
<1>2. free_timer_list \in Seq(Nat) /\ DOMAIN free_timer_list = {} /\ ToSet(free_timer_list) = {}
    BY DEF TimerInit, ToSet
<1>3. Accounted(timer_data, timer_heap, free_timer_list)
    BY <1>1, <1>2 DEF TimerInit, Accounted, Distinct
<1>4. Own(timer_data, timer_heap, handle)
    BY <1>1, TimerAssumption DEF TimerInit, Own
<1> QED BY <1>1, <1>3, <1>4 DEF TimerInit, TimerInv

(* A list without repetitions has as many members as places. *)
LEMMA CountedOnce ==
    ASSUME NEW list \in Seq(Nat), Distinct(list)
    PROVE  Cardinality(ToSet(list)) = Len(list)
<1>1. Len(list) \in Nat /\ DOMAIN list = 1 .. Len(list)
    OBVIOUS
<1>2. list \in [1 .. Len(list) -> ToSet(list)]
    BY <1>1 DEF ToSet
<1>3. \A a, b \in 1 .. Len(list) : list[a] = list[b] => a = b
    BY <1>1 DEF Distinct
<1>4. \A t \in ToSet(list) : \E s \in 1 .. Len(list) : list[s] = t
    BY <1>1 DEF ToSet
<1>5. list \in Bijection(1 .. Len(list), ToSet(list))
    BY <1>2, <1>3, <1>4, Fun_IsBij
<1>6. ExistsBijection(1 .. Len(list), ToSet(list))
    BY <1>5 DEF ExistsBijection
<1>7. IsFiniteSet(1 .. Len(list)) /\ Cardinality(1 .. Len(list)) = Len(list)
    BY <1>1, FS_Interval, SMTT(30)
<1> QED BY <1>6, <1>7, FS_Bijection

THEOREM TimerInvariant == TimerSpec => []TimerInv
BY TimerInitInv, TimerStep, PTL DEF TimerSpec

(* Whatever starts, stops and runs out, an id that a unit or a player remembers is that of its
   own pending timer, so delete_timer and settick_timer never reach somebody else's (timer.c 290-340). *)
THEOREM RememberedTimersAreOwn == TimerSpec => []RememberedIsOwn
<1>1. TimerInv => RememberedIsOwn
    BY DEF TimerInv, Own, RememberedIsOwn
<1> QED BY <1>1, TimerInvariant, PTL

(* No id is lost or given out twice (acquire_timer, timer.c 211-237). *)
THEOREM TimerIdsAccounted == TimerSpec => []IdsAccounted
<1>1. TimerInv => IdsAccounted
    BY CountedOnce DEF TimerInv, Accounted, IdsAccounted
<1> QED BY <1>1, TimerInvariant, PTL

----------------------------------------------------------------------------
(* Timers in time, across the wrap of the tick.  Pending timers are due within Ahead of the clock and after the
   last do_timer, which is at most MaxLag ago: so much nearer to each other than half of the range that
   the difference of two ticks is that of the times. *)
Ahead == MaxDelay + Interval
InReach(timer, last, now) ==
    /\ timer.tick = timer.due % TickRange
    /\ last < timer.due /\ timer.due <= now + Ahead
AllInReach(data, heap, last, now) == \A tid \in heap : InReach(data[tid], last, now)

RunInv ==
    /\ lastRun \in [at : Nat, early : {FALSE}]
    /\ lastRun.at <= clock /\ clock <= lastRun.at + MaxLag
    /\ run # NoTimer => run = clock % TickRange /\ lastRun.at < clock
    /\ AllInReach(timer_data, timer_heap, lastRun.at, clock)

LEMMA TimeFacts ==
    /\ MaxDelay \in Nat /\ MaxDelay > 0 /\ MaxLag \in Nat /\ Interval \in Nat /\ Interval > 0 /\ LateBy \in Nat
    /\ TickRange \in Nat /\ TickRange > 2 * (MaxLag + Ahead) /\ Ahead \in Nat /\ Ahead = MaxDelay + Interval
<1>1. /\ MaxDelay \in Nat /\ MaxDelay > 0 /\ MaxLag \in Nat /\ Interval \in Nat /\ Interval > 0 /\ LateBy \in Nat
      /\ TickRange \in Nat /\ TickRange > 2 * (MaxDelay + MaxLag + Interval + LateBy)
    BY TimerAssumption
<1> QED BY <1>1 DEF Ahead

(* A remainder is known by its quotient. *)
LEMMA RemainderUnique ==
    ASSUME NEW R \in Nat, R > 0, NEW q \in Int, NEW r \in Int, 0 <= r, r < R
    PROVE  (R * q + r) % R = r
BY Z3

LEMMA Remainder ==
    ASSUME NEW R \in Nat, R > 0, NEW x \in Int
    PROVE  x % R \in 0 .. R - 1 /\ \E q \in Int : x = R * q + (x % R)
<1>1. x \div R \in Int /\ x = R * (x \div R) + (x % R) /\ 0 <= x % R /\ x % R < R /\ x % R \in Int
    BY Z3
<1> QED BY <1>1

(* The tick of one later is one more than the tick. *)
LEMMA NextTick ==
    ASSUME NEW R \in Nat, R > 1, NEW x \in Int
    PROVE  ((x % R) + 1) % R = (x + 1) % R
<1>0. R > 0
    OBVIOUS
<1>1. PICK q \in Int : x = R * q + (x % R)
    BY <1>0, Remainder
<1>2. x % R \in Int /\ 0 <= x % R /\ x % R < R
    BY <1>0, Remainder
<1> DEFINE y == x % R
<1> HIDE DEF y
<1>3. CASE y + 1 < R
  <2>1. y \in Int /\ 0 <= y /\ x = R * q + y
      BY <1>1, <1>2 DEF y
  <2>2. x + 1 = R * q + (y + 1) /\ y + 1 = R * 0 + (y + 1)
      BY <2>1
  <2>3. (R * q + (y + 1)) % R = y + 1 /\ (R * 0 + (y + 1)) % R = y + 1
      BY <1>0, <1>3, <2>1, RemainderUnique
  <2> QED BY <2>2, <2>3 DEF y
<1>4. CASE y + 1 = R
  <2>1. y \in Int /\ 0 <= y /\ x = R * q + y
      BY <1>1, <1>2 DEF y
  <2>2. x + 1 = R * (q + 1) + 0 /\ y + 1 = R * 1 + 0
    <3>1. R * (q + 1) = R * q + R
        BY Z3
    <3> QED BY <1>4, <2>1, <3>1
  <2>3. (R * (q + 1) + 0) % R = 0 /\ (R * 1 + 0) % R = 0
      BY <1>0, RemainderUnique
  <2> QED BY <2>2, <2>3 DEF y
<1> QED BY <1>2, <1>3, <1>4 DEF y

(* ((int)(a-b)) of two ticks is the difference of the times when these are near enough. *)
LEMMA TickDifference ==
    ASSUME NEW a \in Int, NEW b \in Int, a - b < MaxLag + Ahead, b - a < MaxLag + Ahead
    PROVE  DIFF_TICK(a % TickRange, b % TickRange) = a - b
<1> DEFINE R == TickRange
           d == a - b
           x == (a % R) - (b % R)
<1>1. R \in Nat /\ R > 0 /\ R > 2 * (MaxLag + Ahead) /\ MaxLag + Ahead \in Nat
    BY TimeFacts
<1> HIDE DEF R
<1>2. PICK p \in Int : a = R * p + (a % R)
    BY <1>1, Remainder
<1>3. PICK q \in Int : b = R * q + (b % R)
    BY <1>1, Remainder
<1>4. a % R \in Int /\ b % R \in Int
    BY <1>1, Remainder
<1>5. d \in Int /\ d < MaxLag + Ahead /\ -(MaxLag + Ahead) < d
    BY <1>1
<1>6. x = R * (q - p) + d
  <2>1. R * (q - p) = R * q - R * p
      BY <1>1, Z3
  <2>2. R * q \in Int /\ R * p \in Int
      BY <1>1
  <2> QED BY <1>2, <1>3, <1>4, <2>1, <2>2
<1>7. R \div 2 \in Int /\ 2 * (R \div 2) <= R /\ R <= 2 * (R \div 2) + 1
    BY <1>1
<1>10. DIFF_TICK(a % TickRange, b % TickRange) = IF x % R >= R \div 2 THEN (x % R) - R ELSE x % R
    BY DEF DIFF_TICK, R
<1>11. d = a - b
    OBVIOUS
<1> HIDE DEF d
<1>8. CASE 0 <= d
  <2>1. x % R = d
    <3>1. d < R
        BY <1>1, <1>5
    <3>2. q - p \in Int
        OBVIOUS
    <3> QED BY <1>1, <1>5, <1>6, <1>8, <3>1, <3>2, RemainderUnique
  <2>2. ~(d >= R \div 2)
      BY <1>1, <1>5, <1>7
  <2> HIDE DEF x
  <2> QED BY <1>1, <1>5, <1>7, <1>10, <1>11, <2>1, <2>2
<1>9. CASE d < 0
  <2>1. x % R = d + R
    <3>1. 0 <= d + R /\ d + R < R /\ d + R \in Int
        BY <1>1, <1>5, <1>9
    <3>2. PICK k \in Int : k = q - p /\ x = R * k + d
        BY <1>6
    <3>3. R * (k - 1) = R * k - R /\ R * k \in Int
        BY <1>1, Z3
    <3>4. k - 1 \in Int /\ x = R * (k - 1) + (d + R)
        BY <1>1, <1>5, <3>2, <3>3
    <3> QED BY <1>1, <3>1, <3>4, RemainderUnique
  <2>2. d + R >= R \div 2
      BY <1>1, <1>5, <1>7
  <2> HIDE DEF x
  <2> QED BY <1>1, <1>5, <1>7, <1>10, <1>11, <2>1, <2>2
<1> QED BY <1>5, <1>8, <1>9


(* The tick of a pending timer, seen from the time of another or from the clock. *)
LEMMA NearTicks ==
    ASSUME NEW a \in Nat, NEW b \in Nat, NEW last \in Nat, NEW now \in Nat, now <= last + MaxLag,
           last < a, a <= now + Ahead, last < b, b <= now + Ahead
    PROVE  DIFF_TICK(a % TickRange, b % TickRange) = a - b
<1>1. a - b < MaxLag + Ahead
    BY TimeFacts
<1>2. b - a < MaxLag + Ahead
    BY TimeFacts
<1> QED BY <1>1, <1>2, TickDifference

(* What is added, put off or repeated is within reach, and the others stay as they are. *)
Unmoved(new, data, tid) == new[tid].tick = data[tid].tick /\ new[tid].due = data[tid].due

LEMMA ReachKept ==
    ASSUME NEW data, NEW heap, NEW last, NEW now, AllInReach(data, heap, last, now), NEW new, NEW left,
           \A tid \in left : (tid \in heap /\ Unmoved(new, data, tid)) \/ InReach(new[tid], last, now)
    PROVE  AllInReach(new, left, last, now)
BY DEF AllInReach, InReach, Unmoved

LEMMA AddedInReach ==
    ASSUME NEW data \in Seq(Timer), NEW tid \in 1 .. Len(data) + 1, NEW u \in Users, NEW due \in Nat,
           NEW new, new = WithTimer(data, tid, u, due), NEW last, NEW now, last < due, due <= now + Ahead
    PROVE  InReach(new[tid], last, now) /\ \A other \in DOMAIN data \ {tid} : Unmoved(new, data, other)
<1> DEFINE timer == [func |-> u, tick |-> due % TickRange, type |-> "once", due |-> due]
<1>1. due % TickRange \in Int
    BY TimeFacts
<1>2. timer \in Timer /\ timer.tick = due % TickRange /\ timer.due = due
    BY <1>1 DEF Timer
<1>3. new[tid] = timer
  <2>1. CASE tid \in DOMAIN data
    <3>1. new = [data EXCEPT ![tid] = timer]
        BY <2>1 DEF WithTimer
    <3> HIDE DEF timer
    <3> QED BY <1>2, <2>1, <3>1, SeqExcept
  <2>2. CASE tid \notin DOMAIN data
    <3>1. new = Append(data, timer) /\ tid = Len(data) + 1
        BY <2>2 DEF WithTimer
    <3> HIDE DEF timer
    <3> QED BY <1>2, <3>1, SeqAppend
  <2> QED BY <2>1, <2>2
<1>4. Added(new, data, tid, u)
    BY WithTimerEffect, Zenon
<1> HIDE DEF timer
<1> QED BY <1>2, <1>3, <1>4 DEF InReach, Added, Unmoved

LEMMA DueNatural == ASSUME TimerInv, NEW tid \in timer_heap PROVE timer_data[tid].due \in Nat /\ timer_data[tid].tick \in Int
<1>1. timer_data[tid] \in Timer
    BY IdsNatural DEF TimerInv, Ids
<1> QED BY <1>1 DEF Timer

LEMMA DeletedUnmoved ==
    ASSUME TimerInv, NEW u \in Users, handle[u] # NoTimer, NEW new, new = Deleted(handle[u], u), NEW tid \in timer_heap
    PROVE  Unmoved(new, timer_data, tid)
<1>1. timer_data \in Seq(Timer) /\ tid \in Ids
    BY IdsNatural DEF TimerInv
<1>2. timer_data[tid] \in Timer
    BY <1>1 DEF Ids
<1>3. CASE tid = handle[u] /\ SameFunc(tid, u)
  <2>1. new[tid] = [timer_data[tid] EXCEPT !.func = NoTimer, !.type = "once"]
      BY <1>1, <1>3 DEF Deleted, Ids
  <2> QED BY <1>2, <2>1 DEF Unmoved, Timer
<1>4. CASE tid # handle[u] \/ ~SameFunc(handle[u], u)
  <2>1. new[tid] = timer_data[tid]
      BY <1>1, <1>4 DEF Deleted, Ids
  <2> QED BY <2>1 DEF Unmoved
<1> QED BY <1>3, <1>4

LEMMA StartInReach == ASSUME TimerInv, RunInv, NEW u \in Users, Start(u) PROVE RunInv'
<1>1. PICK delay \in 1 .. MaxDelay : timer_data' = WithTimer(timer_data, Acquired, u, clock + delay)
    BY DEF Start
<1> DEFINE due == clock + delay
<1>2. /\ due \in Nat /\ timer_data \in Seq(Timer) /\ clock \in Nat /\ lastRun.at \in Nat
      /\ lastRun.at < due /\ due <= clock + Ahead
    BY TimeFacts DEF TimerInv, RunInv
<1>3. Acquired \in 1 .. Len(timer_data) + 1 /\ Acquired \notin timer_heap
    BY AcquiredFresh
<1>4. \A new : new = WithTimer(timer_data, Acquired, u, due) =>
          /\ InReach(new[Acquired], lastRun.at, clock)
          /\ \A other \in Ids \ {Acquired} : Unmoved(new, timer_data, other)
  <2> HIDE DEF due
  <2> QED BY <1>2, <1>3, AddedInReach, Zenon DEF Ids
<1>5. /\ InReach(timer_data'[Acquired], lastRun.at, clock)
      /\ \A other \in Ids \ {Acquired} : Unmoved(timer_data', timer_data, other)
    BY <1>1, <1>4, Zenon
<1>6. timer_heap' = timer_heap \cup {Acquired} /\ UNCHANGED <<clock, run, lastRun>>
    BY DEF Start
<1>7. AllInReach(timer_data', timer_heap', lastRun.at, clock)
    BY <1>3, <1>5, <1>6, ReachKept, IdsNatural DEF RunInv
<1> QED BY <1>6, <1>7 DEF RunInv

LEMMA StopInReach == ASSUME TimerInv, RunInv, NEW u \in Users, Stop(u) PROVE RunInv'
<1>1. handle[u] # NoTimer /\ timer_data' = Deleted(handle[u], u)
    BY DEF Stop
<1>2. \A tid \in timer_heap : Unmoved(timer_data', timer_data, tid)
    BY <1>1, DeletedUnmoved
<1>3. timer_heap' = timer_heap /\ UNCHANGED <<clock, run, lastRun>>
    BY DEF Stop
<1>4. AllInReach(timer_data', timer_heap', lastRun.at, clock)
    BY <1>2, <1>3, ReachKept DEF RunInv
<1> QED BY <1>3, <1>4 DEF RunInv

(* One timer is set to another time. *)
LEMMA RetimedInReach ==
    ASSUME TimerInv, NEW tid \in timer_heap, NEW last, NEW now, AllInReach(timer_data, timer_heap, last, now),
           NEW due \in Nat, last < due, due <= now + Ahead,
           NEW new, new = [timer_data EXCEPT ![tid].tick = due % TickRange, ![tid].due = due]
    PROVE  AllInReach(new, timer_heap, last, now)
<1>1. timer_data \in Seq(Timer) /\ tid \in Ids /\ timer_heap \subseteq Ids
    BY IdsNatural DEF TimerInv
<1>2. timer_data[tid] \in Timer
    BY <1>1 DEF Ids
<1>3. new[tid].tick = due % TickRange /\ new[tid].due = due
    BY <1>1, <1>2 DEF Ids, Timer
<1>4. \A other \in timer_heap \ {tid} : new[other] = timer_data[other]
    BY <1>1 DEF Ids
<1>5. InReach(new[tid], last, now)
    BY <1>3 DEF InReach
<1> QED BY <1>4, <1>5, ReachKept DEF Unmoved

LEMMA PutOffInReach == ASSUME TimerInv, RunInv, NEW e \in Events, PutOff(e) PROVE RunInv'
<1> DEFINE tid == handle[e]
           due == timer_data[tid].due
<1>1. tid \in timer_heap
    BY DEF PutOff, TimerInv, Own, Users
<1>2. due \in Nat /\ clock \in Nat /\ lastRun.at \in Nat
    BY <1>1, DueNatural DEF TimerInv, RunInv
<1>3. timer_data[tid].tick = due % TickRange /\ lastRun.at < due
    BY <1>1 DEF RunInv, AllInReach, InReach
<1>4. (timer_data[tid].tick + 1) % TickRange = (due + 1) % TickRange
    BY <1>2, <1>3, TimeFacts, NextTick
<1>5. due + 1 \in Nat /\ lastRun.at < due + 1 /\ due + 1 <= clock + Ahead
    BY <1>2, <1>3, TimeFacts DEF PutOff
<1>6. timer_data' = [timer_data EXCEPT ![tid].tick = (due + 1) % TickRange, ![tid].due = due + 1]
  <2>1. timer_data' = [timer_data EXCEPT ![tid].tick = (timer_data[tid].tick + 1) % TickRange, ![tid].due = due + 1]
      BY DEF PutOff
  <2> QED BY <1>4, <2>1
<1> HIDE DEF tid, due
<1>7. \A d \in Nat : \A new : d = due + 1 /\ new = [timer_data EXCEPT ![tid].tick = d % TickRange, ![tid].due = d] =>
          AllInReach(new, timer_heap, lastRun.at, clock)
    BY <1>1, <1>5, RetimedInReach DEF RunInv
<1>8. AllInReach(timer_data', timer_heap, lastRun.at, clock)
    BY <1>5, <1>6, <1>7
<1>9. timer_heap' = timer_heap /\ UNCHANGED <<clock, run, lastRun>>
    BY DEF PutOff
<1> QED BY <1>8, <1>9 DEF RunInv

(* As time passes, what is due comes nearer. *)
LEMMA PassInReach == ASSUME TimerInv, RunInv, Pass PROVE RunInv'
<1>1. PICK d \in 1 .. MaxLag : clock' = clock + d
    BY DEF Pass
<1>2. clock \in Nat /\ lastRun.at \in Nat /\ lastRun.at <= clock /\ Ahead \in Nat
    BY TimeFacts DEF TimerInv, RunInv
<1>3. clock' \in Nat /\ lastRun.at <= clock' /\ clock' <= lastRun.at + MaxLag
    BY <1>1, <1>2, TimeFacts DEF Pass
<1>4. \A tid \in timer_heap : timer_data[tid].due \in Nat
    BY DueNatural
<1>5. AllInReach(timer_data, timer_heap, lastRun.at, clock')
    BY <1>1, <1>2, <1>4 DEF RunInv, AllInReach, InReach
<1> QED BY <1>3, <1>5 DEF Pass, RunInv

LEMMA BeginInReach == ASSUME TimerInv, RunInv, BeginRun PROVE RunInv'
<1>1. run' = clock % TickRange /\ lastRun.at < clock
      /\ UNCHANGED <<clock, timer_data, timer_heap, lastRun>>
    BY DEF BeginRun, gettick, TimerInv, RunInv
<1> QED BY <1>1 DEF RunInv

----------------------------------------------------------------------------
(* Inside of do_timer. *)

(* What do_timer takes for expired is due, and the rest is not. *)
LEMMA ExpiredIsDue ==
    ASSUME TimerInv, RunInv, run # NoTimer, NEW tid \in timer_heap
    PROVE  Expired(tid) <=> timer_data[tid].due <= clock
<1>1. clock \in Nat /\ lastRun.at \in Nat /\ lastRun.at < clock /\ clock <= lastRun.at + MaxLag /\ Ahead \in Nat
    BY TimeFacts DEF TimerInv, RunInv
<1>2. timer_data[tid].due \in Nat
    BY DueNatural
<1>3. /\ timer_data[tid].tick = timer_data[tid].due % TickRange
      /\ lastRun.at < timer_data[tid].due /\ timer_data[tid].due <= clock + Ahead
    BY DEF RunInv, AllInReach, InReach
<1>4. run = clock % TickRange
    BY DEF RunInv
<1>5. clock <= clock + Ahead
    BY <1>1
<1>6. DIFF_TICK(timer_data[tid].due % TickRange, clock % TickRange) = timer_data[tid].due - clock
    BY <1>1, <1>2, <1>3, <1>5, NearTicks
<1> QED BY <1>1, <1>2, <1>3, <1>4, <1>6 DEF Expired

(* The timers are in the heap in the order in which they are due. *)
LEMMA TopIsFirst ==
    ASSUME TimerInv, RunInv, NEW tid \in timer_heap, \A other \in timer_heap : timer_data[tid].due <= timer_data[other].due
    PROVE  AtTop(tid)
<1>1. clock \in Nat /\ lastRun.at \in Nat /\ clock <= lastRun.at + MaxLag
    BY DEF TimerInv, RunInv
<1>2. \A t \in timer_heap :
          /\ timer_data[t].due \in Nat /\ timer_data[t].tick = timer_data[t].due % TickRange
          /\ lastRun.at < timer_data[t].due /\ timer_data[t].due <= clock + Ahead
    BY DueNatural DEF RunInv, AllInReach, InReach
<1>3. ASSUME NEW other \in timer_heap
      PROVE  DIFF_TICK(timer_data[tid].tick, timer_data[other].tick) = timer_data[tid].due - timer_data[other].due
    BY <1>1, <1>2, NearTicks
<1>4. \A other \in timer_heap : timer_data[tid].due - timer_data[other].due <= 0
    BY <1>2
<1> QED BY <1>3, <1>4 DEF AtTop

(* The time a callback is told is after the last do_timer and not to come. *)
LEMMA ToldInReach ==
    ASSUME TimerInv, RunInv, run # NoTimer, NEW tid \in timer_heap, Expired(tid)
    PROVE  TimeTold(tid) \in Nat /\ lastRun.at < TimeTold(tid) /\ TimeTold(tid) <= clock
<1>1. timer_data[tid].due <= clock
    BY ExpiredIsDue
<1>2. timer_data[tid].due \in Nat
    BY DueNatural
<1>3. clock \in Nat /\ lastRun.at < clock /\ lastRun.at < timer_data[tid].due
    BY DEF TimerInv, RunInv, AllInReach, InReach
<1> QED BY <1>1, <1>2, <1>3 DEF TimeTold

(* What leaves the heap is out of reach of nothing. *)
LEMMA SpentInReach ==
    ASSUME NEW data \in Seq(Timer), NEW heap, heap \subseteq DOMAIN data, NEW tid \in DOMAIN data,
           NEW last, NEW now, AllInReach(data, heap, last, now), NEW new, new = [data EXCEPT ![tid] = Spent]
    PROVE  AllInReach(new, heap \ {tid}, last, now)
<1>1. \A other \in DOMAIN data \ {tid} : new[other] = data[other]
    BY SpentEffect
<1> QED BY <1>1 DEF AllInReach

LEMMA ExpireDeletedInReach ==
    ASSUME TimerInv, RunInv, NEW tid \in timer_heap, ExpireDeleted(tid)
    PROVE  AllInReach(timer_data', timer_heap', lastRun.at, clock)
<1>1. timer_data \in Seq(Timer) /\ tid \in Ids /\ timer_heap \subseteq Ids
    BY IdsNatural DEF TimerInv
<1>2. \A new : new = [timer_data EXCEPT ![tid] = Spent] => AllInReach(new, timer_heap \ {tid}, lastRun.at, clock)
    BY <1>1, SpentInReach DEF Ids, RunInv
<1> QED BY <1>2 DEF ExpireDeleted

LEMMA RepeatInReach ==
    ASSUME TimerInv, RunInv, run # NoTimer, NEW tid \in timer_heap, Expired(tid), Repeat(tid)
    PROVE  AllInReach(timer_data', timer_heap', lastRun.at, clock)
<1> DEFINE next == IF IsLate(tid) THEN clock + Interval ELSE timer_data[tid].due + Interval
<1>1. TimeTold(tid) \in Nat /\ lastRun.at < TimeTold(tid) /\ TimeTold(tid) <= clock
    BY ToldInReach
<1>2. next = TimeTold(tid) + Interval
    BY DEF TimeTold
<1>3. clock \in Nat /\ lastRun.at \in Nat
    BY DEF TimerInv, RunInv
<1> HIDE DEF next
<1>4. next \in Nat /\ lastRun.at < next /\ next <= clock + Ahead
    BY <1>1, <1>2, <1>3, TimeFacts
<1>5. \A new : new = [timer_data EXCEPT ![tid].tick = next % TickRange, ![tid].due = next] =>
          AllInReach(new, timer_heap, lastRun.at, clock)
    BY <1>4, RetimedInReach DEF RunInv
<1>6. /\ timer_data' = [timer_data EXCEPT ![tid].tick = next % TickRange, ![tid].due = next]
      /\ timer_heap' = timer_heap
    BY DEF Repeat, next
<1> QED BY <1>5, <1>6

LEMMA CallbackInReach ==
    ASSUME TimerInv, RunInv, run # NoTimer, NEW tid \in timer_heap, Expired(tid), Callback(tid)
    PROVE  AllInReach(timer_data', timer_heap', lastRun.at, clock)
<1> DEFINE u == timer_data[tid].func
           freed == [timer_data EXCEPT ![tid] = Spent]
           Reached == AllInReach(timer_data', timer_heap', lastRun.at, clock)
<1>1. timer_data \in Seq(Timer) /\ tid \in Ids /\ timer_heap \subseteq Ids /\ u \in Users
    BY IdsNatural DEF TimerInv, Callback
<1>2. freed \in Seq(Timer) /\ DOMAIN freed = Ids
    BY <1>1, SpentEffect DEF Ids
<1>3. AllInReach(freed, timer_heap \ {tid}, lastRun.at, clock)
    BY <1>1, SpentInReach DEF Ids, RunInv
<1> HIDE DEF u, freed
<1>4. CASE timer_data' = freed /\ timer_heap' = timer_heap \ {tid}
    BY <1>3, <1>4
<1>5. CASE /\ \E delay \in 1 .. MaxDelay : timer_data' = WithTimer(freed, Acquired, u, TimeTold(tid) + delay)
           /\ timer_heap' = (timer_heap \ {tid}) \cup {Acquired}
  <2>1. PICK delay \in 1 .. MaxDelay : timer_data' = WithTimer(freed, Acquired, u, TimeTold(tid) + delay)
      BY <1>5
  <2> DEFINE due == TimeTold(tid) + delay
  <2>2. due \in Nat /\ lastRun.at < due /\ due <= clock + Ahead
    <3>1. TimeTold(tid) \in Nat /\ lastRun.at < TimeTold(tid) /\ TimeTold(tid) <= clock
        BY ToldInReach
    <3>2. clock \in Nat /\ lastRun.at \in Nat
        BY DEF TimerInv, RunInv
    <3> QED BY <3>1, <3>2, TimeFacts
  <2>3. Acquired \in 1 .. Len(freed) + 1 /\ Acquired \notin timer_heap
    <3>1. Len(freed) = Len(timer_data)
        BY <1>1, <1>2 DEF Ids
    <3> QED BY <3>1, AcquiredFresh
  <2> HIDE DEF due
  <2>4. \A new : new = WithTimer(freed, Acquired, u, due) =>
            /\ InReach(new[Acquired], lastRun.at, clock)
            /\ \A other \in Ids \ {Acquired} : Unmoved(new, freed, other)
      BY <1>1, <1>2, <2>2, <2>3, AddedInReach, Zenon
  <2>5. /\ InReach(timer_data'[Acquired], lastRun.at, clock)
        /\ \A other \in Ids \ {Acquired} : Unmoved(timer_data', freed, other)
      BY <2>1, <2>4, Zenon DEF due
  <2> QED BY <1>1, <1>3, <1>5, <2>3, <2>5, ReachKept
<1>6. CASE \E other \in Users \ {u} :
             /\ handle[other] # NoTimer
             /\ timer_data' = [Deleted(handle[other], other) EXCEPT ![tid] = Spent]
             /\ timer_heap' = timer_heap \ {tid}
  <2>1. PICK other \in Users \ {u} :
             /\ handle[other] # NoTimer
             /\ timer_data' = [Deleted(handle[other], other) EXCEPT ![tid] = Spent]
      BY <1>6
  <2> DEFINE data == Deleted(handle[other], other)
  <2>2. data \in Seq(Timer) /\ DOMAIN data = Ids
      BY <2>1, DeletedEffect
  <2>3. \A t \in timer_heap : Unmoved(data, timer_data, t)
      BY <2>1, DeletedUnmoved
  <2>4. timer_data' = [data EXCEPT ![tid] = Spent]
      BY <2>1
  <2> HIDE DEF data
  <2>5. AllInReach(data, timer_heap, lastRun.at, clock)
      BY <2>3, ReachKept DEF RunInv
  <2>6. \A new : new = [data EXCEPT ![tid] = Spent] => AllInReach(new, timer_heap \ {tid}, lastRun.at, clock)
      BY <1>1, <2>2, <2>5, SpentInReach
  <2> QED BY <1>6, <2>4, <2>6
<1> QED BY <1>4, <1>5, <1>6 DEF Callback, u, freed

LEMMA RunTopInReach == ASSUME TimerInv, RunInv, RunTop PROVE RunInv'
<1>1. run # NoTimer /\ UNCHANGED <<clock, run>>
    BY DEF RunTop
<1>2. PICK tid \in timer_heap :
          Expired(tid) /\ (ExpireDeleted(tid) \/ Callback(tid) \/ Repeat(tid)) /\ Ran(tid)
    BY DEF RunTop
<1>3. AllInReach(timer_data', timer_heap', lastRun.at, clock)
    BY <1>1, <1>2, ExpireDeletedInReach, CallbackInReach, RepeatInReach
<1>4. lastRun' = lastRun
  <2>1. timer_data[tid].due <= clock /\ timer_data[tid].due \in Nat /\ clock \in Nat
      BY <1>1, <1>2, ExpiredIsDue, DueNatural DEF TimerInv
  <2>2. ~(timer_data[tid].due > clock)
      BY <2>1
  <2>3. lastRun \in [at : Nat, early : {FALSE}]
      BY DEF RunInv
  <2>4. lastRun' = [lastRun EXCEPT !.early = FALSE]
      BY <1>2, <2>2, <2>3 DEF Ran
  <2> QED BY <2>3, <2>4
<1> QED BY <1>1, <1>3, <1>4 DEF RunInv

(* do_timer goes on until the first timer is not due, so until none is. *)
LEMMA EndRunLeavesNone ==
    ASSUME TimerInv, RunInv, EndRun
    PROVE  \A tid \in timer_heap : clock < timer_data[tid].due
<1> SUFFICES ASSUME NEW late \in timer_heap PROVE clock < timer_data[late].due
    OBVIOUS
<1> DEFINE dues == {timer_data[t].due : t \in timer_heap}
<1>1. dues \subseteq Nat /\ timer_data[late].due \in dues /\ clock \in Nat
    BY DueNatural DEF TimerInv
<1>2. PICK first \in dues : \A d \in dues : first <= d
    BY <1>1, LeastNatural
<1>3. PICK tid \in timer_heap : timer_data[tid].due = first
    BY <1>2
<1>4. AtTop(tid)
    BY <1>2, <1>3, TopIsFirst
<1>5. ~Expired(tid) /\ run # NoTimer
    BY <1>4 DEF EndRun
<1>6. ~(first <= clock)
    BY <1>3, <1>5, ExpiredIsDue
<1>7. first \in Nat /\ first <= timer_data[late].due
    BY <1>1, <1>2
<1> HIDE DEF dues
<1> QED BY <1>1, <1>6, <1>7, DueNatural

LEMMA EndRunInReach == ASSUME TimerInv, RunInv, EndRun PROVE RunInv'
<1>1. \A tid \in timer_heap : clock < timer_data[tid].due
    BY EndRunLeavesNone
<1>2. lastRun \in [at : Nat, early : {FALSE}] /\ clock \in Nat
    BY DEF RunInv, TimerInv
<1>3. /\ lastRun' = [lastRun EXCEPT !.at = clock] /\ run' = NoTimer
      /\ UNCHANGED <<clock, timer_data, timer_heap>>
    BY DEF EndRun
<1>4. lastRun' \in [at : Nat, early : {FALSE}] /\ lastRun'.at = clock
    BY <1>2, <1>3
<1>5. clock <= clock /\ clock <= clock + MaxLag
    BY <1>2, TimeFacts
<1>6. AllInReach(timer_data, timer_heap, clock, clock)
    BY <1>1 DEF RunInv, AllInReach, InReach
<1> QED BY <1>3, <1>4, <1>5, <1>6 DEF RunInv

LEMMA RunStep == TimerInv /\ RunInv /\ [TimerNext]_timerVars => RunInv'
<1> SUFFICES ASSUME TimerInv, RunInv, [TimerNext]_timerVars PROVE RunInv'
    OBVIOUS
<1>1. CASE UNCHANGED timerVars
    BY <1>1 DEF timerVars, RunInv
<1> QED BY <1>1, PassInReach, BeginInReach, RunTopInReach, EndRunInReach, StartInReach, StopInReach, PutOffInReach
        DEF TimerNext

LEMMA RunInitInv == TimerInit => RunInv
<1> SUFFICES ASSUME TimerInit PROVE RunInv
    OBVIOUS
<1>1. timer_data[1].tick = 1 /\ timer_data[1].due = 1 /\ timer_heap = {1} /\ lastRun = [at |-> 0, early |-> FALSE]
      /\ clock = 0 /\ run = NoTimer
    BY DEF TimerInit
<1>2. 1 % TickRange = 1
  <2>1. TickRange \in Nat /\ TickRange > 0 /\ 1 < TickRange /\ 1 = TickRange * 0 + 1
      BY TimeFacts
  <2> QED BY <2>1, RemainderUnique
<1>3. AllInReach(timer_data, timer_heap, 0, 0)
    BY <1>1, <1>2, TimeFacts DEF AllInReach, InReach
<1> QED BY <1>1, <1>3, TimeFacts DEF RunInv

(* Across any number of wraps of the tick, and with do_timer called up to MaxLag late, no timer runs
   before its time, and when do_timer returns (timer.c 345-397) none is left whose time has come. *)
THEOREM TimersRunInTime == TimerSpec => []TimersInTime
<1>1. TimerInv /\ RunInv => TimersInTime
    BY DEF RunInv, AllInReach, InReach, TimersInTime
<1> QED BY <1>1, TimerInvariant, RunInitInv, RunStep, PTL DEF TimerSpec

-----------------------------------------------------------------------------
(***************************************************************************)
(* Files that replace themselves.                                          *)
(*                                                                         *)
(* What was saved survives every kill, for any entries and any number of   *)
(* temporary files.                                                        *)
(*                                                                         *)
(* The property does not follow from itself: a save may remove the only    *)
(* backup of a program that started empty.  The argument is that an entry  *)
(* that was saved is either in the file itself (or, between the two        *)
(* renames, in the temporary file that is about to be the file), or in a   *)
(* temporary file that an earlier kill left behind and that no save will   *)
(* touch again.                                                            *)
(***************************************************************************)

Temporary(n) == n \in 1 .. MaxTmp
Abandoned(n) == Temporary(n) /\ (phase = "idle" \/ n # info)
InAbandoned(e) == \E n \in 1 .. MaxTmp : Abandoned(n) /\ Whole(n) /\ e \in disk[n]
InFile(e) == \/ phase # "backed" /\ Whole(File) /\ e \in disk[File]
             \/ phase = "backed" /\ e \in content

(* The state of a save agrees with the disk. *)
SaveOK ==
    /\ phase # "idle" => Runs
    /\ phase \in {"written", "unbacked", "backed"} => disk[info] = content
    /\ disk[File] # Torn
    /\ phase = "backed" => disk[File] = Missing

(* The program that runs has what its file has. *)
LoadedOK == Runs /\ Whole(File) => disk[File] \subseteq content

(* Until a kill between the renames all that was saved is in the file; after one, a program that
   needs its file does not start. *)
StruckOK ==
    /\ ~struck => /\ \A e \in saved : InFile(e)
                  /\ phase # "backed" => Whole(File)
    /\ struck /\ kind = "accounts" => ~Runs /\ disk[File] = Missing

LockInv ==
    /\ LockTypeOK
    /\ SaveOK
    /\ LoadedOK
    /\ StruckOK
    /\ \A e \in saved : InAbandoned(e) \/ InFile(e)

LEMMA NamesApart ==
    /\ File \in Names /\ Backup \in Names /\ File # Backup
    /\ \A n \in 1 .. MaxTmp : n \in Names /\ n # File /\ n # Backup
BY LockAssumption DEF Names, File, Backup

(* lock_fopen never takes a number that has a file. *)
LEMMA FreeTmpUnused ==
    ASSUME Unused # {}
    PROVE  FreeTmp \in 1 .. MaxTmp /\ disk[FreeTmp] = Missing
<1>1. Unused \subseteq Nat
    BY DEF Unused
<1>2. \E n \in Unused : \A other \in Unused : n <= other
    BY <1>1, LeastNatural
<1>3. FreeTmp \in Unused
    BY <1>2 DEF FreeTmp
<1> QED BY <1>3 DEF Unused

LEMMA LockInitInv == LockInit => LockInv
<1> SUFFICES ASSUME LockInit PROVE LockInv
    OBVIOUS
<1>1. disk[File] = {} /\ Whole(File)
    BY NamesApart, LockAssumption DEF LockInit, Whole
<1>2. LockTypeOK
  <2>1. disk \in [Names -> (SUBSET Entries) \cup {Missing, Torn}]
      BY DEF LockInit
  <2>2. 1 \in 1 .. MaxTmp
      BY LockAssumption
  <2> QED BY <2>1, <2>2 DEF LockInit, LockTypeOK
<1>3. SaveOK /\ LoadedOK
    BY <1>1 DEF LockInit, SaveOK, LoadedOK, Whole
<1>4. StruckOK
    BY <1>1 DEF LockInit, StruckOK
<1> QED BY <1>2, <1>3, <1>4 DEF LockInit, LockInv

(* Enough for what survives, whatever phase the save is in. *)
LEMMA InvSurvives == LockInv => SavesSurvive
<1> SUFFICES ASSUME LockInv PROVE SavesSurvive
    OBVIOUS
<1>1. ASSUME NEW e \in saved PROVE \E f \in Names : Whole(f) /\ e \in disk[f]
  <2>1. CASE InAbandoned(e)
      BY <2>1, NamesApart DEF InAbandoned
  <2>2. CASE phase # "backed" /\ InFile(e)
      BY <2>2, NamesApart DEF InFile
  <2>3. CASE phase = "backed" /\ InFile(e)
    <3>1. info \in Names /\ disk[info] = content /\ e \in content /\ Runs
        BY <2>3, NamesApart DEF LockInv, LockTypeOK, SaveOK, InFile
    <3>2. Whole(info)
        BY <3>1, LockAssumption DEF Whole, Runs, LockInv, LockTypeOK
    <3> QED BY <3>1, <3>2
  <2> QED BY <1>1, <2>1, <2>2, <2>3 DEF LockInv
<1>2. ASSUME Runs, ~(kind = "mapreg" /\ struck) PROVE saved \subseteq content
  <2>1. ~struck
      BY <1>2 DEF LockInv, StruckOK, LockTypeOK
  <2> QED BY <1>2, <2>1 DEF LockInv, StruckOK, LoadedOK, InFile
<1> QED BY <1>1, <1>2 DEF SavesSurvive

LEMMA LockStep == LockInv /\ [LockNext]_lockVars => LockInv'
<1> SUFFICES ASSUME LockInv, [LockNext]_lockVars PROVE LockInv'
    OBVIOUS
<1> USE DEF LockInv, Runs, Goes
<1>1. CASE Change
  <2>1. LockTypeOK' /\ SaveOK' /\ LoadedOK' /\ StruckOK'
      BY <1>1, LockAssumption DEF Change, LockTypeOK, SaveOK, LoadedOK, StruckOK, Whole, InFile
  <2> QED BY <1>1, <2>1 DEF Change, InAbandoned, Abandoned, Temporary, Whole, InFile
<1>2. CASE lock_fopen
  <2>1. FreeTmp \in 1 .. MaxTmp /\ FreeTmp \in Names /\ FreeTmp # File /\ disk[FreeTmp] = Missing
      BY <1>2, FreeTmpUnused, NamesApart DEF lock_fopen
  <2>2. LockTypeOK' /\ SaveOK' /\ LoadedOK' /\ StruckOK'
      BY <1>2, <2>1, NamesApart DEF lock_fopen, LockTypeOK, SaveOK, LoadedOK, StruckOK, Whole, InFile
  <2>3. \A e : InFile(e) => InFile(e)'
      BY <1>2, <2>1, NamesApart DEF lock_fopen, LockTypeOK, Whole, InFile
  <2>4. \A e : InAbandoned(e) => InAbandoned(e)'
      BY <1>2, <2>1, NamesApart DEF lock_fopen, LockTypeOK, InAbandoned, Abandoned, Temporary, Whole
  <2> QED BY <1>2, <2>2, <2>3, <2>4 DEF lock_fopen
<1>3. CASE CloseTmp
  <2>1. LockTypeOK' /\ SaveOK' /\ LoadedOK' /\ StruckOK'
      BY <1>3, NamesApart DEF CloseTmp, LockTypeOK, SaveOK, LoadedOK, StruckOK, Whole, InFile
  <2>2. \A e : (InFile(e) => InFile(e)') /\ (InAbandoned(e) => InAbandoned(e)')
      BY <1>3, NamesApart DEF CloseTmp, LockTypeOK, InAbandoned, Abandoned, Temporary, Whole, InFile
  <2> QED BY <1>3, <2>1, <2>2 DEF CloseTmp
<1>4. CASE RemoveBackup
  <2>1. LockTypeOK' /\ SaveOK' /\ LoadedOK' /\ StruckOK'
      BY <1>4, NamesApart DEF RemoveBackup, LockTypeOK, SaveOK, LoadedOK, StruckOK, Whole, InFile
  <2>2. \A e : (InFile(e) => InFile(e)') /\ (InAbandoned(e) => InAbandoned(e)')
      BY <1>4, NamesApart DEF RemoveBackup, LockTypeOK, InAbandoned, Abandoned, Temporary, Whole, InFile
  <2> QED BY <1>4, <2>1, <2>2 DEF RemoveBackup
<1>5. CASE RenameFile
  <2>1. \A e : (InFile(e) => InFile(e)') /\ (InAbandoned(e) => InAbandoned(e)')
      BY <1>5, NamesApart DEF RenameFile, LockTypeOK, LoadedOK, InAbandoned, Abandoned, Temporary, Whole, InFile
  <2>2. LockTypeOK'
      BY <1>5, NamesApart DEF RenameFile, LockTypeOK
  <2>3. disk'[File] = Missing /\ disk'[info] = disk[info]
      BY <1>5, NamesApart DEF RenameFile, LockTypeOK
  <2>4. SaveOK' /\ LoadedOK'
      BY <1>5, <2>3, LockAssumption DEF RenameFile, SaveOK, LoadedOK, Whole
  <2>5. StruckOK'
      BY <1>5, <2>1 DEF RenameFile, StruckOK
  <2> QED BY <1>5, <2>1, <2>2, <2>4, <2>5 DEF RenameFile
<1>6. CASE RenameTmp
  <2>1. disk'[File] = content /\ content \in SUBSET Entries /\ disk' = [disk EXCEPT ![File] = content, ![info] = Missing]
      BY <1>6, NamesApart DEF RenameTmp, LockTypeOK, SaveOK
  <2>2. Whole(File)'
      BY <2>1, LockAssumption DEF Whole
  <2>3. \A e \in saved' : InAbandoned(e)' \/ InFile(e)'
    <3>1. \A e \in content : InFile(e)'
        BY <1>6, <2>1, <2>2 DEF RenameTmp, InFile
    <3>2. \A e : InAbandoned(e) => InAbandoned(e)'
        BY <1>6, <2>1, NamesApart DEF RenameTmp, LockTypeOK, InAbandoned, Abandoned, Temporary, Whole
    <3> QED BY <1>6, <3>1, <3>2 DEF RenameTmp, InFile
  <2>4. LockTypeOK' /\ SaveOK' /\ LoadedOK'
      BY <1>6, <2>1, <2>2, NamesApart, LockAssumption DEF RenameTmp, LockTypeOK, SaveOK, LoadedOK, Whole
  <2>5. StruckOK'
    <3>1. ~struck => \A e \in saved \cup content : InFile(e)'
        BY <1>6, <2>1, <2>2 DEF RenameTmp, StruckOK, InFile
    <3> QED BY <1>6, <2>2, <3>1 DEF RenameTmp, StruckOK
  <2> QED BY <2>3, <2>4, <2>5
<1>7. CASE Killed
  <2>1. \A e \in content : phase = "backed" => InAbandoned(e)'
      BY <1>7, NamesApart, LockAssumption DEF Killed, LockTypeOK, SaveOK, InAbandoned, Abandoned, Temporary, Whole
  <2>2. \A e : phase # "backed" /\ InFile(e) => InFile(e)'
      BY <1>7 DEF Killed, InFile, Whole
  <2>3. \A e : InAbandoned(e) => InAbandoned(e)'
      BY <1>7 DEF Killed, InAbandoned, Abandoned, Temporary, Whole
  <2>4. \A e \in saved' : InAbandoned(e)' \/ InFile(e)'
      BY <1>7, <2>1, <2>2, <2>3 DEF Killed, InFile
  <2>5. LockTypeOK' /\ SaveOK' /\ LoadedOK'
      BY <1>7 DEF Killed, LockTypeOK, SaveOK, LoadedOK, Whole
  <2>6. StruckOK'
      BY <1>7, <2>2 DEF Killed, StruckOK, SaveOK, Whole
  <2> QED BY <2>4, <2>5, <2>6
<1>8. CASE Restart
  <2>1. LockTypeOK' /\ SaveOK' /\ LoadedOK' /\ StruckOK'
      BY <1>8, NamesApart, LockAssumption
         DEF Restart, LockTypeOK, SaveOK, LoadedOK, StruckOK, InFile, Whole, StartsWithout
  <2>2. \A e : (phase # "backed" /\ InFile(e) => InFile(e)') /\ (InAbandoned(e) => InAbandoned(e)')
      BY <1>8 DEF Restart, InAbandoned, Abandoned, Temporary, Whole, InFile
  <2> QED BY <1>8, <2>1, <2>2 DEF Restart, SaveOK
<1>9. CASE UNCHANGED lockVars
    BY <1>9 DEF lockVars, LockTypeOK, SaveOK, LoadedOK, StruckOK, InAbandoned, Abandoned, Temporary, Whole, InFile
<1> QED BY <1>1, <1>2, <1>3, <1>4, <1>5, <1>6, <1>7, <1>8, <1>9 DEF LockNext

(* The invariant the theorem rests on: where every saved entry is at each phase of a save. *)
THEOREM LockInvariant == LockSpec => []LockInv
BY LockInitInv, LockStep, PTL DEF LockSpec

(* Whenever the text tables' program is killed, what was saved is still whole in some file, and
   the program that runs has it in memory, unless it starts without its file (common/lock.c). *)
THEOREM SavesSurviveKills == LockSpec => []SavesSurvive
BY LockInvariant, InvSurvives, PTL
=============================================================================
