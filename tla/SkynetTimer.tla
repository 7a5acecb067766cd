---------------------------- MODULE SkynetTimer -----------------------------
(***************************************************************************)
(* The timer wheel of skynet_timer.c.  The wheel has near, with one list   *)
(* for each of the next ticks, and four levels t[0..3] of coarser lists;   *)
(* timer_shift moves one list down whenever the time enters its range.     *)
(* The widths are parameters; as in the code the levels use up the bits of *)
(* the time, which wraps (there 8 + 4 * 6 = 32 bits).                      *)
(*                                                                         *)
(* The timer thread holds T->lock except while it dispatches a list, so    *)
(* what it does between two dispatches is one step; services add timers    *)
(* in between.                                                             *)
(***************************************************************************)
EXTENDS Integers, Sequences, SequencesExt

CONSTANTS NearShift,   \* TIME_NEAR_SHIFT
          LevelShift,  \* TIME_LEVEL_SHIFT
          Timers,      \* sessions that may wait for a timeout at one time
          Delays,      \* arguments of skynet_timeout
          Jumps        \* ticks the clock moves between two looks at it

Near   == 2 ^ NearShift
Level  == 2 ^ LevelShift
Levels == 0..3
TimeMod == 2 ^ (NearShift + 4 * LevelShift)

(* time is an int: half the range of the uint32_t T->time.                 *)
TimerAssumption ==
  /\ NearShift \in Nat \ {0} /\ LevelShift \in Nat \ {0}
  /\ Delays \subseteq Int /\ \A d \in Delays : d < TimeMod \div 2
  /\ Jumps \subseteq Nat \ {0}

VARIABLES near,     \* T->near
          t,        \* T->t
          time,     \* T->time
          current,  \* the list dispatch_list is walking
          pc,       \* where the timer thread is
          todo,     \* iterations skynet_updatetime still has to do
          rem,      \* ticks until each armed timer is due, -1 when it is overdue
          order     \* the armed timers, in the order they were set

vars == <<near, t, time, current, pc, todo, rem, order>>

Node == [id : Timers, expire : 0..(TimeMod - 1)]
Armed == {order[i] : i \in DOMAIN order}

Init ==
  /\ near = [i \in 0..(Near - 1) |-> << >>]
  /\ t = [l \in Levels |-> [j \in 0..(Level - 1) |-> << >>]]
  /\ time = 0
  /\ current = << >>
  /\ pc = "idle"
  /\ todo = 0
  /\ rem = [x \in Timers |-> 0]
  /\ order = << >>

-----------------------------------------------------------------------------
(* The wheel.  (a | (2^k - 1)) = (b | (2^k - 1)) says that a and b agree    *)
(* above their k lowest bits.                                              *)

Wheel == [near |-> near, t |-> t]

Agree(a, b, k) == a \div 2 ^ k = b \div 2 ^ k
Shift(l) == NearShift + l * LevelShift
Index(time_, l) == (time_ \div 2 ^ Shift(l)) % Level

LevelOf(expire, now) ==
  CHOOSE l \in Levels :
    /\ l = 3 \/ Agree(expire, now, Shift(l + 1))
    /\ \A k \in Levels : k < l => ~Agree(expire, now, Shift(k + 1))

add_node(w, node, now) ==
  LET l == LevelOf(node.expire, now) IN
  IF Agree(node.expire, now, NearShift)
  THEN [w EXCEPT !.near[node.expire % Near] = Append(@, node)]
  ELSE [w EXCEPT !.t[l][Index(node.expire, l)] = Append(@, node)]

(* Variants: only the first node is moved; the list is moved back to front.*)
move_list_First(w, l, j, now) ==
  IF w.t[l][j] = << >> THEN w
  ELSE add_node([w EXCEPT !.t[l][j] = << >>], Head(w.t[l][j]), now)

move_list_Reversed(w, l, j, now) ==
  FoldLeft(LAMBDA v, node : add_node(v, node, now),
           [w EXCEPT !.t[l][j] = << >>], Reverse(w.t[l][j]))

move_list(w, l, j, now) ==
  FoldLeft(LAMBDA v, node : add_node(v, node, now),
           [w EXCEPT !.t[l][j] = << >>], w.t[l][j])

(* Variant: the wrap of T->time is not treated apart.                      *)
timer_shift_NoWrap(w, now) ==
  IF now % Near = 0 /\ now # 0
  THEN LET l == CHOOSE l \in Levels :
                  /\ Index(now, l) # 0
                  /\ \A k \in Levels : k < l => Index(now, k) = 0
       IN  move_list(w, l, Index(now, l), now)
  ELSE w

(* The lists whose range the new time now enters.                          *)
timer_shift(w, now) ==
  IF now = 0 THEN move_list(w, 3, 0, now)
  ELSE IF now % Near = 0
  THEN LET l == CHOOSE l \in Levels :
                  /\ Index(now, l) # 0
                  /\ \A k \in Levels : k < l => Index(now, k) = 0
       IN  move_list(w, l, Index(now, l), now)
  ELSE w

-----------------------------------------------------------------------------
(* skynet_timeout with a positive time; otherwise the answer is pushed at  *)
(* once and the timer is not involved.                                     *)
skynet_timeout(x, d) ==
  /\ x \notin Armed
  /\ d \in Delays
  /\ d > 0
  /\ LET w == add_node(Wheel, [id |-> x, expire |-> (d + time) % TimeMod], time)
     IN  near' = w.near /\ t' = w.t
  /\ rem' = [rem EXCEPT ![x] = d]
  /\ order' = Append(order, x)
  /\ UNCHANGED <<time, current, pc, todo>>

(* skynet_updatetime: the clock moved on by d ticks.  If it stood still or *)
(* went back there is nothing to do but to remember it.                    *)
skynet_updatetime(d) ==
  /\ pc = "idle"
  /\ todo' = d
  /\ pc' = "update"
  /\ UNCHANGED <<near, t, time, current, rem, order>>

(* The end of one timer_update.                                            *)
NextUpdate ==
  /\ todo' = todo - 1
  /\ pc' = IF todo = 1 THEN "idle" ELSE "update"

(* timer_execute finds a list that is due and takes it.                    *)
TakeDue(l) ==
  /\ current' = near[time % Near]
  /\ near' = [near EXCEPT ![time % Near] = << >>]
  /\ pc' = l

(* timer_update up to its first unlock: if the first timer_execute has     *)
(* something to do, only that; else timer_shift, and taking the list that  *)
(* has become due.                                                         *)
timer_update ==
  LET now == (time + 1) % TimeMod
      w   == timer_shift(Wheel, now)
      due == w.near[now % Near]
  IN
  /\ pc = "update"
  /\ IF near[time % Near] # << >>
     THEN TakeDue("early") /\ UNCHANGED <<t, time, todo, rem>>
     ELSE /\ time' = now
          /\ t' = w.t
          /\ near' = [w.near EXCEPT ![now % Near] = << >>]
          /\ current' = due
          /\ \/ due # << >> /\ pc' = "dispatch" /\ UNCHANGED todo
             \/ due = << >> /\ NextUpdate
          /\ rem' = [x \in Timers |->
                       IF x \in Armed /\ rem[x] >= 0 THEN rem[x] - 1 ELSE rem[x]]
  /\ UNCHANGED order

(* dispatch_list pushes the answer of the first node left, without lock.   *)
dispatch_list ==
  /\ current # << >>
  /\ current' = Tail(current)
  /\ order' = SelectSeq(order, LAMBDA x : x # Head(current).id)
  /\ UNCHANGED <<near, t, time, pc, todo, rem>>

(* Variant: the loop of timer_execute is not left.                         *)
timer_execute_NoExit ==
  /\ pc \in {"early", "dispatch"}
  /\ current = << >>
  /\ IF near[time % Near] # << >> THEN TakeDue(pc) ELSE UNCHANGED <<near, current, pc>>
  /\ UNCHANGED <<t, time, todo, rem, order>>

(* timer_execute has the lock again and looks once more.                   *)
timer_execute ==
  /\ pc \in {"early", "dispatch"}
  /\ current = << >>
  /\ IF near[time % Near] # << >> THEN TakeDue(pc) /\ UNCHANGED todo
     ELSE /\ IF pc = "early" THEN pc' = "update" /\ UNCHANGED todo ELSE NextUpdate
          /\ UNCHANGED <<near, current>>
  /\ UNCHANGED <<t, time, rem, order>>

thread_timer ==
  timer_update \/ dispatch_list \/ timer_execute \/ \E d \in Jumps : skynet_updatetime(d)

Next ==
  thread_timer \/ \E x \in Timers, d \in Delays : skynet_timeout(x, d)

Spec == Init /\ [][Next]_vars

(* The timer thread runs and the clock goes on.                            *)
FairSpec == Spec /\ WF_vars(thread_timer)
-----------------------------------------------------------------------------
Nodes(list) == {list[i] : i \in DOMAIN list}

(* Every list of the wheel, and the one being dispatched.                  *)
Lists ==
  {near[i] : i \in 0..(Near - 1)}
    \cup {t[l][j] : l \in Levels, j \in 0..(Level - 1)} \cup {current}

Waiting == UNION {Nodes(list) : list \in Lists}

(* The types of the wheel: an expire time fits in the width of T->time.    *)
TypeOK ==
  /\ near \in [0..(Near - 1) -> Seq(Node)]
  /\ t \in [Levels -> [0..(Level - 1) -> Seq(Node)]]
  /\ time \in 0..(TimeMod - 1)
  /\ current \in Seq(Node)
  /\ pc \in {"idle", "update", "early", "dispatch"}
  /\ todo \in Nat
  /\ rem \in [Timers -> -1..(TimeMod \div 2)]
  /\ order \in Seq(Timers)

(* No timer is dropped or duplicated while lists move through the levels,  *)
(* and each keeps its due time: the timers that wait in the wheel are the  *)
(* armed ones, each with the expire that is rem ticks ahead, across the    *)
(* wrap of T->time.                                                        *)
NothingLost ==
  /\ TypeOK
  /\ {node.id : node \in Waiting} = Armed
  /\ \A node \in Waiting : node.expire = (time + rem[node.id]) % TimeMod

(* A timeout is answered in the tick it is due: not before, and the time   *)
(* does not move on before it was.                                         *)
OnTime ==
  /\ \A node \in Nodes(current) : rem[node.id] = 0
  /\ \A x \in Armed : rem[x] <= 0 => \E node \in Nodes(current) : node.id = x

(* Timers due in one tick are answered in the order they were set, however *)
(* far ahead each of them was set.                                         *)
InSetOrder ==
  \A i \in DOMAIN order :
    order[i] \notin {order'[j] : j \in DOMAIN order'} =>
      \A k \in 1..(i - 1) : rem[order[k]] # rem[order[i]]

SetOrder == [][InSetOrder]_vars

(* Every timeout is answered.                                              *)
Answered == \A x \in Timers : x \in Armed ~> x \notin Armed
=============================================================================
