------------------------- MODULE AudioThreadsProofs -------------------------
(***************************************************************************)
(* ThreadsSafe for every packet interval, every lag and any number of      *)
(* calls and of changes of the remote source.                              *)
(*                                                                         *)
(* The mutexes do not protect what they should: psp_cond_wait gives back   *)
(* a mutex it does not hold.  What protects the threads is the priorities  *)
(* (a thread that could run is not overtaken by a less urgent one) and the *)
(* order in which rtpAudioSetup and rtpAudioStop do things.  The invariant *)
(* says who holds sched->lock, how far CallThread is when there is a       *)
(* session, a list entry or a thread, and that no flag is left over.       *)
(***************************************************************************)
EXTENDS AudioThreads, TLAPS

Places == AudioPlaces \cup SchedPlaces \cup CallPlaces \cup MainPlaces

Types == pc \in [Threads -> Places] /\ TypeOK

\* sched->lock is held by the scheduler, by CallThread or by main, and by one of them.
SchedHolds == pc["sched"] \in {"signal", "walk", "enter", "check", "leave", "end"}
CallHolds  == pc["call"] \in {"added", "removed"}

ListLock ==
    /\ sem["list"] = 0 <=> SchedHolds \/ CallHolds \/ pc["main"] = "spawn"
    /\ ~(SchedHolds /\ CallHolds)
    /\ pc["main"] = "spawn" => ~SchedHolds /\ ~CallHolds

\* The lock of a wait point may be given back too early, but is never left taken.
PointLock ==
    \A t \in Audio :
        sem[t] = 0 => \/ pc["sched"] \in {"check", "leave"} /\ visit = t
                      \/ pc[t] \in {"check", "leave"}

\* How far CallThread is.
Phases ==
    /\ pc["main"] # "up" => pc["call"] = "idle"
    /\ session = "alive" <=> pc["call"] # "idle"
    /\ listed <=> pc["call"] \in {"added", "spawn_recv", "spawn_send", "incall", "kill_recv", "remove"}
    /\ pc["sched"] \in {"enter", "check", "leave"} => listed
    /\ pc["recv"] # "dead" => pc["call"] \in {"spawn_send", "incall", "kill_recv"}
    /\ pc["send"] # "dead" => pc["call"] = "incall"

\* No wake-up is pending but for a thread asleep, and none comes before its time.
NothingPends(t) == ~wp[t].wakeup /\ flag[t] = 0

OnTime ==
    \A t \in Audio :
        /\ pc[t] = "asleep" => /\ due[t] <= wp[t].left
                               /\ flag[t] = 1 => ~wp[t].wakeup /\ due[t] <= 0
        /\ pc[t] \notin {"asleep", "dead"} => NothingPends(t)
        /\ pc[t] \in {"woken", "leave"} => due[t] <= 0
        /\ pc["call"] \in {"add", "added", "spawn_recv"} => NothingPends(t)
        /\ pc["call"] = "spawn_send" /\ t = "send" => NothingPends(t)

ThreadsInv == Types /\ ListLock /\ PointLock /\ Phases /\ OnTime

-----------------------------------------------------------------------------
(* The kernel. *)

\* While another thread runs, no audio thread is between two steps of its own.
LEMMA AudioFirst ==
    ASSUME Types, NEW t \in {"sched", "call", "main"}, Turn(t), NEW a \in Audio
    PROVE  pc[a] \notin {"begin", "check", "woken", "leave"}
<1>1. Prio(a) = 16 /\ Prio(t) \in {24, 32}
  BY DEF Prio, Audio
<1>2. ~Ready(a)
  BY <1>1 DEF Turn, Threads
<1> SUFFICES ASSUME pc[a] \in {"begin", "check", "woken", "leave"} PROVE FALSE
  OBVIOUS
<1>3. Wants(a) = {} /\ ~Asleep(a)
  BY DEF Wants, Asleep, Audio
<1> QED
  BY <1>2, <1>3 DEF Ready

\* main runs last: the scheduler is asleep, or waits for a lock.
LEMMA MainLast ==
    ASSUME Types, Turn("main")
    PROVE  pc["sched"] \notin {"signal", "walk", "check", "leave", "end"}
<1>1. Prio("sched") = 24 /\ Prio("main") = 32
  BY DEF Prio, Audio
<1>2. ~Ready("sched")
  BY <1>1 DEF Turn, Threads
<1> SUFFICES ASSUME pc["sched"] \in {"signal", "walk", "check", "leave", "end"} PROVE FALSE
  OBVIOUS
<1>3. Wants("sched") = {} /\ ~Asleep("sched")
  BY DEF Wants, Asleep, Audio
<1> QED
  BY <1>2, <1>3 DEF Ready

\* A thread that takes a lock finds it free.
LEMMA TakesFree ==
    ASSUME NEW t, Ready(t), NEW l \in Wants(t)
    PROVE  sem[l] = 1
BY DEF Ready

\* Before the threads start nobody holds a semaphore.
LEMMA ThreadsInitially == Init => ThreadsInv
<1> SUFFICES ASSUME Init PROVE ThreadsInv
  OBVIOUS
<1>1. /\ pc["send"] = "dead" /\ pc["recv"] = "dead" /\ pc["sched"] = "none"
      /\ pc["call"] = "idle" /\ pc["main"] = "init"
  BY DEF Init, Threads, Audio
<1>2. pc \in [Threads -> Places]
  BY DEF Init, Threads, Audio, Places, AudioPlaces, SchedPlaces, CallPlaces, MainPlaces
<1>3. /\ sem \in [Audio \cup {"list"} -> 0 .. 1] /\ flag \in [Audio \cup {"list"} -> 0 .. 1]
      /\ due \in [Audio -> -MaxLag .. Interval] /\ resets \in 0 .. MaxResets
      /\ wp \in [Audio -> [wakeup : BOOLEAN, left : 0 .. Interval]]
  BY AudioConstants DEF Init
<1>4. fresh \in [Audio -> BOOLEAN] /\ listed \in BOOLEAN
  BY DEF Init
<1>5. TypeOK
  BY <1>1, <1>3, <1>4 DEF Init, TypeOK, Audio, AudioPlaces, SchedPlaces, CallPlaces, MainPlaces
<1>6. ListLock /\ PointLock
  <2>1. sem["list"] = 1 /\ \A t \in Audio : sem[t] = 1
    BY DEF Init
  <2> QED
    BY <1>1, <2>1 DEF ListLock, PointLock, SchedHolds, CallHolds
<1>7. Phases
  BY <1>1 DEF Init, Phases
<1>8. OnTime
  BY <1>1 DEF Init, OnTime, NothingPends, Audio
<1> QED
  BY <1>2, <1>5, <1>6, <1>7, <1>8 DEF ThreadsInv, Types

-----------------------------------------------------------------------------
(* main. *)

\* main starts the scheduler and waits until it is up.
LEMMA MainKeeps == ThreadsInv /\ Main => ThreadsInv'
<1> SUFFICES ASSUME ThreadsInv, Main PROVE ThreadsInv'
  OBVIOUS
<1>0. UNCHANGED <<visit, wp, due, fresh, resets, session, listed>>
  BY DEF Main
<1>1. Types /\ ListLock /\ PointLock /\ Phases /\ OnTime
  BY DEF ThreadsInv
\* What every step of main leaves alone.
<1> DEFINE Framed ==
      /\ pc' \in [Threads -> Places]
      /\ \A t \in Audio \cup {"call"} : pc'[t] = pc[t]
      /\ pc'["main"] \in MainPlaces /\ pc'["sched"] \in SchedPlaces
      /\ pc["main"] # "up"
      /\ pc'["sched"] \in {"enter", "check", "leave"} => pc'["sched"] = pc["sched"]
      /\ pc["sched"] \in {"check", "leave"} => pc'["sched"] = pc["sched"]
      /\ sem' \in [Audio \cup {"list"} -> 0 .. 1]
      /\ flag' \in [Audio \cup {"list"} -> 0 .. 1]
      /\ \A t \in Audio : sem'[t] = sem[t] /\ flag'[t] = flag[t]
<1>2. ASSUME Framed
      PROVE  Types' /\ PointLock' /\ Phases' /\ OnTime'
  <2>1. Types'
    BY <1>0, <1>1, <1>2 DEF Types, TypeOK, Audio, Threads
  <2>2. PointLock'
    BY <1>0, <1>1, <1>2 DEF PointLock
  <2>3. Phases'
    BY <1>0, <1>1, <1>2 DEF Phases, Audio
  <2>4. OnTime'
    BY <1>0, <1>1, <1>2 DEF OnTime, NothingPends, Audio
  <2> QED
    BY <2>1, <2>2, <2>3, <2>4
<1> USE DEF Types, TypeOK, Audio, Threads, Places, SchedPlaces, MainPlaces,
            ListLock, SchedHolds, CallHolds, psp_mutex_lock, psp_mutex_unlock
<1>3. CASE Runs("main", "init", "spawn") /\ psp_mutex_lock("list") /\ UNCHANGED flag
  <2>1. sem["list"] = 1
    <3>1. "list" \in Wants("main")
      BY <1>3 DEF Runs, Wants
    <3> QED
      BY <1>3, <3>1, TakesFree DEF Runs
  <2>2. Framed
    BY <1>1, <1>3 DEF Runs
  <2>3. ListLock'
    BY <1>1, <1>3, <2>1 DEF Runs
  <2> QED
    BY <1>2, <2>2, <2>3 DEF ThreadsInv
<1>4. CASE /\ pc["main"] = "spawn" /\ Turn("main")
           /\ pc' = [pc EXCEPT !["main"] = "wait", !["sched"] = "start"]
           /\ psp_mutex_unlock("list") /\ UNCHANGED flag
  <2>1. Framed
    BY <1>1, <1>4
  <2>2. ListLock'
    BY <1>1, <1>4
  <2> QED
    BY <1>2, <2>1, <2>2 DEF ThreadsInv
<1>5. CASE Runs("main", "wait", "again") /\ flag' = [flag EXCEPT !["list"] = 0] /\ UNCHANGED sem
  <2>1. Framed
    BY <1>1, <1>5 DEF Runs
  <2>2. ListLock'
    BY <1>1, <1>5 DEF Runs
  <2> QED
    BY <1>2, <2>1, <2>2 DEF ThreadsInv
\* The two unlocks too many find the lock free.
<1>6. CASE \/ Runs("main", "again", "unlock") /\ psp_mutex_unlock("list") /\ UNCHANGED flag
           \/ Runs("main", "unlock", "up") /\ psp_mutex_unlock("list") /\ UNCHANGED flag
  <2>1. Framed
    BY <1>1, <1>6 DEF Runs
  <2>2. pc["call"] = "idle" /\ ~listed
    BY <1>1, <1>6 DEF Runs, Phases
  <2>3. ~SchedHolds
    <3>1. Turn("main")
      BY <1>6 DEF Runs
    <3>2. pc["sched"] \notin {"signal", "walk", "check", "leave", "end"}
      BY <1>1, <3>1, MainLast
    <3> QED
      BY <1>1, <2>2, <3>2 DEF Phases
  <2>4. ListLock'
    BY <1>1, <1>6, <2>2, <2>3 DEF Runs
  <2> QED
    BY <1>2, <2>1, <2>4 DEF ThreadsInv
<1> QED
  BY <1>3, <1>4, <1>5, <1>6 DEF Main, rtp_scheduler_start

-----------------------------------------------------------------------------
(* The scheduler thread. *)

\* The scheduler under the mutex of its list, and at the wait points.
LEMMA SchedulerKeeps == ThreadsInv /\ Scheduler => ThreadsInv'
<1> SUFFICES ASSUME ThreadsInv, Scheduler PROVE ThreadsInv'
  OBVIOUS
<1>1. Types /\ ListLock /\ PointLock /\ Phases /\ OnTime
  BY DEF ThreadsInv
<1>2. UNCHANGED <<due, fresh, resets, session, listed>>
  BY DEF Scheduler
<1> USE DEF Types, TypeOK, Audio, Threads, Places, SchedPlaces, psp_mutex_lock,
            psp_mutex_unlock, psp_cond_signal
\* What every step of the scheduler leaves alone.
<1> DEFINE Framed ==
      /\ pc' \in [Threads -> Places] /\ pc'["sched"] \in SchedPlaces
      /\ \A t \in Threads \ {"sched"} : pc'[t] = pc[t]
      /\ sem' \in [Audio \cup {"list"} -> 0 .. 1]
      /\ flag' \in [Audio \cup {"list"} -> 0 .. 1]
      /\ visit' \in Audio
<1>3. ASSUME Framed, UNCHANGED wp, \A t \in Audio : flag'[t] = flag[t]
      PROVE  Types' /\ OnTime'
  <2>1. Types'
    BY <1>1, <1>2, <1>3
  <2>2. OnTime'
    BY <1>1, <1>2, <1>3 DEF OnTime, NothingPends
  <2> QED
    BY <2>1, <2>2
<1>4. ASSUME Framed, pc'["sched"] \in {"enter", "check", "leave"} => listed
      PROVE  Phases'
  BY <1>1, <1>2, <1>4 DEF Phases
\* The steps that take or give back sched->lock.
<1>5. ASSUME NEW from \in {"start", "scan"}, NEW to \in {"signal", "walk"},
             Runs("sched", from, to), psp_mutex_lock("list"),
             UNCHANGED <<visit, wp>>,
             flag' \in {flag, [flag EXCEPT !["list"] = 1]}
      PROVE  ThreadsInv'
  <2>1. sem["list"] = 1
    <3>1. "list" \in Wants("sched")
      BY <1>5 DEF Runs, Wants
    <3> QED
      BY <1>5, <3>1, TakesFree DEF Runs
  <2>2. Framed /\ \A t \in Audio : flag'[t] = flag[t]
    BY <1>1, <1>5 DEF Runs
  <2>3. Types' /\ OnTime'
    BY <1>3, <1>5, <2>2
  <2>4. Phases'
    BY <1>1, <1>4, <1>5, <2>2 DEF Runs
  <2>5. ListLock'
    BY <1>1, <1>5, <2>1 DEF Runs, ListLock, SchedHolds, CallHolds
  <2>6. PointLock'
    BY <1>1, <1>5 DEF Runs, PointLock
  <2> QED
    BY <2>3, <2>4, <2>5, <2>6 DEF ThreadsInv
<1>6. ASSUME NEW from \in {"signal", "end"}, NEW to \in {"scan", "sleep"},
             Runs("sched", from, to), psp_mutex_unlock("list"),
             UNCHANGED <<visit, wp, flag>>
      PROVE  ThreadsInv'
  <2>1. Framed
    BY <1>1, <1>6 DEF Runs
  <2>2. Types' /\ OnTime'
    BY <1>3, <1>6, <2>1
  <2>3. Phases'
    BY <1>1, <1>4, <1>6, <2>1 DEF Runs
  <2>4. ListLock'
    BY <1>1, <1>6 DEF Runs, ListLock, SchedHolds, CallHolds
  <2>5. PointLock'
    BY <1>1, <1>6 DEF Runs, PointLock
  <2> QED
    BY <2>2, <2>3, <2>4, <2>5 DEF ThreadsInv
<1>7. CASE /\ Runs("sched", "walk", IF listed THEN "enter" ELSE "end")
           /\ visit' = "send" /\ UNCHANGED <<sem, wp, flag>>
  <2>1. Framed
    BY <1>1, <1>7 DEF Runs
  <2>2. Types' /\ OnTime'
    BY <1>3, <1>7, <2>1
  <2>3. Phases'
    BY <1>1, <1>4, <1>7, <2>1 DEF Runs
  <2>4. ListLock'
    BY <1>1, <1>7 DEF Runs, ListLock, SchedHolds, CallHolds
  <2>5. PointLock'
    BY <1>1, <1>7 DEF Runs, PointLock
  <2> QED
    BY <2>2, <2>3, <2>4, <2>5 DEF ThreadsInv
<1>8. CASE /\ Runs("sched", "enter", "check") /\ psp_mutex_lock(visit)
           /\ UNCHANGED <<visit, wp, flag>>
  <2>1. Framed
    BY <1>1, <1>8 DEF Runs
  <2>2. Types' /\ OnTime'
    BY <1>3, <1>8, <2>1
  <2>3. Phases'
    BY <1>1, <1>4, <1>8, <2>1 DEF Runs, Phases
  <2>4. ListLock'
    BY <1>1, <1>8 DEF Runs, ListLock, SchedHolds, CallHolds
  <2>5. PointLock'
    BY <1>1, <1>8 DEF Runs, PointLock
  <2> QED
    BY <2>2, <2>3, <2>4, <2>5 DEF ThreadsInv
\* The wake-up: only a thread asleep, or a dead one, has asked for it.
<1>9. CASE /\ Runs("sched", "check", "leave") /\ wait_point_check(visit)
           /\ UNCHANGED <<visit, sem>>
  <2>1. pc' = [pc EXCEPT !["sched"] = "leave"] /\ pc["sched"] = "check" /\ visit \in Audio
    BY <1>1, <1>9 DEF Runs
  <2>2. Phases'
    BY <1>1, <1>2, <2>1 DEF Phases
  <2>3. ListLock'
    BY <1>1, <1>9, <2>1 DEF ListLock, SchedHolds, CallHolds
  <2>4. PointLock'
    BY <1>1, <1>9, <2>1 DEF PointLock
  <2>5. CASE UNCHANGED <<wp, flag>>
    <3>1. Framed
      BY <1>1, <1>9, <2>1, <2>5
    <3> QED
      BY <1>3, <2>2, <2>3, <2>4, <2>5, <3>1 DEF ThreadsInv
  <2>6. CASE /\ wp[visit].wakeup /\ wp[visit].left = 0
             /\ wp' = [wp EXCEPT ![visit].wakeup = FALSE] /\ psp_cond_signal(visit)
    <3>1. /\ wp' \in [Audio -> [wakeup : BOOLEAN, left : 0 .. Interval]]
          /\ flag' \in [Audio \cup {"list"} -> 0 .. 1]
      <4>1. [wp[visit] EXCEPT !.wakeup = FALSE] \in [wakeup : BOOLEAN, left : 0 .. Interval]
        BY <1>1, <2>1
      <4>2. wp' = [wp EXCEPT ![visit] = [wp[visit] EXCEPT !.wakeup = FALSE]]
        BY <2>6
      <4>3. wp' \in [Audio -> [wakeup : BOOLEAN, left : 0 .. Interval]]
        BY <1>1, <4>1, <4>2
      <4>4. flag' \in [Audio \cup {"list"} -> 0 .. 1]
        BY <1>1, <2>6
      <4> QED
        BY <4>3, <4>4
    <3>2. Types'
      BY <1>1, <1>2, <1>9, <2>1, <3>1
    <3>3. OnTime'
      <4> SUFFICES ASSUME NEW t \in Audio
                   PROVE  /\ pc[t] = "asleep" => /\ due[t] <= wp'[t].left
                                                 /\ flag'[t] = 1 => ~wp'[t].wakeup /\ due[t] <= 0
                          /\ pc[t] \notin {"asleep", "dead"} => ~wp'[t].wakeup /\ flag'[t] = 0
                          /\ pc[t] \in {"woken", "leave"} => due[t] <= 0
                          /\ pc["call"] \in {"add", "added", "spawn_recv"} =>
                                ~wp'[t].wakeup /\ flag'[t] = 0
                          /\ pc["call"] = "spawn_send" /\ t = "send" =>
                                ~wp'[t].wakeup /\ flag'[t] = 0
        BY <1>2, <2>1 DEF OnTime, NothingPends
      <4>1. CASE t = visit
        <5>1. wp'[t].wakeup = FALSE /\ wp'[t].left = 0 /\ flag'[t] = 1
          BY <1>1, <2>6, <4>1
        <5>2. /\ wp[t].wakeup /\ wp[t].left = 0
              /\ pc[t] \in {"asleep", "dead"}
              /\ pc["call"] \notin {"add", "added", "spawn_recv"}
              /\ ~(pc["call"] = "spawn_send" /\ t = "send")
              /\ pc[t] = "asleep" => due[t] <= 0
          BY <1>1, <2>6, <4>1 DEF OnTime, NothingPends
        <5> QED
          BY <5>1, <5>2
      <4>2. CASE t # visit
        <5>1. wp'[t] = wp[t] /\ flag'[t] = flag[t]
          BY <1>1, <2>1, <2>6, <4>2
        <5> QED
          BY <1>1, <5>1 DEF OnTime, NothingPends
      <4> QED
        BY <4>1, <4>2
    <3> QED
      BY <2>2, <2>3, <2>4, <3>2, <3>3 DEF ThreadsInv
  <2> QED
    BY <1>9, <2>5, <2>6 DEF wait_point_check
<1>10. CASE /\ Runs("sched", "leave", IF visit = "send" THEN "enter" ELSE "end")
            /\ psp_mutex_unlock(visit) /\ visit' = "recv"
            /\ UNCHANGED <<wp, flag>>
  <2>1. Framed
    BY <1>1, <1>10 DEF Runs
  <2>2. Types' /\ OnTime'
    BY <1>3, <1>10, <2>1
  <2>3. Phases'
    BY <1>1, <1>4, <1>10, <2>1 DEF Runs, Phases
  <2>4. ListLock'
    BY <1>1, <1>10 DEF Runs, ListLock, SchedHolds, CallHolds
  <2>5. PointLock'
    BY <1>1, <1>10 DEF Runs, PointLock
  <2> QED
    BY <2>2, <2>3, <2>4, <2>5 DEF ThreadsInv
<1>11. CASE /\ Runs("sched", "start", "signal") /\ psp_mutex_lock("list")
            /\ psp_cond_signal("list") /\ UNCHANGED <<visit, wp>>
  BY <1>5, <1>11
<1>12. CASE /\ Runs("sched", "scan", "walk") /\ psp_mutex_lock("list")
            /\ UNCHANGED <<visit, wp, flag>>
  BY <1>5, <1>12
<1>13. CASE /\ Runs("sched", "signal", "scan") /\ psp_mutex_unlock("list")
            /\ UNCHANGED <<visit, wp, flag>>
  BY <1>6, <1>13
<1>14. CASE /\ Runs("sched", "end", "sleep") /\ psp_mutex_unlock("list")
            /\ UNCHANGED <<visit, wp, flag>>
  BY <1>6, <1>14
<1> QED
  BY <1>7, <1>8, <1>9, <1>10, <1>11, <1>12, <1>13, <1>14
  DEF Scheduler, rtp_scheduler_schedule, rtp_session_process

\* sched->time_ moves on, and every due time with it.
LEMMA TickKeeps == ThreadsInv /\ Tick => ThreadsInv'
<1> SUFFICES ASSUME ThreadsInv, Tick PROVE ThreadsInv'
  OBVIOUS
<1>1. Types /\ ListLock /\ PointLock /\ Phases /\ OnTime
  BY DEF ThreadsInv
<1>2. /\ pc' = [pc EXCEPT !["sched"] = "scan"] /\ pc["sched"] = "sleep"
      /\ UNCHANGED <<visit, sem, flag, fresh, resets, session, listed>>
  BY DEF Tick
<1>3. /\ pc'["sched"] = "scan" /\ \A t \in Threads \ {"sched"} : pc'[t] = pc[t]
      /\ pc' \in [Threads -> Places]
  BY <1>1, <1>2 DEF Types, Threads, Places, SchedPlaces
<1>4. Interval \in Nat \ {0} /\ MaxLag \in Nat
  BY AudioConstants
<1>5. ASSUME NEW t \in Audio
      PROVE  /\ due'[t] \in -MaxLag .. Interval
             /\ due[t] <= 0 => due'[t] <= 0
             /\ wp'[t] \in [wakeup : BOOLEAN, left : 0 .. Interval]
             /\ wp'[t].wakeup = wp[t].wakeup
             /\ due[t] <= wp[t].left => due'[t] <= wp'[t].left
  <2>1. /\ due[t] \in -MaxLag .. Interval
        /\ wp[t] \in [wakeup : BOOLEAN, left : 0 .. Interval]
    BY <1>1 DEF Types, TypeOK
  <2>2. due'[t] = Less(due[t], -MaxLag) /\ wp'[t] = [wp[t] EXCEPT !.left = Less(@, 0)]
    BY DEF Tick
  <2>3. wp'[t].left = Less(wp[t].left, 0) /\ wp'[t].wakeup = wp[t].wakeup
    BY <2>1, <2>2
  <2>4. Less(wp[t].left, 0) \in 0 .. Interval
    BY <1>4, <2>1 DEF Less
  <2>5. wp'[t] \in [wakeup : BOOLEAN, left : 0 .. Interval]
    BY <2>1, <2>2, <2>4
  <2> DEFINE d == due[t]
             n == wp[t].left
  <2>6. d \in -MaxLag .. Interval /\ n \in 0 .. Interval
    BY <2>1
  <2> HIDE DEF d, n
  <2>7. /\ Less(d, -MaxLag) \in -MaxLag .. Interval
        /\ d <= 0 => Less(d, -MaxLag) <= 0
        /\ d <= n => Less(d, -MaxLag) <= Less(n, 0)
    BY <1>4, <2>6 DEF Less
  <2> QED
    BY <2>2, <2>3, <2>5, <2>7 DEF d, n
<1>6. Types'
  <2>1. /\ due' \in [Audio -> -MaxLag .. Interval]
        /\ wp' \in [Audio -> [wakeup : BOOLEAN, left : 0 .. Interval]]
    <3>1. /\ due' = [t \in Audio |-> due'[t]] /\ wp' = [t \in Audio |-> wp'[t]]
      BY DEF Tick
    <3> QED
      BY <1>5, <3>1
  <2> QED
    BY <1>1, <1>2, <1>3, <2>1 DEF Types, TypeOK, Threads, Audio, SchedPlaces
<1>7. ListLock' /\ PointLock'
  BY <1>1, <1>2, <1>3 DEF ListLock, PointLock, SchedHolds, CallHolds, Threads, Audio
<1>8. Phases'
  BY <1>1, <1>2, <1>3 DEF Phases, Threads, Audio
<1>9. OnTime'
  <2>1. \A t \in Audio : pc'[t] = pc[t] /\ pc'["call"] = pc["call"]
    BY <1>3 DEF Threads, Audio
  <2> QED
    BY <1>1, <1>2, <1>5, <2>1 DEF OnTime, NothingPends
<1> QED
  BY <1>6, <1>7, <1>8, <1>9 DEF ThreadsInv

-----------------------------------------------------------------------------
(* The audio threads. *)

\* A thread of audio.c that runs: at its wait point, in its session, at its device.
LEMMA AudioKeeps == ASSUME NEW t \in Audio PROVE ThreadsInv /\ AudioStep(t) => ThreadsInv'
<1> SUFFICES ASSUME ThreadsInv, AudioStep(t) PROVE ThreadsInv'
  OBVIOUS
<1>1. Types /\ ListLock /\ PointLock /\ Phases /\ OnTime
  BY DEF ThreadsInv
<1>2. UNCHANGED <<visit, session, listed>>
  BY DEF AudioStep
<1>3. Interval \in Nat \ {0} /\ MaxLag \in Nat /\ MaxResets \in Nat
  BY AudioConstants
<1>4. t \in {"send", "recv"} /\ t \in Threads
  BY DEF Audio, Threads
\* Whatever the step, it is thread t's own and takes it from one place to another.
<1> DEFINE Moves(from, to) == /\ pc[t] = from /\ pc' = [pc EXCEPT ![t] = to]
                              /\ from # "dead" /\ to \in AudioPlaces \ {"dead"}
           Only(f) == \A u \in Audio : u # t => f'[u] = f[u]
<1>5. ASSUME NEW from, NEW to, Moves(from, to)
      PROVE  /\ pc' \in [Threads -> Places] /\ pc'[t] = to
             /\ \A u \in Threads \ {t} : pc'[u] = pc[u]
             /\ Phases'
  <2>1. /\ pc' \in [Threads -> Places] /\ pc'[t] = to
        /\ \A u \in Threads \ {t} : pc'[u] = pc[u]
    BY <1>1, <1>4, <1>5 DEF Types, Places
  <2>2. Phases'
    BY <1>1, <1>2, <1>4, <1>5, <2>1 DEF Phases, Threads, Audio
  <2> QED
    BY <2>1, <2>2
\* The types, and what concerns other threads.
<1>6. ASSUME NEW from, NEW to, Moves(from, to),
             sem' \in {sem, [sem EXCEPT ![t] = 0], [sem EXCEPT ![t] = 1]},
             flag' \in {flag, [flag EXCEPT ![t] = 0]},
             wp' \in [Audio -> [wakeup : BOOLEAN, left : 0 .. Interval]], Only(wp),
             due' \in [Audio -> -MaxLag .. Interval], Only(due),
             fresh' \in [Audio -> BOOLEAN], resets' \in 0 .. MaxResets,
             sem'[t] = 0 => to \in {"check", "leave"} \/ (sem[t] = 0 /\ pc[t] \notin {"check", "leave"}),
             to = "asleep" => due'[t] <= wp'[t].left /\ flag'[t] = 0,
             to # "asleep" => ~wp'[t].wakeup /\ flag'[t] = 0,
             to \in {"woken", "leave"} => due'[t] <= 0
      PROVE  ThreadsInv'
  <2>1. /\ pc' \in [Threads -> Places] /\ pc'[t] = to /\ to \in AudioPlaces \ {"dead"}
        /\ \A u \in Threads \ {t} : pc'[u] = pc[u]
        /\ Phases'
    BY <1>5, <1>6
  <2>2. /\ sem' \in [Audio \cup {"list"} -> 0 .. 1] /\ flag' \in [Audio \cup {"list"} -> 0 .. 1]
        /\ \A u \in Audio \cup {"list"} : u # t => sem'[u] = sem[u] /\ flag'[u] = flag[u]
    BY <1>1, <1>4, <1>6 DEF Types, TypeOK
  <2>3. Types'
    BY <1>1, <1>2, <1>4, <1>6, <2>1, <2>2 DEF Types, TypeOK, Audio, Threads
  <2>4. ListLock'
    BY <1>1, <1>4, <2>1, <2>2 DEF ListLock, SchedHolds, CallHolds, Threads, Audio
  <2>5. PointLock'
    <3> SUFFICES ASSUME NEW u \in Audio, sem'[u] = 0
                 PROVE  \/ pc["sched"] \in {"check", "leave"} /\ visit = u
                        \/ pc'[u] \in {"check", "leave"}
      BY <1>2, <1>4, <2>1 DEF PointLock, Threads, Audio
    <3>1. CASE u = t
      BY <1>1, <1>6, <2>1, <3>1 DEF PointLock
    <3>2. CASE u # t
      BY <1>1, <2>1, <2>2, <3>2 DEF PointLock, Threads, Audio
    <3> QED
      BY <3>1, <3>2
  <2>6. OnTime'
    <3> SUFFICES ASSUME NEW u \in Audio
                 PROVE  /\ pc'[u] = "asleep" =>
                              /\ due'[u] <= wp'[u].left
                              /\ flag'[u] = 1 => ~wp'[u].wakeup /\ due'[u] <= 0
                        /\ pc'[u] \notin {"asleep", "dead"} => ~wp'[u].wakeup /\ flag'[u] = 0
                        /\ pc'[u] \in {"woken", "leave"} => due'[u] <= 0
                        /\ pc["call"] \in {"add", "added", "spawn_recv"} =>
                              ~wp'[u].wakeup /\ flag'[u] = 0
                        /\ pc["call"] = "spawn_send" /\ u = "send" =>
                              ~wp'[u].wakeup /\ flag'[u] = 0
      <4>1. pc'["call"] = pc["call"]
        BY <1>4, <2>1 DEF Threads, Audio
      <4> QED
        BY <4>1 DEF OnTime, NothingPends
    <3>1. CASE u = t
      <4>1. /\ pc["call"] \notin {"add", "added", "spawn_recv"}
            /\ ~(pc["call"] = "spawn_send" /\ u = "send")
        BY <1>1, <1>4, <1>6, <3>1 DEF Phases
      <4> QED
        BY <1>6, <2>1, <3>1, <4>1
    <3>2. CASE u # t
      <4>1. pc'[u] = pc[u] /\ wp'[u] = wp[u] /\ due'[u] = due[u] /\ flag'[u] = flag[u]
        BY <1>6, <2>1, <2>2, <3>2 DEF Threads, Audio
      <4> QED
        BY <1>1, <4>1 DEF OnTime, NothingPends
    <3> QED
      BY <3>1, <3>2
  <2> QED
    BY <2>1, <2>3, <2>4, <2>5, <2>6 DEF ThreadsInv
\* Its variables as they were.
<1>7. /\ wp \in [Audio -> [wakeup : BOOLEAN, left : 0 .. Interval]]
      /\ due \in [Audio -> -MaxLag .. Interval] /\ fresh \in [Audio -> BOOLEAN]
      /\ resets \in 0 .. MaxResets /\ sem[t] \in {0, 1}
      /\ flag \in [Audio \cup {"list"} -> 0 .. 1] /\ flag[t] \in {0, 1}
      /\ sem \in [Audio \cup {"list"} -> 0 .. 1]
  BY <1>1 DEF Types, TypeOK
<1>8. /\ pc[t] \notin {"asleep", "dead"} => ~wp[t].wakeup /\ flag[t] = 0
      /\ pc[t] \in {"woken", "leave"} => due[t] <= 0
      /\ pc[t] = "asleep" /\ flag[t] = 1 => ~wp[t].wakeup /\ due[t] <= 0
  BY <1>1 DEF OnTime, NothingPends
<1> USE DEF Runs, psp_mutex_lock, psp_mutex_unlock, AudioPlaces
<1>9. CASE Begins(t) /\ UNCHANGED resets
  <2>1. Moves("begin", "enter") /\ UNCHANGED <<sem, flag, wp>>
    BY <1>9 DEF Begins
  <2>2. due' \in [Audio -> -MaxLag .. Interval] /\ Only(due)
    BY <1>3, <1>7, <1>9 DEF Begins
  <2>3. fresh' \in [Audio -> BOOLEAN]
    BY <1>7, <1>9 DEF Begins
  <2> QED
    BY <1>6, <1>7, <1>8, <1>9, <2>1, <2>2, <2>3
<1>10. CASE t = "recv" /\ rtp_session_reset
  <2>1. Moves("begin", "enter") /\ UNCHANGED <<sem, flag, wp>>
    BY <1>10 DEF rtp_session_reset
  <2>2. due' \in [Audio -> -MaxLag .. Interval] /\ Only(due)
    BY <1>3, <1>7, <1>10 DEF rtp_session_reset
  <2>3. fresh' \in [Audio -> BOOLEAN]
    BY <1>10 DEF rtp_session_reset
  <2>4. resets' \in 0 .. MaxResets
    BY <1>3, <1>7, <1>10 DEF rtp_session_reset
  <2> QED
    BY <1>6, <1>7, <1>8, <2>1, <2>2, <2>3, <2>4
<1>11. CASE MayWait(t) /\ UNCHANGED <<flag, due, fresh, resets>>
  <2>1. CASE Runs(t, "enter", "check") /\ psp_mutex_lock(t) /\ UNCHANGED wp
    <3>1. Moves("enter", "check")
      BY <2>1
    <3> QED
      BY <1>6, <1>7, <1>8, <1>11, <2>1, <3>1
  <2>2. CASE /\ due[t] > 0 /\ Runs(t, "check", "asleep")
             /\ wp' = [wp EXCEPT ![t] = [wakeup |-> TRUE, left |-> due[t]]]
             /\ psp_mutex_unlock(t)
    <3>1. Moves("check", "asleep")
      BY <2>2
    <3>2. due[t] \in 0 .. Interval
      BY <1>3, <1>7, <2>2
    <3>3. wp' \in [Audio -> [wakeup : BOOLEAN, left : 0 .. Interval]] /\ Only(wp)
          /\ wp'[t].left = due[t]
      BY <1>7, <2>2, <3>2
    <3>4. sem'[t] = 1
      BY <1>4, <1>7, <2>2 DEF Audio
    <3>5. due'[t] <= wp'[t].left
      BY <1>11, <3>2, <3>3
    <3>6. flag' = flag /\ flag'[t] = 0 /\ sem' = [sem EXCEPT ![t] = 1]
      BY <1>8, <1>11, <2>2, <3>1
    <3>7. /\ due' \in [Audio -> -MaxLag .. Interval] /\ Only(due)
          /\ fresh' \in [Audio -> BOOLEAN] /\ resets' \in 0 .. MaxResets
      BY <1>7, <1>11
    <3> HIDE DEF Moves, Only
    <3> QED
      BY <1>6, <3>1, <3>3, <3>4, <3>5, <3>6, <3>7
  <2>3. CASE due[t] <= 0 /\ Runs(t, "check", "leave") /\ UNCHANGED <<sem, wp>>
    <3>1. Moves("check", "leave")
      BY <2>3
    <3> QED
      BY <1>6, <1>7, <1>8, <1>11, <2>3, <3>1
  <2> QED
    BY <1>11, <2>1, <2>2, <2>3 DEF MayWait
<1>12. CASE WakesUp(t) /\ UNCHANGED <<wp, due, fresh, resets>>
  <2>1. CASE Runs(t, "asleep", "woken") /\ flag' = [flag EXCEPT ![t] = 0] /\ UNCHANGED sem
    <3>1. Moves("asleep", "woken")
      BY <2>1
    <3>2. flag[t] = 1
      BY <1>4, <1>7, <2>1 DEF Ready, Asleep, Audio
    <3>3. flag'[t] = 0
      BY <1>7, <2>1
    <3> QED
      BY <1>6, <1>7, <1>8, <1>12, <2>1, <3>1, <3>2, <3>3
  <2>2. CASE Runs(t, "woken", "leave") /\ psp_mutex_unlock(t) /\ UNCHANGED flag
    <3>1. Moves("woken", "leave")
      BY <2>2
    <3> QED
      BY <1>6, <1>7, <1>8, <1>12, <2>2, <3>1
  <2> QED
    BY <1>12, <2>1, <2>2 DEF WakesUp
<1>13. CASE HandlesPacket(t) /\ UNCHANGED resets
  <2>1. Moves("leave", "io") /\ UNCHANGED <<flag, wp, fresh>>
    BY <1>13 DEF HandlesPacket
  <2>2. due' \in [Audio -> -MaxLag .. Interval] /\ Only(due)
    <3>1. due[t] \in -MaxLag .. 0
      BY <1>3, <1>7, <1>8, <2>1
    <3>2. due[t] + Interval \in -MaxLag .. Interval
      BY <1>3, <3>1
    <3> QED
      BY <1>7, <1>13, <3>2 DEF HandlesPacket
  <2>3. sem' = [sem EXCEPT ![t] = 1] /\ sem'[t] = 1
    BY <1>4, <1>7, <1>13 DEF HandlesPacket, Audio
  <2>4. /\ wp' \in [Audio -> [wakeup : BOOLEAN, left : 0 .. Interval]] /\ Only(wp)
        /\ fresh' \in [Audio -> BOOLEAN] /\ resets' \in 0 .. MaxResets
        /\ flag' = flag /\ flag'[t] = 0 /\ ~wp'[t].wakeup
    BY <1>7, <1>8, <1>13, <2>1
  <2> HIDE DEF Moves, Only
  <2> QED
    BY <1>6, <2>1, <2>2, <2>3, <2>4
<1> QED
  BY <1>9, <1>10, <1>11, <1>12, <1>13 DEF AudioStep

\* The microphone, the socket or the speaker comes back.
LEMMA IoKeeps == ASSUME NEW t \in Audio PROVE ThreadsInv /\ IoDone(t) => ThreadsInv'
<1> SUFFICES ASSUME ThreadsInv, IoDone(t) PROVE ThreadsInv'
  OBVIOUS
<1>1. Types /\ ListLock /\ PointLock /\ Phases /\ OnTime
  BY DEF ThreadsInv
<1>2. /\ pc[t] = "io" /\ pc' = [pc EXCEPT ![t] = "begin"]
      /\ UNCHANGED <<visit, sem, flag, wp, due, fresh, resets, session, listed>>
  BY DEF IoDone
<1>3. /\ pc' \in [Threads -> Places] /\ pc'[t] = "begin"
      /\ \A u \in Threads \ {t} : pc'[u] = pc[u]
  BY <1>1, <1>2 DEF Types, Threads, Places, AudioPlaces
<1>4. t \in {"send", "recv"}
  BY DEF Audio
<1>5. Types'
  BY <1>1, <1>2, <1>3, <1>4 DEF Types, TypeOK, Threads, Audio, AudioPlaces
<1>6. ListLock' /\ PointLock'
  BY <1>1, <1>2, <1>3, <1>4 DEF ListLock, PointLock, SchedHolds, CallHolds, Threads, Audio
<1>7. Phases'
  BY <1>1, <1>2, <1>3, <1>4 DEF Phases, Threads, Audio
<1>8. OnTime'
  BY <1>1, <1>2, <1>3, <1>4 DEF OnTime, NothingPends, Threads, Audio
<1> QED
  BY <1>5, <1>6, <1>7, <1>8 DEF ThreadsInv

-----------------------------------------------------------------------------
(* CallThread. *)

\* CallThread: setup, stop - wherever the audio threads are - and the freeing of the session.
LEMMA CallKeeps == ThreadsInv /\ Call => ThreadsInv'
<1> SUFFICES ASSUME ThreadsInv, Call PROVE ThreadsInv'
  OBVIOUS
<1>1. Types /\ ListLock /\ PointLock /\ Phases /\ OnTime
  BY DEF ThreadsInv
<1>2. visit' = visit
  BY DEF Call
<1> USE DEF Runs, psp_mutex_lock, psp_mutex_unlock, Types, TypeOK, Threads, Audio, Places,
            CallPlaces, AudioPlaces
<1>3. CASE rtp_session_new
  <2>1. /\ pc' = [pc EXCEPT !["call"] = "add"] /\ pc["call"] = "idle" /\ pc["main"] = "up"
        /\ session' = "alive" /\ listed' = listed
        /\ resets' = 0 /\ visit' = visit
        /\ sem' = [sem EXCEPT !["send"] = 1, !["recv"] = 1]
        /\ flag' = [flag EXCEPT !["send"] = 0, !["recv"] = 0]
        /\ wp' = [t \in Audio |-> [wakeup |-> FALSE, left |-> 0]]
        /\ fresh' = [t \in Audio |-> TRUE] /\ due' = [t \in Audio |-> 0]
    BY <1>2, <1>3 DEF rtp_session_new
  <2>2. /\ pc' \in [Threads -> Places] /\ pc'["call"] = "add"
        /\ \A u \in Threads \ {"call"} : pc'[u] = pc[u]
    BY <1>1, <2>1
  <2>3. /\ sem' \in [Audio \cup {"list"} -> 0 .. 1] /\ flag' \in [Audio \cup {"list"} -> 0 .. 1]
        /\ sem'["send"] = 1 /\ sem'["recv"] = 1 /\ sem'["list"] = sem["list"]
        /\ flag'["send"] = 0 /\ flag'["recv"] = 0
    BY <1>1, <2>1
  <2>4. /\ wp' \in [Audio -> [wakeup : BOOLEAN, left : 0 .. Interval]]
        /\ due' \in [Audio -> -MaxLag .. Interval]
        /\ resets' \in 0 .. MaxResets
    BY <2>1, AudioConstants
  <2>5. fresh' \in [Audio -> BOOLEAN]
    BY <2>1
  <2>6. Types'
    BY <1>1, <2>1, <2>2, <2>3, <2>4, <2>5
  <2>7. ListLock' /\ PointLock'
    BY <1>1, <2>1, <2>2, <2>3 DEF ListLock, PointLock, SchedHolds, CallHolds
  <2>8. Phases'
    BY <1>1, <2>1, <2>2 DEF Phases
  <2>9. \A t \in Audio : pc'[t] = "dead" /\ wp'[t].wakeup = FALSE /\ flag'[t] = 0
    BY <1>1, <2>1, <2>2, <2>3 DEF Phases
  <2>10. OnTime'
    BY <2>2, <2>9 DEF OnTime, NothingPends
  <2> QED
    BY <2>6, <2>7, <2>8, <2>10 DEF ThreadsInv
\* Every other step leaves the wait points alone.
<1> DEFINE Quiet == UNCHANGED <<flag, wp, due, fresh, resets, visit>>
\* A step in which no audio thread starts or ends.
<1>4. ASSUME Quiet, NEW from \in CallPlaces, NEW to \in CallPlaces,
             pc["call"] = from, pc' = [pc EXCEPT !["call"] = to],
             sem' \in {sem, [sem EXCEPT !["list"] = 0], [sem EXCEPT !["list"] = 1]},
             session' \in {session, "freed"}, listed' \in BOOLEAN,
             to \in {"add", "added", "spawn_recv"} => from \in {"add", "added", "spawn_recv"},
             to # "spawn_send"
      PROVE  /\ Types' /\ PointLock' /\ OnTime'
             /\ pc'["call"] = to /\ \A u \in Threads \ {"call"} : pc'[u] = pc[u]
  <2>1. /\ pc' \in [Threads -> Places] /\ pc'["call"] = to
        /\ \A u \in Threads \ {"call"} : pc'[u] = pc[u]
    BY <1>1, <1>4
  <2>2. sem' \in [Audio \cup {"list"} -> 0 .. 1] /\ \A u \in Audio : sem'[u] = sem[u]
    BY <1>1, <1>4
  <2>3. Types'
    BY <1>1, <1>4, <2>1, <2>2
  <2>4. PointLock'
    BY <1>1, <1>4, <2>1, <2>2 DEF PointLock
  <2>5. OnTime'
    BY <1>1, <1>4, <2>1 DEF OnTime, NothingPends
  <2> QED
    BY <2>1, <2>3, <2>4, <2>5
\* sched->lock is taken: nobody holds it, in particular not the scheduler.
<1>5. ASSUME NEW from \in {"add", "remove"}, Runs("call", from, IF from = "add" THEN "added" ELSE "removed"),
             psp_mutex_lock("list"), listed' = (from = "add"), session' = session, Quiet
      PROVE  ThreadsInv'
  <2> DEFINE to == IF from = "add" THEN "added" ELSE "removed"
  <2>1. sem["list"] = 1
    <3>1. "list" \in Wants("call")
      BY <1>5 DEF Wants
    <3> QED
      BY <1>5, <3>1, TakesFree
  <2>2. /\ Types' /\ PointLock' /\ OnTime'
        /\ pc'["call"] = to /\ \A u \in Threads \ {"call"} : pc'[u] = pc[u]
    BY <1>4, <1>5
  <2>3. ~SchedHolds /\ pc["main"] # "spawn" /\ sem'["list"] = 0
    BY <1>1, <1>5, <2>1 DEF ListLock
  <2>4. ListLock'
    BY <1>5, <2>2, <2>3 DEF ListLock, SchedHolds, CallHolds
  <2>5. Phases'
    BY <1>1, <1>5, <2>2, <2>3 DEF Phases, SchedHolds
  <2> QED
    BY <2>2, <2>4, <2>5 DEF ThreadsInv
<1>6. ASSUME NEW from \in {"added", "removed"}, Runs("call", from, IF from = "added" THEN "spawn_recv" ELSE "free"),
             psp_mutex_unlock("list"), UNCHANGED <<listed, session>>, Quiet
      PROVE  ThreadsInv'
  <2> DEFINE to == IF from = "added" THEN "spawn_recv" ELSE "free"
  <2>1. /\ Types' /\ PointLock' /\ OnTime'
        /\ pc'["call"] = to /\ \A u \in Threads \ {"call"} : pc'[u] = pc[u]
    BY <1>1, <1>4, <1>6
  <2>2. ListLock'
    BY <1>1, <1>6, <2>1 DEF ListLock, SchedHolds, CallHolds
  <2>3. Phases'
    BY <1>1, <1>6, <2>1 DEF Phases
  <2> QED
    BY <2>1, <2>2, <2>3 DEF ThreadsInv
<1>7. CASE /\ Runs("call", "free", "idle") /\ session' = "freed" /\ UNCHANGED <<sem, listed>>
           /\ UNCHANGED <<flag, wp, due, fresh, resets>>
  <2>1. /\ Types' /\ PointLock' /\ OnTime'
        /\ pc'["call"] = "idle" /\ \A u \in Threads \ {"call"} : pc'[u] = pc[u]
    BY <1>1, <1>2, <1>4, <1>7
  <2>2. ListLock'
    BY <1>1, <1>7, <2>1 DEF ListLock, SchedHolds, CallHolds
  <2>3. Phases'
    BY <1>1, <1>7, <2>1 DEF Phases
  <2> QED
    BY <2>1, <2>2, <2>3 DEF ThreadsInv
\* A thread is started, or ended where it waits.
<1>8. ASSUME NEW a \in Audio, NEW from \in CallPlaces, NEW to \in CallPlaces, NEW at \in {"begin", "dead"},
             pc["call"] = from, Turn("call"), pc' = [pc EXCEPT !["call"] = to, ![a] = at],
             Quiet, UNCHANGED <<sem, session, listed>>,
             <<from, to, a, at>> \in {<<"spawn_recv", "spawn_send", "recv", "begin">>,
                                      <<"spawn_send", "incall", "send", "begin">>,
                                      <<"incall", "kill_recv", "send", "dead">>,
                                      <<"kill_recv", "remove", "recv", "dead">>}
      PROVE  ThreadsInv'
  <2>1. /\ pc' \in [Threads -> Places] /\ pc'["call"] = to /\ pc'[a] = at
        /\ \A u \in Threads \ {"call", a} : pc'[u] = pc[u]
    BY <1>1, <1>8
  <2>2. \/ from = "spawn_recv" /\ to = "spawn_send" /\ a = "recv" /\ at = "begin"
        \/ from = "spawn_send" /\ to = "incall" /\ a = "send" /\ at = "begin"
        \/ from = "incall" /\ to = "kill_recv" /\ a = "send" /\ at = "dead"
        \/ from = "kill_recv" /\ to = "remove" /\ a = "recv" /\ at = "dead"
    BY <1>8
  <2>3. Types'
    BY <1>1, <1>8, <2>1, <2>2
  <2>4. ListLock'
    BY <1>1, <1>8, <2>1, <2>2 DEF ListLock, SchedHolds, CallHolds
  <2>5. pc[a] \notin {"check", "leave"}
    BY <1>1, <1>8, AudioFirst
  <2>6. PointLock'
    BY <1>1, <1>8, <2>1, <2>2, <2>5 DEF PointLock
  <2>7. Phases'
    BY <1>1, <1>8, <2>1, <2>2 DEF Phases
  <2>8. OnTime'
    BY <1>1, <1>8, <2>1, <2>2 DEF OnTime, NothingPends
  <2> QED
    BY <2>3, <2>4, <2>6, <2>7, <2>8 DEF ThreadsInv
<1>9. CASE rtp_scheduler_add_session /\ UNCHANGED <<flag, wp, due, fresh, resets, session>>
  <2>1. CASE Runs("call", "add", "added") /\ psp_mutex_lock("list") /\ listed' = TRUE
    BY <1>2, <1>5, <1>9, <2>1
  <2>2. CASE Runs("call", "added", "spawn_recv") /\ psp_mutex_unlock("list") /\ UNCHANGED listed
    BY <1>2, <1>6, <1>9, <2>2
  <2> QED
    BY <1>9, <2>1, <2>2 DEF rtp_scheduler_add_session
<1>10. CASE StartThreads /\ UNCHANGED <<sem, flag, wp, due, fresh, resets, session, listed>>
  <2>1. CASE /\ pc["call"] = "spawn_recv" /\ Turn("call")
             /\ pc' = [pc EXCEPT !["call"] = "spawn_send", !["recv"] = "begin"]
    BY <1>2, <1>8, <1>10, <2>1
  <2>2. CASE /\ pc["call"] = "spawn_send" /\ Turn("call")
             /\ pc' = [pc EXCEPT !["call"] = "incall", !["send"] = "begin"]
    BY <1>2, <1>8, <1>10, <2>2
  <2> QED
    BY <1>10, <2>1, <2>2 DEF StartThreads
<1>11. CASE rtpAudioStop /\ UNCHANGED <<flag, wp, due, fresh, resets>>
  <2>1. CASE /\ pc["call"] = "incall" /\ Turn("call")
             /\ pc' = [pc EXCEPT !["call"] = "kill_recv", !["send"] = "dead"]
             /\ UNCHANGED <<sem, listed, session>>
    BY <1>2, <1>8, <1>11, <2>1
  <2>2. CASE /\ pc["call"] = "kill_recv" /\ Turn("call")
             /\ pc' = [pc EXCEPT !["call"] = "remove", !["recv"] = "dead"]
             /\ UNCHANGED <<sem, listed, session>>
    BY <1>2, <1>8, <1>11, <2>2
  <2>3. CASE /\ Runs("call", "remove", "removed") /\ psp_mutex_lock("list") /\ listed' = FALSE
             /\ UNCHANGED session
    BY <1>2, <1>5, <1>11, <2>3
  <2>4. CASE /\ Runs("call", "removed", "free") /\ psp_mutex_unlock("list") /\ UNCHANGED listed
             /\ UNCHANGED session
    BY <1>2, <1>6, <1>11, <2>4
  <2>5. CASE Runs("call", "free", "idle") /\ session' = "freed" /\ UNCHANGED <<sem, listed>>
    BY <1>7, <1>11, <2>5
  <2> QED
    BY <1>11, <2>1, <2>2, <2>3, <2>4, <2>5 DEF rtpAudioStop, rtp_scheduler_remove_session
<1> QED
  BY <1>3, <1>9, <1>10, <1>11 DEF Call

-----------------------------------------------------------------------------
\* Every step of the five threads keeps the invariant.
THEOREM ThreadsInvHolds == Spec => []ThreadsInv
<1>1. ThreadsInv /\ [Next]_vars => ThreadsInv'
  <2> SUFFICES ASSUME ThreadsInv, [Next]_vars PROVE ThreadsInv'
    OBVIOUS
  <2>1. CASE UNCHANGED vars
    <3> USE <2>1 DEF vars, ThreadsInv
    <3>1. Types' /\ ListLock' /\ PointLock'
      BY DEF Types, TypeOK, ListLock, PointLock, SchedHolds, CallHolds
    <3>2. Phases' /\ OnTime'
      BY DEF Phases, OnTime, NothingPends
    <3> QED
      BY <3>1, <3>2
  <2> QED
    BY <2>1, MainKeeps, SchedulerKeeps, TickKeeps, CallKeeps, AudioKeeps, IoKeeps DEF Next
<1> QED
  BY ThreadsInitially, <1>1, PTL DEF Spec

\* The five threads have the types the code gives them; in particular no packet is
\* ever further ahead than one interval.
THEOREM ThreadsTypeCorrect == Spec => []TypeOK
<1>1. ThreadsInv => TypeOK
  BY DEF ThreadsInv, Types
<1> QED
  BY ThreadsInvHolds, <1>1, PTL

\* Wherever CallThread ends an audio thread, and though psp_cond_wait returns without
\* its mutex: nothing freed is in use, no lock stays with the dead, and no packet is
\* handled before its time.
THEOREM ThreadsAreSafe == Spec => []ThreadsSafe
<1>1. ThreadsInv => ThreadsSafe
  <2> SUFFICES ASSUME ThreadsInv PROVE ThreadsSafe
    OBVIOUS
  <2>1. Types /\ ListLock /\ PointLock /\ Phases /\ OnTime
    BY DEF ThreadsInv
  <2>2. NoUseAfterFree
    BY <2>1 DEF Phases, NoUseAfterFree, Audio
  <2>3. NotEarly
    BY <2>1 DEF OnTime, NotEarly
  <2>4. NoLockLeaks
    <3> SUFFICES ASSUME NEW l \in Audio \cup {"list"}, sem[l] = 0
                 PROVE  \E t \in Threads : Holds(t, l)
      BY <2>1 DEF NoLockLeaks, Types, TypeOK
    <3>1. CASE l = "list"
      BY <2>1, <3>1 DEF ListLock, SchedHolds, CallHolds, Holds, Threads, Audio
    <3>2. CASE l \in Audio
      BY <2>1, <3>2 DEF PointLock, Holds, Threads, Audio
    <3> QED
      BY <3>1, <3>2
  <2> QED
    BY <2>2, <2>3, <2>4 DEF ThreadsSafe
<1> QED
  BY ThreadsInvHolds, <1>1, PTL
=============================================================================
