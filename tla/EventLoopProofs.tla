-------------------------- MODULE EventLoopProofs --------------------------
(***************************************************************************)
(* No wake-up is lost between eXosip's thread and CallThread, whatever     *)
(* kinds of transactions there are, whatever their timers are set to, and  *)
(* however few bytes the pipes take.                                       *)
(*                                                                         *)
(* ThreadWakes is about the thread asleep; what makes it true is what      *)
(* holds while it is awake: an event that nobody rings for (the pipe is    *)
(* empty and no API function is about to write into it) belongs to a kind  *)
(* this round has yet to serve, so that none is left when the round ends.  *)
(***************************************************************************)
EXTENDS EventLoop, TLAPS

LoopTypeOK ==
    /\ timer \in [Kinds -> Int]
    /\ ff \subseteq Kinds
    /\ pipe \in Nat /\ bell \in Nat /\ events \in Nat
    /\ packet \in BOOLEAN
    /\ loop \in [at : {"start", "select", "timers"} \cup Kinds, limit : Int, tells : BOOLEAN]
    /\ caller \in {"free", "waits", "added"}

\* The kinds this round has yet to serve.
ToServe ==
    CASE loop.at = "start" -> {}
      [] loop.at \in Kinds -> {k \in Kinds : Turn[k] >= Turn[loop.at]}
      [] OTHER -> Kinds

\* Nobody is about to ring for the events in ff.
Silent == pipe = 0 /\ caller # "added"

RoundServes == Silent /\ loop.at # "select" => ff \subseteq ToServe

LoopInv == LoopTypeOK /\ RoundServes /\ ThreadWakes /\ CallerWakes

-----------------------------------------------------------------------------
(* The operators. *)

\* A timer that is off is a long time away.
LEMMA OffIsNat == Off \in Nat
BY SMT DEF Off

\* Of two numbers one of which is 0, Max is the larger one.
LEMMA MaxWithZero ==
    ASSUME NEW x \in Int
    PROVE  Max({x, 0}) \in Nat /\ Max({x, 0}) >= x /\ Max({x, 0}) \in {x, 0}
<1>1. \E m \in {x, 0} : \A y \in {x, 0} : m >= y
    <2>1. CASE x >= 0  BY <2>1
    <2>2. CASE x < 0  BY <2>2
    <2> QED  BY <2>1, <2>2
<1>2. Max({x, 0}) \in {x, 0} /\ \A y \in {x, 0} : Max({x, 0}) >= y
    BY <1>1 DEF Max
<1> QED  BY <1>2

\* Of the kinds, four at most, one has the least number.
LEMMA LeastKind ==
    ASSUME NEW f, NEW S \in SUBSET (DOMAIN Turn), S # {}, \A k \in S : f[k] \in Int
    PROVE  \E k \in S : \A j \in S : f[k] <= f[j]
<1> DEFINE HasLeast(T) == T # {} => \E k \in T : \A j \in T : f[k] <= f[j]
<1>1. ASSUME NEW T \in SUBSET S, NEW x, HasLeast(T)
      PROVE  HasLeast(S \cap (T \cup {x}))
    <2>1. CASE x \notin S
        <3>1. S \cap (T \cup {x}) = T  BY <2>1
        <3> QED  BY <3>1, <1>1
    <2>2. CASE x \in S /\ T = {}  BY <2>2
    <2>3. CASE x \in S /\ T # {}
        <3>1. PICK k \in T : \A j \in T : f[k] <= f[j]  BY <1>1, <2>3
        <3>2. CASE f[x] <= f[k]
            <4>1. \A j \in S \cap (T \cup {x}) : f[x] <= f[j]  BY <3>1, <3>2, <2>3
            <4> QED  BY <4>1, <2>3
        <3>3. CASE f[k] <= f[x]
            <4>1. \A j \in S \cap (T \cup {x}) : f[k] <= f[j]  BY <3>1, <3>3, <2>3
            <4> QED  BY <4>1, <2>3
        <3> QED  BY <3>2, <3>3, <2>3
    <2> QED  BY <2>1, <2>2, <2>3
<1>2. S \subseteq {"ict", "nict", "ist", "nist"}  BY DEF Turn
<1>3. HasLeast({})  OBVIOUS
<1> DEFINE S1 == S \cap ({} \cup {"ict"})
           S2 == S \cap (S1 \cup {"nict"})
           S3 == S \cap (S2 \cup {"ist"})
           S4 == S \cap (S3 \cup {"nist"})
<1>4. S4 = S  BY <1>2
<1> HIDE DEF HasLeast
<1>5. HasLeast(S1)  BY <1>1, <1>3
<1>6. HasLeast(S2)
    <2> HIDE DEF S1
    <2>1. S1 \in SUBSET S  BY DEF S1
    <2> QED  BY <1>1, <1>5, <2>1
<1>7. HasLeast(S3)
    <2> HIDE DEF S2
    <2>1. S2 \in SUBSET S  BY DEF S2
    <2> QED  BY <1>1, <1>6, <2>1
<1>8. HasLeast(S4)
    <2> HIDE DEF S3
    <2>1. S3 \in SUBSET S  BY DEF S3
    <2> QED  BY <1>1, <1>7, <2>1
<1> HIDE DEF S4
<1>9. HasLeast(S)  BY <1>8, <1>4
<1> QED  BY <1>9 DEF HasLeast

\* The kind served first is one of those there are.
LEMMA FirstOfType ==
    ASSUME NEW S \in SUBSET Kinds, S # {}
    PROVE  FirstOf(S) \in S /\ \A j \in S : Turn[FirstOf(S)] <= Turn[j]
<1>1. S \in SUBSET (DOMAIN Turn)  BY EventLoopConstants
<1>2. \A k \in S : Turn[k] \in Int  BY <1>1 DEF Turn
<1>3. \E k \in S : \A j \in S : Turn[k] <= Turn[j]  BY <1>1, <1>2, LeastKind
<1> QED  BY <1>3 DEF FirstOf

\* After a kind come exactly those that it leaves to serve.
LEMMA AfterServes ==
    ASSUME NEW k \in Kinds
    PROVE  /\ After(k) \in Kinds \cup {"start"}
           /\ \A j \in Kinds : j # k /\ Turn[j] >= Turn[k] =>
                 After(k) \in Kinds /\ Turn[j] >= Turn[After(k)]
<1> DEFINE later == {j \in Kinds : Turn[j] > Turn[k]}
<1>1. \A i, j \in Kinds : Turn[i] \in Int /\ (i # j => Turn[i] # Turn[j])
    BY EventLoopConstants DEF Turn
<1>2. CASE later = {}
    BY <1>2, <1>1 DEF After
<1>3. CASE later # {}
    <2>1. After(k) = FirstOf(later)  BY <1>3 DEF After
    <2>2. FirstOf(later) \in later /\ \A j \in later : Turn[FirstOf(later)] <= Turn[j]
        BY <1>3, FirstOfType
    <2> QED  BY <2>1, <2>2, <1>1
<1> QED  BY <1>2, <1>3

\* A thread sleeps at most 100 ms longer than until the next timer: tv_usec is set to
\* 100 ms, the seconds are never rounded up but when tv_usec would overflow.
LEMMA SleepBound ==
    ASSUME NEW t \in Nat
    PROVE  Sleep(t) \in Int /\ Sleep(t) <= t + 1
<1>1. Second = 10 /\ Cap \in Nat  BY EventLoopConstants
<1>2. t \div 10 \in Nat /\ t % 10 \in 0 .. 9 /\ t = 10 * (t \div 10) + (t % 10)
    OBVIOUS
<1> DEFINE q == t \div 10
           r == t % 10
<1> HIDE DEF q, r
<1>3. q \in Nat /\ r \in 0 .. 9 /\ t = 10 * q + r  BY <1>2 DEF q, r
<1>4. Sleep(t) = IF q > Cap THEN Cap * 10 + r ELSE IF r < 9 THEN q * 10 + 1 ELSE (q + 1) * 10
    BY <1>1 DEF Sleep, q, r
<1> QED  BY <1>3, <1>4, <1>1

\* With no event the thread's limit is that of the first timer.
LEMMA TimeoutBound ==
    ASSUME timer \in [Kinds -> Int]
    PROVE  /\ osip_timers_gettimeout \in Nat
           /\ \A k \in Kinds : osip_timers_gettimeout <= Max({timer[k], 0})
<1> DEFINE times == {timer[k] : k \in Kinds}
<1>1. Kinds \in SUBSET (DOMAIN Turn) /\ Kinds # {} /\ \A k \in Kinds : timer[k] \in Int
    BY EventLoopConstants
<1>2. PICK k \in Kinds : \A j \in Kinds : timer[k] <= timer[j]
    BY <1>1, LeastKind
<1>3. \E x \in times : \A y \in times : x <= y  BY <1>2
<1>4. Min(times) \in times /\ \A y \in times : Min(times) <= y  BY <1>3 DEF Min
<1>5. Min(times) \in Int /\ \A j \in Kinds : Min(times) <= timer[j]  BY <1>4, <1>1
<1> DEFINE m == Min(times)
<1> HIDE DEF m
<1>6. osip_timers_gettimeout = IF "ict" \in ff THEN 0 ELSE Max({m, 0})
    <2>1. {0, m} = {m, 0}  OBVIOUS
    <2> QED  BY <2>1 DEF osip_timers_gettimeout, m
<1>7. m \in Int /\ \A j \in Kinds : m <= timer[j]  BY <1>5 DEF m
<1>8. Max({m, 0}) \in Nat /\ Max({m, 0}) \in {m, 0}  BY <1>7, MaxWithZero
<1>9. \A j \in Kinds : Max({timer[j], 0}) \in Nat /\ Max({timer[j], 0}) >= timer[j]
    BY <1>1, MaxWithZero
<1>10. \A j \in Kinds : Max({m, 0}) <= Max({timer[j], 0})  BY <1>7, <1>8, <1>9, <1>1
<1> QED  BY <1>6, <1>8, <1>9, <1>10

-----------------------------------------------------------------------------
(* The invariant. *)

\* Both threads start before anything has happened.
LEMMA LoopInitially == EventLoopInit => LoopInv
<1> SUFFICES ASSUME EventLoopInit PROVE LoopInv  OBVIOUS
<1> USE DEF EventLoopInit
<1>1. LoopTypeOK
    <2>1. timer \in [Kinds -> Int]  BY OffIsNat
    <2>2. ff \subseteq Kinds  OBVIOUS
    <2>3. packet \in BOOLEAN  OBVIOUS
    <2>4. loop \in [at : {"start", "select", "timers"} \cup Kinds, limit : Int, tells : BOOLEAN]
        OBVIOUS
    <2>5. pipe \in Nat /\ bell \in Nat /\ events \in Nat  OBVIOUS
    <2>6. caller \in {"free", "waits", "added"}  OBVIOUS
    <2> QED  BY <2>1, <2>2, <2>3, <2>4, <2>5, <2>6 DEF LoopTypeOK
<1>2. RoundServes  BY DEF RoundServes
<1>3. ThreadWakes /\ CallerWakes  BY DEF ThreadWakes, CallerWakes
<1> QED  BY <1>1, <1>2, <1>3 DEF LoopInv

\* The types alone.
LEMMA LoopTypeStep == LoopTypeOK /\ [EventLoopNext]_loopVars => LoopTypeOK'
<1> SUFFICES ASSUME LoopTypeOK, [EventLoopNext]_loopVars PROVE LoopTypeOK'  OBVIOUS
<1> USE EventLoopConstants DEF LoopTypeOK
<1>1. CASE eXosip_execute
    <2>1. osip_timers_gettimeout \in Nat  BY TimeoutBound
    <2>2. Sleep(osip_timers_gettimeout) \in Int  BY <2>1, SleepBound
    <2> QED  BY <1>1, <2>2 DEF eXosip_execute
<1>2. CASE eXosip_read_message
    <2>1. ff' \subseteq Kinds /\ packet' \in BOOLEAN  BY <1>2 DEF eXosip_read_message
    <2>2. pipe' \in Nat  BY <1>2 DEF eXosip_read_message, jpipe_read, jpipe_write
    <2> QED  BY <1>2, <2>1, <2>2 DEF eXosip_read_message
<1>3. CASE osip_timers_execute
    <2>1. FirstOf(Kinds) \in Kinds  BY FirstOfType
    <2> QED  BY <1>3, <2>1 DEF osip_timers_execute, Expired
<1>4. ASSUME NEW k \in Kinds, osip_execute(k) PROVE LoopTypeOK'
    <2>1. After(k) \in Kinds \cup {"start"}  BY AfterServes
    <2>2. timer' \in [Kinds -> Int]  BY <1>4, OffIsNat DEF osip_execute
    <2>3. loop' \in [at : {"start", "select", "timers"} \cup Kinds, limit : Int, tells : BOOLEAN]
        BY <1>4, <2>1 DEF osip_execute
    <2>4. events' \in Nat  BY <1>4 DEF osip_execute
    <2> QED  BY <1>4, <2>2, <2>3, <2>4 DEF osip_execute
<1>5. ASSUME NEW k \in Kinds, AddsEvent(k) PROVE LoopTypeOK'
    <2>1. timer' \in [Kinds -> Int]  BY <1>5 DEF AddsEvent
    <2> QED  BY <1>5, <2>1 DEF AddsEvent
<1>6. CASE eXosip_event_add
    <2>1. bell' \in Nat  BY <1>6 DEF eXosip_event_add, jpipe_write
    <2> QED  BY <1>6, <2>1 DEF eXosip_event_add
<1>7. CASE eXosip_event_wait
    BY <1>7 DEF eXosip_event_wait
<1>8. CASE EventWaited
    <2>1. events' \in Nat /\ bell' \in Nat  BY <1>8 DEF EventWaited, jpipe_read
    <2> QED  BY <1>8, <2>1 DEF EventWaited
<1>9. CASE __eXosip_wakeup
    BY <1>9 DEF __eXosip_wakeup, jpipe_write
<1>10. CASE Arrives
    BY <1>10 DEF Arrives
<1>11. CASE Tick
    BY <1>11 DEF Tick
<1>12. CASE UNCHANGED loopVars
    BY <1>12 DEF loopVars
<1> QED
    BY <1>1, <1>2, <1>3, <1>4, <1>5, <1>6, <1>7, <1>8, <1>9, <1>10, <1>11, <1>12
    DEF EventLoopNext

\* An event nobody rings for stays one the round has yet to serve.
LEMMA RoundStep == LoopInv /\ [EventLoopNext]_loopVars => RoundServes'
<1> SUFFICES ASSUME LoopInv, [EventLoopNext]_loopVars PROVE RoundServes'  OBVIOUS
<1>1. LoopTypeOK /\ RoundServes /\ LoopTypeOK'  BY LoopTypeStep DEF LoopInv
<1>2. {"start", "select", "timers"} \cap Kinds = {}  BY EventLoopConstants DEF Turn
<1>3. PipeSize \in Nat \ {0}  BY EventLoopConstants
<1> USE DEF RoundServes, Silent, ToServe
<1>4. CASE eXosip_execute
    BY <1>4, <1>1 DEF eXosip_execute, LoopTypeOK
<1>5. CASE eXosip_read_message
    <2>1. loop'.at = "timers"  BY <1>5, <1>1 DEF eXosip_read_message, LoopTypeOK
    <2> QED  BY <1>1, <1>2, <2>1 DEF LoopTypeOK
<1>6. CASE osip_timers_execute
    <2>1. loop'.at = FirstOf(Kinds)  BY <1>6, <1>1 DEF osip_timers_execute, LoopTypeOK
    <2>2. FirstOf(Kinds) \in Kinds /\ \A j \in Kinds : Turn[FirstOf(Kinds)] <= Turn[j]
        BY FirstOfType, EventLoopConstants
    <2>3. \A j \in Kinds : Turn[j] \in Int  BY EventLoopConstants DEF Turn
    <2>4. ToServe' = Kinds  BY <1>2, <2>1, <2>2, <2>3
    <2> QED  BY <1>1, <2>4 DEF LoopTypeOK
<1>7. ASSUME NEW k \in Kinds, osip_execute(k) PROVE RoundServes'
    <2> SUFFICES ASSUME Silent', NEW j \in ff' PROVE j \in ToServe'  OBVIOUS
    <2>1. j \in ff /\ j # k /\ Silent /\ loop.at = k  BY <1>7 DEF osip_execute
    <2>2. j \in Kinds /\ Turn[j] >= Turn[k]  BY <1>1, <1>2, <2>1
    <2>3. loop'.at = After(k)  BY <1>7, <1>1 DEF osip_execute, LoopTypeOK
    <2>4. After(k) \in Kinds /\ Turn[j] >= Turn[After(k)]  BY <2>1, <2>2, AfterServes
    <2> QED  BY <1>2, <2>2, <2>3, <2>4
<1>8. ASSUME NEW k \in Kinds, AddsEvent(k) PROVE RoundServes'
    BY <1>8 DEF AddsEvent
<1>9. CASE eXosip_event_add
    BY <1>9, <1>1 DEF eXosip_event_add, LoopTypeOK
<1>10. CASE eXosip_event_wait
    BY <1>10, <1>1 DEF eXosip_event_wait
<1>11. CASE EventWaited
    BY <1>11, <1>1 DEF EventWaited
<1>12. CASE __eXosip_wakeup
    <2>1. pipe' > 0  BY <1>12, <1>1, <1>3 DEF __eXosip_wakeup, jpipe_write, LoopTypeOK
    <2> QED  BY <2>1
<1>13. CASE Arrives
    BY <1>13, <1>1 DEF Arrives
<1>14. CASE Tick
    BY <1>14, <1>1 DEF Tick, LoopTypeOK
<1>15. CASE UNCHANGED loopVars
    BY <1>15, <1>1 DEF loopVars
<1> QED
    BY <1>4, <1>5, <1>6, <1>7, <1>8, <1>9, <1>10, <1>11, <1>12, <1>13, <1>14, <1>15
    DEF EventLoopNext

\* The thread still wakes in time: it falls asleep with no unannounced event and a
\* limit that suits every timer, and what changes either announces itself.
LEMMA ThreadStep == LoopInv /\ [EventLoopNext]_loopVars => ThreadWakes'
<1> SUFFICES ASSUME LoopInv, [EventLoopNext]_loopVars,
                    loop'.at = "select", pipe' = 0, caller' # "added"
             PROVE  /\ ff' # {} => loop'.limit <= 1
                    /\ \A k \in Kinds : loop'.limit <= Max({timer'[k], 0}) + 1
    BY DEF ThreadWakes
<1>1. LoopTypeOK /\ RoundServes /\ ThreadWakes  BY DEF LoopInv
<1>2. {"start", "select", "timers"} \cap Kinds = {}  BY EventLoopConstants DEF Turn
<1>3. PipeSize \in Nat \ {0}  BY EventLoopConstants
<1>4. CASE eXosip_execute
    <2>1. ff = {} /\ ff' = {}
        <3>1. loop.at = "start" /\ Silent /\ ff' = ff  BY <1>4 DEF eXosip_execute, Silent
        <3>2. ToServe = {}  BY <1>2, <3>1 DEF ToServe
        <3> QED  BY <1>1, <3>1, <3>2 DEF RoundServes
    <2>2. timer' = timer /\ loop'.limit = Sleep(osip_timers_gettimeout)
        BY <1>1, <1>4 DEF eXosip_execute, LoopTypeOK
    <2>3. timer \in [Kinds -> Int]  BY <1>1 DEF LoopTypeOK
    <2>4. osip_timers_gettimeout \in Nat
          /\ \A k \in Kinds : osip_timers_gettimeout <= Max({timer[k], 0})
        BY <2>3, TimeoutBound
    <2>5. Sleep(osip_timers_gettimeout) \in Int
          /\ Sleep(osip_timers_gettimeout) <= osip_timers_gettimeout + 1
        BY <2>4, SleepBound
    <2>6. \A k \in Kinds : Max({timer[k], 0}) \in Nat  BY <2>3, MaxWithZero
    <2> HIDE DEF osip_timers_gettimeout
    <2> QED  BY <2>1, <2>2, <2>4, <2>5, <2>6
<1>5. CASE eXosip_read_message
    BY <1>1, <1>5 DEF eXosip_read_message, LoopTypeOK
<1>6. CASE osip_timers_execute
    <2>1. loop'.at = FirstOf(Kinds)  BY <1>1, <1>6 DEF osip_timers_execute, LoopTypeOK
    <2>2. FirstOf(Kinds) \in Kinds  BY FirstOfType, EventLoopConstants
    <2> QED  BY <1>2, <2>1, <2>2
<1>7. ASSUME NEW k \in Kinds, osip_execute(k) PROVE FALSE
    <2>1. loop'.at = After(k)  BY <1>1, <1>7 DEF osip_execute, LoopTypeOK
    <2>2. After(k) \in Kinds \cup {"start"}  BY AfterServes
    <2> QED  BY <1>2, <2>1, <2>2
<1>8. ASSUME NEW k \in Kinds, AddsEvent(k) PROVE FALSE
    BY <1>8 DEF AddsEvent
<1>9. CASE __eXosip_wakeup
    <2>1. pipe' > 0  BY <1>9, <1>1, <1>3 DEF __eXosip_wakeup, jpipe_write, LoopTypeOK
    <2> QED  BY <2>1
<1>10. CASE Tick
    <2>1. loop.at = "select" /\ pipe = 0 /\ caller # "added" /\ ff' = ff
        BY <1>1, <1>10 DEF Tick, LoopTypeOK
    <2>2. loop.limit \in Int /\ loop.limit > 0 /\ loop'.limit = loop.limit - 1
        BY <1>1, <1>10 DEF Tick, Ready, LoopTypeOK
    <2>3. ff # {} => loop.limit <= 1  BY <1>1, <2>1 DEF ThreadWakes
    <2>4. ASSUME NEW k \in Kinds PROVE loop'.limit <= Max({timer'[k], 0}) + 1
        <3>1. loop.limit <= Max({timer[k], 0}) + 1  BY <1>1, <2>1 DEF ThreadWakes
        <3>2. timer[k] \in Int  BY <1>1 DEF LoopTypeOK
        <3>3. timer'[k] \in {timer[k], timer[k] - 1}  BY <1>10 DEF Tick
        <3>4. timer'[k] \in Int  BY <3>2, <3>3
        <3> DEFINE before == Max({timer[k], 0})
                   after == Max({timer'[k], 0})
        <3>5. before \in Nat /\ before \in {timer[k], 0}  BY <3>2, MaxWithZero
        <3>6. after \in Nat /\ after >= timer'[k]  BY <3>4, MaxWithZero
        <3>7. loop.limit <= before + 1  BY <3>1
        <3> HIDE DEF before, after
        <3>8. loop'.limit <= after + 1  BY <3>2, <3>3, <3>5, <3>6, <3>7, <2>2
        <3> QED  BY <3>8 DEF after
    <2> QED  BY <2>1, <2>2, <2>3, <2>4
<1>11. CASE UNCHANGED <<timer, ff, pipe, loop>> /\ caller # "added"
    <2>1. loop.at = "select" /\ pipe = 0  BY <1>11
    <2>2. /\ ff # {} => loop.limit <= 1
          /\ \A k \in Kinds : loop.limit <= Max({timer[k], 0}) + 1
        BY <1>1, <1>11, <2>1 DEF ThreadWakes
    <2> QED  BY <1>11, <2>2
<1>12. CASE eXosip_event_add
    <2>1. /\ loop'.at = loop.at /\ loop'.limit = loop.limit
          /\ UNCHANGED <<timer, ff, pipe>> /\ caller # "added"
        BY <1>1, <1>12 DEF eXosip_event_add, LoopTypeOK
    <2>2. /\ ff # {} => loop.limit <= 1
          /\ \A k \in Kinds : loop.limit <= Max({timer[k], 0}) + 1
        BY <1>1, <2>1 DEF ThreadWakes
    <2> QED  BY <2>1, <2>2
<1>13. CASE eXosip_event_wait
    BY <1>11, <1>13 DEF eXosip_event_wait
<1>14. CASE EventWaited
    BY <1>11, <1>14 DEF EventWaited
<1>15. CASE Arrives
    BY <1>11, <1>15 DEF Arrives
<1>16. CASE UNCHANGED loopVars
    BY <1>11, <1>16 DEF loopVars
<1> QED
    BY <1>4, <1>5, <1>6, <1>7, <1>8, <1>9, <1>10, <1>12, <1>13, <1>14, <1>15, <1>16
    DEF EventLoopNext

\* CallThread still wakes for what it is told: the event is there before its bell is
\* rung, and the bell is emptied only when CallThread looks.
LEMMA CallerStep == LoopInv /\ [EventLoopNext]_loopVars => CallerWakes'
<1> SUFFICES ASSUME LoopInv, [EventLoopNext]_loopVars, caller' = "waits", events' > 0
             PROVE  bell' > 0 \/ loop'.tells
    BY DEF CallerWakes
<1>1. LoopTypeOK /\ CallerWakes  BY DEF LoopInv
<1>2. PipeSize \in Nat \ {0}  BY EventLoopConstants
<1>3. CASE UNCHANGED <<events, bell, caller>> /\ loop'.tells = loop.tells
    BY <1>1, <1>3 DEF CallerWakes
<1>4. CASE eXosip_execute
    BY <1>1, <1>3, <1>4 DEF eXosip_execute, LoopTypeOK
<1>5. CASE eXosip_read_message
    BY <1>1, <1>3, <1>5 DEF eXosip_read_message, LoopTypeOK
<1>6. CASE osip_timers_execute
    BY <1>1, <1>3, <1>6 DEF osip_timers_execute, LoopTypeOK
<1>7. ASSUME NEW k \in Kinds, osip_execute(k) PROVE bell' > 0 \/ loop'.tells
    <2>1. loop'.tells \/ (events' = events /\ loop'.tells = loop.tells)
        BY <1>1, <1>7 DEF osip_execute, LoopTypeOK
    <2>2. bell' = bell /\ caller' = caller  BY <1>7 DEF osip_execute
    <2> QED  BY <1>3, <2>1, <2>2
<1>8. ASSUME NEW k \in Kinds, AddsEvent(k) PROVE FALSE
    BY <1>8 DEF AddsEvent
<1>9. CASE eXosip_event_add
    BY <1>1, <1>2, <1>9 DEF eXosip_event_add, jpipe_write, LoopTypeOK
<1>10. CASE eXosip_event_wait
    BY <1>1, <1>10 DEF eXosip_event_wait, LoopTypeOK
<1>11. CASE EventWaited
    BY <1>11 DEF EventWaited
<1>12. CASE __eXosip_wakeup
    BY <1>12 DEF __eXosip_wakeup
<1>13. CASE Arrives
    BY <1>3, <1>13 DEF Arrives
<1>14. CASE Tick
    BY <1>1, <1>3, <1>14 DEF Tick, LoopTypeOK
<1>15. CASE UNCHANGED loopVars
    BY <1>3, <1>15 DEF loopVars
<1> QED
    BY <1>4, <1>5, <1>6, <1>7, <1>8, <1>9, <1>10, <1>11, <1>12, <1>13, <1>14, <1>15
    DEF EventLoopNext

\* The round of eXosip_execute, the sleep in eXosip_read_message and the wait of
\* eXosip_event_wait keep the invariant.
THEOREM LoopInvHolds == EventLoopSpec => []LoopInv
<1>1. LoopInv /\ [EventLoopNext]_loopVars => LoopInv'
    BY LoopTypeStep, RoundStep, ThreadStep, CallerStep DEF LoopInv
<1> QED  BY LoopInitially, <1>1, PTL DEF EventLoopSpec

\* Neither thread oversleeps: however the writes into the two pipes, the reads that
\* empty them and the looks at the queues are interleaved, eXosip's thread in select
\* has nothing unannounced to do and no timer due more than 100 ms before its limit,
\* and CallThread in select is woken for every event.
THEOREM NoWakeupIsLost == EventLoopSpec => []WakesInTime
<1>1. LoopInv => WakesInTime  BY DEF LoopInv, WakesInTime
<1> QED  BY LoopInvHolds, <1>1, PTL
=============================================================================
