------------------------------ MODULE EventLoop ------------------------------
(***************************************************************************)
(* eXosip's thread (eXconf.c, udp.c) and CallThread, which waits for its   *)
(* events (jevents.c): each sleeps in select until a byte in a pipe, a     *)
(* packet or a limit wakes it.  Times are tenths of a second, counted down; *)
(* what the threads do in between takes no time.  What a transaction does  *)
(* with an event is in OsipFsm: here it stops or starts its timer and may  *)
(* tell the application.  One transaction of each kind stands for all.     *)
(***************************************************************************)
EXTENDS Integers, FiniteSets, FiniteSetsExt

CONSTANTS
    Kinds,    \* kinds of transactions, of "ict", "nict", "ist", "nist"
    Delays,   \* times a timer may be set to
    Second,   \* tenths in a second (10)
    Cap,      \* seconds the thread sleeps at most (15)
    PipeSize, \* bytes a pipe takes
    MaxTold   \* bound: events the application has not taken

\* The kinds in the order eXosip_execute serves them.
Turn == [ict |-> 1, nict |-> 2, ist |-> 3, nist |-> 4]

ASSUME EventLoopConstants ==
    /\ Kinds \subseteq DOMAIN Turn /\ Kinds # {}
    /\ Delays \subseteq Nat
    /\ Second = 10 /\ Cap \in Nat
    /\ PipeSize \in Nat \ {0} /\ MaxTold \in Nat

VARIABLES
    timer,   \* by kind, the time left, or Off
    ff,      \* kinds with an event in transactionff
    pipe,    \* bytes in j_socketctl
    packet,  \* is one waiting in the UDP socket
    loop,    \* eXosip's thread: at, its limit in select, and whether it has yet to wake CallThread
    events,  \* number of j_events
    bell,    \* bytes in j_socketctl_event
    caller   \* CallThread: "free", "waits" in select, or "added" an event and has yet to wake the thread

loopVars == <<timer, ff, pipe, packet, loop, events, bell, caller>>

Off == 1000000

FirstOf(ks) == CHOOSE k \in ks : \A j \in ks : Turn[k] <= Turn[j]

\* The write end does not block: a byte too many is dropped.
jpipe_write(bytes) == IF bytes < PipeSize THEN bytes + 1 ELSE bytes

\* Up to 499 bytes: all there are.
jpipe_read(bytes) == 0

-----------------------------------------------------------------------------
(* eXosip's thread. *)

\* Until the first timer; an event is looked for in INVITE client transactions only.
osip_timers_gettimeout ==
    IF "ict" \in ff THEN 0 ELSE Max({0, Min({timer[k] : k \in Kinds})})

\* tv_usec is replaced by 100 ms, not increased: too early is tried again.
Sleep(t) ==
    IF t \div Second > Cap THEN Cap * Second + (t % Second)
    ELSE IF t % Second < 9 THEN (t \div Second) * Second + 1
    ELSE (t \div Second + 1) * Second

eXosip_execute ==
    /\ loop.at = "start" /\ ~loop.tells
    /\ loop' = [loop EXCEPT !.at = "select", !.limit = Sleep(osip_timers_gettimeout)]
    /\ UNCHANGED <<timer, ff, pipe, packet, events, bell, caller>>

Ready == pipe > 0 \/ packet \/ loop.limit <= 0

\* The pipe is emptied before anything is looked at; a packet is for some
\* transaction, old or new, and its handler may write into the pipe.
eXosip_read_message ==
    /\ loop.at = "select" /\ Ready
    /\ loop' = [loop EXCEPT !.at = "timers"]
    /\ packet' = FALSE
    /\ IF packet THEN \E k \in Kinds : ff' = ff \cup {k} ELSE UNCHANGED ff
    /\ \/ pipe' = jpipe_read(pipe)
       \/ packet /\ pipe' = jpipe_write(jpipe_read(pipe))
    /\ UNCHANGED <<timer, events, bell, caller>>

\* osip_timers_*_execute.  An INVITE client transaction with an event waits for the next round.
Expired == {k \in Kinds : timer[k] <= 0 /\ ~(k = "ict" /\ k \in ff)}

osip_timers_execute ==
    /\ loop.at = "timers"
    /\ ff' = ff \cup Expired
    /\ loop' = [loop EXCEPT !.at = FirstOf(Kinds)]
    /\ UNCHANGED <<timer, pipe, packet, events, bell, caller>>

After(k) ==
    LET later == {j \in Kinds : Turn[j] > Turn[k]}
    IN  IF later = {} THEN "start" ELSE FirstOf(later)

\* osip_ict_execute, osip_nict_execute, osip_ist_execute, osip_nist_execute: until no event is left.
osip_execute(k) ==
    /\ loop.at = k /\ ~loop.tells
    /\ ff' = ff \ {k}
    /\ IF k \in ff THEN \E t \in Delays \cup {Off} : timer' = [timer EXCEPT ![k] = t] ELSE UNCHANGED timer
    /\ \/ loop' = [loop EXCEPT !.at = After(k)] /\ UNCHANGED events
       \/ /\ k \in ff /\ events < MaxTold
          /\ loop' = [loop EXCEPT !.at = After(k), !.tells = TRUE] /\ events' = events + 1
    /\ UNCHANGED <<pipe, packet, bell, caller>>

\* The event is in j_events first, then CallThread is woken.
eXosip_event_add ==
    /\ loop.tells
    /\ bell' = jpipe_write(bell)
    /\ loop' = [loop EXCEPT !.tells = FALSE]
    /\ UNCHANGED <<timer, ff, pipe, packet, events, caller>>

-----------------------------------------------------------------------------
(* CallThread. *)

\* An event that is there is taken with its byte left behind.
eXosip_event_wait ==
    /\ caller = "free"
    /\ IF events > 0 THEN events' = events - 1 /\ UNCHANGED caller ELSE caller' = "waits" /\ UNCHANGED events
    /\ UNCHANGED <<timer, ff, pipe, packet, loop, bell>>

\* Woken, or 50 ms are over.
EventWaited ==
    /\ caller = "waits" /\ caller' = "free"
    /\ bell' = jpipe_read(bell)
    /\ events' = IF bell > 0 /\ events > 0 THEN events - 1 ELSE events
    /\ UNCHANGED <<timer, ff, pipe, packet, loop>>

\* A function of the API: a request of its own starts its timers at once.
AddsEvent(k) ==
    /\ caller = "free" /\ caller' = "added"
    /\ ff' = ff \cup {k}
    /\ IF k \in {"ict", "nict"} /\ timer[k] = Off THEN \E t \in Delays : timer' = [timer EXCEPT ![k] = t]
       ELSE UNCHANGED timer
    /\ UNCHANGED <<pipe, packet, loop, events, bell>>

\* Faulty variant: nobody is woken.
wakeup_forgotten ==
    /\ caller = "added" /\ caller' = "free"
    /\ UNCHANGED <<timer, ff, pipe, packet, loop, events, bell>>

__eXosip_wakeup ==
    /\ caller = "added" /\ caller' = "free"
    /\ pipe' = jpipe_write(pipe)
    /\ UNCHANGED <<timer, ff, packet, loop, events, bell>>

-----------------------------------------------------------------------------
Arrives ==
    /\ ~packet /\ packet' = TRUE
    /\ UNCHANGED <<timer, ff, pipe, loop, events, bell, caller>>

\* Time passes while both threads sleep.
Tick ==
    /\ loop.at = "select" /\ ~Ready /\ ~loop.tells /\ caller = "waits" /\ bell = 0
    /\ timer' = [k \in Kinds |-> IF timer[k] = Off THEN Off ELSE timer[k] - 1]
    /\ loop' = [loop EXCEPT !.limit = @ - 1]
    /\ UNCHANGED <<ff, pipe, packet, events, bell, caller>>

EventLoopInit ==
    /\ timer = [k \in Kinds |-> Off] /\ ff = {} /\ pipe = 0 /\ packet = FALSE
    /\ loop = [at |-> "start", limit |-> 0, tells |-> FALSE]
    /\ events = 0 /\ bell = 0 /\ caller = "free"

EventLoopNext ==
    \/ eXosip_execute \/ eXosip_read_message \/ osip_timers_execute
    \/ \E k \in Kinds : osip_execute(k) \/ AddsEvent(k)
    \/ eXosip_event_add \/ eXosip_event_wait \/ EventWaited \/ __eXosip_wakeup
    \/ Arrives \/ Tick

EventLoopSpec == EventLoopInit /\ [][EventLoopNext]_loopVars

\* Asleep, eXosip's thread misses nothing: no event waits for longer than a tenth
\* of a second and no timer is overslept by more.
ThreadWakes ==
    loop.at = "select" /\ pipe = 0 /\ caller # "added" =>
        /\ ff # {} => loop.limit <= 1
        /\ \A k \in Kinds : loop.limit <= Max({timer[k], 0}) + 1

\* Asleep, CallThread is woken for every event.
CallerWakes == caller = "waits" /\ events > 0 => bell > 0 \/ loop.tells

\* No wake-up is lost: when eXosip's thread or CallThread sleeps in select, nothing
\* waits for it but what will wake it, or what it will find within 100 ms.
\* (caller is "none" in a run without these threads.)
WakesInTime == caller # "none" => ThreadWakes /\ CallerWakes
=============================================================================
