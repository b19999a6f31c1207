---------------------------- MODULE AudioThreads -----------------------------
(***************************************************************************)
(* The threads around an audio session: oRTP's scheduler, the two threads  *)
(* rtpAudioSetup starts, CallThread that starts and kills them, and main,  *)
(* which starts the scheduler.                                             *)
(*                                                                         *)
(* The PSP runs the ready thread of the most urgent (lowest) priority and  *)
(* takes it off only when it blocks or when a more urgent one is ready.    *)
(* Threads of one priority are taken in any order.  A step ends where the  *)
(* thread calls the kernel.  Semaphores and event flags have the kernel's  *)
(* meaning; mutexes and conditions are what port.c makes of them.          *)
(*                                                                         *)
(* Time is relative: due[t] is how many scheduler ticks lie between        *)
(* sched->time_ and the time of the packet thread t handles.               *)
(***************************************************************************)
EXTENDS Integers

CONSTANTS
    Interval,   \* ticks (10 ms) between two packets: 160 samples, 20 ms
    MaxLag,     \* a thread that is later than this counts as this late
    MaxResets   \* changes of the remote source in one call

ASSUME AudioConstants ==
    Interval \in Nat \ {0} /\ {MaxLag, MaxResets} \subseteq Nat

VARIABLES
    pc,       \* where each thread is
    visit,    \* the wait point the scheduler looks at
    sem,      \* semaphores: sched->lock ("list"), snd.wp.lock and rcv.wp.lock
    flag,     \* event flags snd.wp.cond, rcv.wp.cond and unblock_select_cond
    wp,       \* snd.wp and rcv.wp: wakeup and the ticks to wp.time
    due,      \* see above
    fresh,    \* RTP_SESSION_SEND_NOT_STARTED, RTP_SESSION_RECV_NOT_STARTED
    resets,   \* changes of the remote source so far
    session,  \* the RtpSession: "none", "alive", "freed"
    listed    \* it is in sched->list

vars == <<pc, visit, sem, flag, wp, due, fresh, resets, session, listed>>

Audio   == {"send", "recv"}
Threads == Audio \cup {"sched", "call", "main"}

\* Faulty variant: the audio threads are as urgent as CallThread.
SamePrio(t) == IF t = "main" THEN 32 ELSE 24

\* The priorities given to sceKernelCreateThread; main has the default.
Prio(t) == CASE t \in Audio -> 16
             [] t \in {"sched", "call"} -> 24
             [] t = "main" -> 32

AudioPlaces == {"dead", "begin", "enter", "check", "asleep", "woken", "leave", "io"}
SchedPlaces == {"none", "start", "signal", "scan", "walk", "enter", "check", "leave",
                "end", "sleep"}
CallPlaces  == {"idle", "add", "added", "spawn_recv", "spawn_send", "incall",
                "kill_recv", "remove", "removed", "free"}
MainPlaces  == {"init", "spawn", "wait", "again", "unlock", "up"}

TypeOK ==
    /\ \A t \in Audio : pc[t] \in AudioPlaces
    /\ pc["sched"] \in SchedPlaces /\ pc["call"] \in CallPlaces /\ pc["main"] \in MainPlaces
    /\ visit \in Audio
    /\ sem \in [Audio \cup {"list"} -> 0 .. 1]
    /\ flag \in [Audio \cup {"list"} -> 0 .. 1]
    /\ wp \in [Audio -> [wakeup : BOOLEAN, left : 0 .. Interval]]
    /\ due \in [Audio -> -MaxLag .. Interval]
    /\ fresh \in [Audio -> BOOLEAN]
    /\ resets \in 0 .. MaxResets
    /\ session \in {"none", "alive", "freed"}
    /\ listed \in BOOLEAN

Init ==
    /\ pc = [t \in Threads |-> CASE t \in Audio -> "dead" [] t = "sched" -> "none"
                                 [] t = "call" -> "idle"  [] t = "main" -> "init"]
    /\ visit = "send"
    /\ sem = [l \in Audio \cup {"list"} |-> 1]
    /\ flag = [l \in Audio \cup {"list"} |-> 0]
    /\ wp = [t \in Audio |-> [wakeup |-> FALSE, left |-> 0]]
    /\ due = [t \in Audio |-> 0]
    /\ fresh = [t \in Audio |-> TRUE]
    /\ resets = 0
    /\ session = "none" /\ listed = FALSE

-----------------------------------------------------------------------------
(* The kernel. *)

\* The semaphore a thread needs for its next step.
Wants(t) ==
    IF t \in Audio THEN IF pc[t] = "enter" THEN {t} ELSE {}
    ELSE IF pc[t] \in {"start", "scan", "add", "remove", "init"} THEN {"list"}
    ELSE IF t = "sched" /\ pc[t] = "enter" THEN {visit} ELSE {}

Asleep(t) ==
    \/ t \in Audio /\ pc[t] \in {"dead", "io"}
    \/ t \in Audio /\ pc[t] = "asleep" /\ flag[t] = 0
    \/ t = "sched" /\ pc[t] \in {"none", "sleep"}
    \/ t = "call" /\ pc[t] \in {"idle", "incall"}
    \/ t = "main" /\ pc[t] = "up"
    \/ t = "main" /\ pc[t] = "wait" /\ flag["list"] = 0

Ready(t) == ~Asleep(t) /\ \A l \in Wants(t) : sem[l] = 1

\* No ready thread is more urgent than t.
Turn(t) == \A u \in Threads : Ready(u) => Prio(u) >= Prio(t)

Runs(t, from, to) ==
    /\ pc[t] = from /\ Ready(t) /\ Turn(t)
    /\ pc' = [pc EXCEPT ![t] = to]

\* sceKernelSignalSema refuses to count above 1.
psp_mutex_lock(l)   == sem' = [sem EXCEPT ![l] = 0]
psp_mutex_unlock(l) == sem' = [sem EXCEPT ![l] = 1]
psp_cond_signal(l)  == flag' = [flag EXCEPT ![l] = 1]

-----------------------------------------------------------------------------
(* main starts the scheduler.  psp_cond_wait unlocks, waits for the flag and *)
(* clears it, and then unlocks again where it should lock.                   *)

rtp_scheduler_start ==
    \/ Runs("main", "init", "spawn") /\ psp_mutex_lock("list") /\ UNCHANGED flag
    \/ /\ pc["main"] = "spawn" /\ Turn("main")
       /\ pc' = [pc EXCEPT !["main"] = "wait", !["sched"] = "start"]
       /\ psp_mutex_unlock("list") /\ UNCHANGED flag
    \/ Runs("main", "wait", "again") /\ flag' = [flag EXCEPT !["list"] = 0] /\ UNCHANGED sem
    \/ Runs("main", "again", "unlock") /\ psp_mutex_unlock("list") /\ UNCHANGED flag
    \/ Runs("main", "unlock", "up") /\ psp_mutex_unlock("list") /\ UNCHANGED flag

Main ==
    /\ rtp_scheduler_start
    /\ UNCHANGED <<visit, wp, due, fresh, resets, session, listed>>

-----------------------------------------------------------------------------
(* The scheduler thread. *)

\* wait_point_check and, when it is time, wait_point_wakeup.
wait_point_check(t) ==
    IF wp[t].wakeup /\ wp[t].left = 0
    THEN wp' = [wp EXCEPT ![t].wakeup = FALSE] /\ psp_cond_signal(t)
    ELSE UNCHANGED <<wp, flag>>

\* Faulty variant: only the sending side is looked at.
process_send_only ==
    \/ /\ Runs("sched", "enter", "check") /\ psp_mutex_lock(visit)
       /\ UNCHANGED <<visit, wp, flag>>
    \/ /\ Runs("sched", "check", "leave") /\ wait_point_check(visit)
       /\ UNCHANGED <<visit, sem>>
    \/ /\ Runs("sched", "leave", "end") /\ psp_mutex_unlock(visit)
       /\ UNCHANGED <<visit, wp, flag>>

\* One wait point of the session, under its lock; then the other or the end.
rtp_session_process ==
    \/ /\ Runs("sched", "enter", "check") /\ psp_mutex_lock(visit)
       /\ UNCHANGED <<visit, wp, flag>>
    \/ /\ Runs("sched", "check", "leave") /\ wait_point_check(visit)
       /\ UNCHANGED <<visit, sem>>
    \/ /\ Runs("sched", "leave", IF visit = "send" THEN "enter" ELSE "end")
       /\ psp_mutex_unlock(visit) /\ visit' = "recv"
       /\ UNCHANGED <<wp, flag>>

rtp_scheduler_schedule ==
    \/ /\ Runs("sched", "start", "signal") /\ psp_mutex_lock("list")
       /\ psp_cond_signal("list") /\ UNCHANGED <<visit, wp>>
    \/ /\ Runs("sched", "signal", "scan") /\ psp_mutex_unlock("list")
       /\ UNCHANGED <<visit, wp, flag>>
    \/ /\ Runs("sched", "scan", "walk") /\ psp_mutex_lock("list")
       /\ UNCHANGED <<visit, wp, flag>>
    \/ /\ Runs("sched", "walk", IF listed THEN "enter" ELSE "end")
       /\ visit' = "send" /\ UNCHANGED <<sem, wp, flag>>
    \/ rtp_session_process
    \/ /\ Runs("sched", "end", "sleep") /\ psp_mutex_unlock("list")
       /\ UNCHANGED <<visit, wp, flag>>

Scheduler ==
    /\ rtp_scheduler_schedule
    /\ UNCHANGED <<due, fresh, resets, session, listed>>

Less(n, low) == IF n > low THEN n - 1 ELSE low

\* timer_do returns and sched->time_ moves on.
Tick ==
    /\ pc["sched"] = "sleep"
    /\ pc' = [pc EXCEPT !["sched"] = "scan"]
    /\ due' = [t \in Audio |-> Less(due[t], -MaxLag)]
    /\ wp' = [t \in Audio |-> [wp[t] EXCEPT !.left = Less(@, 0)]]
    /\ UNCHANGED <<visit, sem, flag, fresh, resets, session, listed>>

-----------------------------------------------------------------------------
(* The audio threads: rtpAudioSend in rtp_session_sendm_with_ts, rtpAudioRecv *)
(* in rtp_session_recvm_with_ts.                                             *)

\* The first call sets the offsets: its packet is due now.
Begins(t) ==
    /\ Runs(t, "begin", "enter")
    /\ due' = [due EXCEPT ![t] = IF fresh[t] THEN 0 ELSE @]
    /\ fresh' = [fresh EXCEPT ![t] = FALSE]
    /\ UNCHANGED <<sem, flag, wp>>

\* rtpAudioRecv reads a packet of another source: "ssrc_changed" is connected
\* to rtp_session_reset, which forgets the offsets of both directions.  The
\* call it happens in goes on with offsets of zero: it does not wait.
rtp_session_reset ==
    /\ resets < MaxResets
    /\ Runs("recv", "begin", "enter")
    /\ resets' = resets + 1
    /\ due' = [due EXCEPT !["recv"] = -MaxLag]
    /\ fresh' = [t \in Audio |-> TRUE]
    /\ UNCHANGED <<sem, flag, wp>>

\* TIME_IS_STRICTLY_NEWER_THAN (packet_time, sched->time_), and
\* wait_point_wakeup_at with its psp_cond_wait up to the wait.
MayWait(t) ==
    \/ Runs(t, "enter", "check") /\ psp_mutex_lock(t) /\ UNCHANGED wp
    \/ /\ due[t] > 0 /\ Runs(t, "check", "asleep")
       /\ wp' = [wp EXCEPT ![t] = [wakeup |-> TRUE, left |-> due[t]]]
       /\ psp_mutex_unlock(t)
    \/ due[t] <= 0 /\ Runs(t, "check", "leave") /\ UNCHANGED <<sem, wp>>

\* The rest of psp_cond_wait: the flag is cleared, the mutex signalled.
WakesUp(t) ==
    \/ Runs(t, "asleep", "woken") /\ flag' = [flag EXCEPT ![t] = 0] /\ UNCHANGED sem
    \/ Runs(t, "woken", "leave") /\ psp_mutex_unlock(t) /\ UNCHANGED flag

\* The packet is sent or returned; ts += 160.  The thread then blocks on its
\* device (or is back at once, IoDone being always possible).
HandlesPacket(t) ==
    /\ Runs(t, "leave", "io") /\ psp_mutex_unlock(t)
    /\ due' = [due EXCEPT ![t] = @ + Interval]
    /\ UNCHANGED <<flag, wp, fresh>>

AudioStep(t) ==
    /\ \/ Begins(t) /\ UNCHANGED resets
       \/ t = "recv" /\ rtp_session_reset
       \/ MayWait(t) /\ UNCHANGED <<flag, due, fresh, resets>>
       \/ WakesUp(t) /\ UNCHANGED <<wp, due, fresh, resets>>
       \/ HandlesPacket(t) /\ UNCHANGED resets
    /\ UNCHANGED <<visit, session, listed>>

\* The microphone, the file, the socket or the speaker is done with.
IoDone(t) ==
    /\ pc[t] = "io"
    /\ pc' = [pc EXCEPT ![t] = "begin"]
    /\ UNCHANGED <<visit, sem, flag, wp, due, fresh, resets, session, listed>>

-----------------------------------------------------------------------------
(* CallThread. *)

\* rtp_session_new with its wait points.
rtp_session_new ==
    /\ pc["call"] = "idle" /\ pc["main"] = "up" /\ Turn("call")
    /\ pc' = [pc EXCEPT !["call"] = "add"]
    /\ session' = "alive"
    /\ sem' = [sem EXCEPT !["send"] = 1, !["recv"] = 1]
    /\ flag' = [flag EXCEPT !["send"] = 0, !["recv"] = 0]
    /\ wp' = [t \in Audio |-> [wakeup |-> FALSE, left |-> 0]]
    /\ fresh' = [t \in Audio |-> TRUE] /\ due' = [t \in Audio |-> 0]
    /\ resets' = 0
    /\ UNCHANGED listed

rtp_scheduler_add_session ==
    \/ Runs("call", "add", "added") /\ psp_mutex_lock("list") /\ listed' = TRUE
    \/ Runs("call", "added", "spawn_recv") /\ psp_mutex_unlock("list") /\ UNCHANGED listed

\* The receiving thread first; each is more urgent and runs at once.
StartThreads ==
    \/ /\ pc["call"] = "spawn_recv" /\ Turn("call")
       /\ pc' = [pc EXCEPT !["call"] = "spawn_send", !["recv"] = "begin"]
    \/ /\ pc["call"] = "spawn_send" /\ Turn("call")
       /\ pc' = [pc EXCEPT !["call"] = "incall", !["send"] = "begin"]

\* Faulty variant: the list is changed without its lock.
remove_unlocked ==
    \/ /\ pc["call"] = "remove" /\ Turn("call")
       /\ pc' = [pc EXCEPT !["call"] = "removed"] /\ listed' = FALSE /\ UNCHANGED sem
    \/ Runs("call", "removed", "free") /\ UNCHANGED <<listed, sem>>

rtp_scheduler_remove_session ==
    \/ Runs("call", "remove", "removed") /\ psp_mutex_lock("list") /\ listed' = FALSE
    \/ Runs("call", "removed", "free") /\ psp_mutex_unlock("list") /\ UNCHANGED listed

\* rtpAudioStop: both threads are ended wherever they are, the sending one
\* first; then rtp_session_destroy.
rtpAudioStop ==
    \/ /\ pc["call"] = "incall" /\ Turn("call")
       /\ pc' = [pc EXCEPT !["call"] = "kill_recv", !["send"] = "dead"]
       /\ UNCHANGED <<sem, listed, session>>
    \/ /\ pc["call"] = "kill_recv" /\ Turn("call")
       /\ pc' = [pc EXCEPT !["call"] = "remove", !["recv"] = "dead"]
       /\ UNCHANGED <<sem, listed, session>>
    \/ rtp_scheduler_remove_session /\ UNCHANGED session
    \/ Runs("call", "free", "idle") /\ session' = "freed" /\ UNCHANGED <<sem, listed>>

Call ==
    /\ \/ rtp_session_new
       \/ /\ rtp_scheduler_add_session
          /\ UNCHANGED <<flag, wp, due, fresh, resets, session>>
       \/ StartThreads /\ UNCHANGED <<sem, flag, wp, due, fresh, resets, session, listed>>
       \/ rtpAudioStop /\ UNCHANGED <<flag, wp, due, fresh, resets>>
    /\ UNCHANGED visit

-----------------------------------------------------------------------------
Next ==
    \/ Main \/ Scheduler \/ Tick \/ Call
    \/ \E t \in Audio : AudioStep(t) \/ IoDone(t)

Spec == Init /\ [][Next]_vars

\* The kernel runs a thread that may run, the timer and the devices come back.
\* A semaphore goes to the thread that waits for it (strong fairness of the
\* steps of CallThread, which wait for sched->lock).  No call need ever come or
\* end.
Fairness ==
    /\ WF_vars(Main) /\ WF_vars(Scheduler) /\ WF_vars(Tick)
    /\ \A t \in Audio : WF_vars(AudioStep(t)) /\ WF_vars(IoDone(t))
    /\ SF_vars(Call /\ pc["call"] \notin {"idle", "incall"})

FairSpec == Spec /\ Fairness

-----------------------------------------------------------------------------
(* Properties. *)

\* A packet is sent, or handed to the speaker, at its time and never earlier:
\* the flag a thread waits for is never left over from an earlier wait, although
\* psp_cond_wait returns without the mutex.
NotEarly == \A t \in Audio : pc[t] = "leave" => due[t] <= 0

\* sceKernelTerminateDeleteThread never ends a thread between wait_point_lock and
\* wait_point_unlock: a semaphore that is taken is given back by a thread that
\* lives (audio.c:231).
Holds(t, l) ==
    \/ t = "sched" /\ l = "list" /\ pc[t] \in {"signal", "walk", "enter", "check", "leave", "end"}
    \/ t = "sched" /\ l = visit /\ pc[t] \in {"check", "leave"}
    \/ t = l /\ pc[t] \in {"check", "leave"}
    \/ t = "call" /\ l = "list" /\ pc[t] \in {"added", "removed"}
    \/ t = "main" /\ l = "list" /\ pc[t] = "spawn"

NoLockLeaks == \A l \in DOMAIN sem : sem[l] = 0 => \E t \in Threads : Holds(t, l)

\* Nobody uses an RtpSession that is freed: the scheduler walks only a live one,
\* and the audio threads are gone before rtp_session_destroy.
NoUseAfterFree ==
    /\ pc["sched"] \in {"enter", "check", "leave"} => session = "alive" /\ pc["call"] # "free"
    /\ \A t \in Audio : pc[t] # "dead" => session = "alive"

\* Wherever an audio thread is ended: nothing freed is in use, no lock stays with
\* the dead, and nobody was woken before its time.
ThreadsSafe == NoUseAfterFree /\ NoLockLeaks /\ NotEarly

\* rtpAudioStop returns: CallThread is not left waiting for sched->lock.
StopReturns == pc["call"] = "kill_recv" ~> pc["call"] = "idle"

\* A thread that waits for the time of its packet gets it, unless it is ended.
PacketsFlow == \A t \in Audio : pc[t] = "asleep" ~> pc[t] \in {"io", "dead"}
====
