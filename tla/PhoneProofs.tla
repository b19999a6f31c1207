---------------------------- MODULE PhoneProofs ----------------------------
(***************************************************************************)
(* Theorems about the whole phone, for every number of calls, length of    *)
(* the event FIFO, number of retries, set of faults, with and without a    *)
(* ring tone: first about CallControl, on its own as well as under main(), *)
(* then about what CallThread, main() and the ringer threads share.        *)
(***************************************************************************)
EXTENDS Phone, FiniteSetTheorems, TLAPS

-----------------------------------------------------------------------------
(* The call table. *)

\* What every operation on the table keeps: its invariant, its type, and the
\* dialogs that were ever made.
TableStep ==
    /\ calls' \in [Call -> CallRecord]
    /\ CallTable'
    /\ \A c \in Call : calls[c].dlg # "none" => calls'[c].dlg # "none"

\* An operation that replaces one entry by a good one, and does not unmake its
\* dialog, keeps the table.
LEMMA OneEntry ==
    ASSUME calls \in [Call -> CallRecord], CallTable,
           NEW c \in Call, NEW r \in CallRecord, EntryOK(r),
           calls[c].dlg # "none" => r.dlg # "none",
           calls' = [calls EXCEPT ![c] = r]
    PROVE  TableStep
BY DEF TableStep, CallTable

\* An operation that leaves the table alone keeps it.
LEMMA SameTable ==
    ASSUME calls \in [Call -> CallRecord], CallTable, UNCHANGED calls
    PROVE  TableStep
BY DEF TableStep, CallTable

\* Each message about a call that eXosip's thread handles keeps the table.
LEMMA MessageKeepsTable ==
    ASSUME calls \in [Call -> CallRecord], CallTable, RcvCallMessage
    PROVE  TableStep
<1> PICK c \in Call :
        \/ Rcv100(c) \/ Rcv180(c) \/ Rcv200(c)
        \/ \E type \in CallEventType : RcvFailure(c, type)
        \/ RcvChallenge(c) \/ InviteTimeout(c) \/ RcvCancel(c) \/ Snd603(c)
        \/ RcvAck(c) \/ RcvBye(c)
    BY DEF RcvCallMessage
<1> DEFINE with(tr, dlg) == [calls[c] EXCEPT !.tr = tr, !.dlg = dlg]
           made == IF calls[c].dlg = "none" THEN "live" ELSE calls[c].dlg
           lost == IF calls[c].dlg = "live" THEN "freed" ELSE calls[c].dlg
           r == calls'[c]
<1>0. calls[c] \in CallRecord /\ EntryOK(calls[c])
    BY DEF CallTable
<1> SUFFICES \/ UNCHANGED calls
             \/ /\ r \in CallRecord /\ EntryOK(r)
                /\ calls[c].dlg # "none" => r.dlg # "none"
                /\ calls' = [calls EXCEPT ![c] = r]
    BY OneEntry, SameTable
<1> USE <1>0 DEF EntryOK, CallRecord, FreeCall
<1>1. CASE Rcv100(c)
    <2>1. calls' = [calls EXCEPT ![c] = with("1xx", calls[c].dlg)]  BY <1>1 DEF Rcv100
    <2> QED BY <2>1, <1>1 DEF Rcv100
<1>2. CASE Rcv180(c)
    <2>1. calls' = [calls EXCEPT ![c] = with("1xx", made)]  BY <1>2 DEF Rcv180
    <2> QED BY <2>1, <1>2 DEF Rcv180
<1>3. CASE Rcv200(c)
    <2>1. CASE calls[c].dlg = "freed"
        <3>1. calls' = [calls EXCEPT ![c] = [calls[c] EXCEPT !.tr = "2xx"]]
            BY <2>1, <1>3 DEF Rcv200
        <3> QED BY <2>1, <3>1, <1>3 DEF Rcv200
    <2>2. CASE calls[c].dlg # "freed"
        <3>1. calls' = [calls EXCEPT ![c] = with("2xx", "live")]  BY <2>2, <1>3 DEF Rcv200
        <3> QED BY <3>1, <1>3 DEF Rcv200
    <2> QED BY <2>1, <2>2
<1>4. CASE \E type \in CallEventType : RcvFailure(c, type)
    <2>1. calls' = [calls EXCEPT ![c] = with("final", lost)]  BY <1>4 DEF RcvFailure
    <2> QED BY <2>1, <1>4 DEF RcvFailure
<1>5. CASE RcvChallenge(c)
    <2>1. calls' = [calls EXCEPT ![c] = with("none", calls[c].dlg)]  BY <1>5 DEF RcvChallenge
    <2> QED BY <2>1, <1>5 DEF RcvChallenge
<1>6. CASE InviteTimeout(c)
    <2>1. calls' = [calls EXCEPT ![c] = with("final", calls[c].dlg)]  BY <1>6 DEF InviteTimeout
    <2> QED BY <2>1, <1>6 DEF InviteTimeout
<1>7. CASE RcvCancel(c)
    <2>1. calls' = [calls EXCEPT ![c] = with("final", "freed")]  BY <1>7 DEF RcvCancel
    <2> QED BY <2>1, <1>7 DEF RcvCancel
<1>8. CASE Snd603(c)
    <2>1. calls' = [calls EXCEPT ![c] = with("final", "freed")]  BY <1>8 DEF Snd603
    <2> QED BY <2>1, <1>8 DEF Snd603
<1>9. CASE RcvAck(c)         BY <1>9 DEF RcvAck
<1>10. CASE RcvBye(c)
    <2>1. calls' = [calls EXCEPT ![c] = with("2xx", "freed")]  BY <1>10 DEF RcvBye
    <2> QED BY <2>1, <1>10 DEF RcvBye
<1> QED BY <1>1, <1>2, <1>3, <1>4, <1>5, <1>6, <1>7, <1>8, <1>9, <1>10

\* A new call, ours or the peer's, takes a free entry.
LEMMA NewCallKeepsTable ==
    ASSUME calls \in [Call -> CallRecord], CallTable, NEW c \in Call,
           \/ SendInitialInvite(c) /\ IsFree(c)
           \/ RcvInvite(c)
    PROVE  TableStep
<1>0. calls[c] = FreeCall
    BY DEF CallTable, EntryOK, IsFree, RcvInvite, IsNext
<1>1. CASE SendInitialInvite(c)
    <2> DEFINE r == [FreeCall EXCEPT !.dir = "out"]
    <2>1. calls' = [calls EXCEPT ![c] = r]  BY <1>1 DEF SendInitialInvite
    <2>2. r \in CallRecord /\ EntryOK(r)  BY DEF EntryOK, CallRecord, FreeCall
    <2>3. calls[c].dlg = "none"  BY <1>0 DEF FreeCall
    <2> QED BY <2>1, <2>2, <2>3, OneEntry
<1>2. CASE RcvInvite(c)
    <2> DEFINE r == [dir |-> "in", tr |-> "1xx", dlg |-> "live", cancelled |-> FALSE]
    <2>1. calls' = [calls EXCEPT ![c] = r]  BY <1>2 DEF RcvInvite
    <2>2. r \in CallRecord /\ EntryOK(r)  BY DEF EntryOK, CallRecord, FreeCall
    <2>3. calls[c].dlg = "none"  BY <1>0 DEF FreeCall
    <2> QED BY <2>1, <2>2, <2>3, OneEntry
<1> QED BY <1>1, <1>2

\* Answering an incoming call keeps the table.
LEMMA AnswerKeepsTable ==
    ASSUME calls \in [Call -> CallRecord], CallTable, SendAnswer200(tid)
    PROVE  TableStep
<1>1. CASE CanAnswer(tid)
    <2> DEFINE r == [calls[tid] EXCEPT !.tr = "2xx"]
    <2>1. tid \in Call /\ calls' = [calls EXCEPT ![tid] = r]
        BY <1>1 DEF SendAnswer200, CanAnswer
    <2>2. r \in CallRecord /\ EntryOK(r) /\ r.dlg = calls[tid].dlg
        BY <1>1, <2>1 DEF CanAnswer, CallTable, EntryOK, CallRecord, FreeCall
    <2> QED BY <2>1, <2>2, OneEntry
<1>2. CASE ~CanAnswer(tid)  BY <1>2, SameTable DEF SendAnswer200
<1> QED BY <1>1, <1>2

\* eXosip_call_terminate: CANCEL, 603 or BYE, or nothing.
LEMMA TerminateKeepsTable ==
    ASSUME calls \in [Call -> CallRecord], CallTable,
           NEW c \in Call \cup {0}, NEW d \in Call \cup {0, -1}, Terminate(c, d)
    PROVE  TableStep
<1> DEFINE n == IF d > 0 THEN d ELSE c
           freed == IF d > 0 THEN "freed" ELSE calls[n].dlg
           cancel == [calls[n] EXCEPT !.cancelled = TRUE, !.dlg = freed]
           reject == [calls[n] EXCEPT !.tr = "603"]
           bye == [calls[n] EXCEPT !.dlg = "freed"]
<1>1. CASE ~TerminateFinds(c, d)  BY <1>1, SameTable DEF Terminate
<1>2. CASE TerminateFinds(c, d)
    <2>0. n \in Call /\ calls[n] \in CallRecord /\ EntryOK(calls[n])
          /\ (d > 0 => calls[n].dlg = "live")
        BY <1>2 DEF TerminateFinds, CallTable
    <2>1. CASE calls[n].dir = "out" /\ calls[n].tr = "1xx"
        <3>1. calls' = [calls EXCEPT ![n] = cancel]  BY <1>2, <2>0, <2>1 DEF Terminate
        <3>2. cancel \in CallRecord /\ EntryOK(cancel) /\ (calls[n].dlg # "none" => cancel.dlg # "none")
            BY <2>0, <2>1 DEF CallRecord, EntryOK, FreeCall
        <3> QED BY <2>0, <3>1, <3>2, OneEntry
    <2>2. CASE ~(calls[n].dir = "out" /\ calls[n].tr = "1xx") /\ ~(d > 0)
        BY <1>2, <2>0, <2>2, SameTable DEF Terminate
    <2>3. CASE d > 0 /\ calls[n].dir = "in" /\ calls[n].tr \in {"1xx", "603"}
        <3>1. calls' = [calls EXCEPT ![n] = reject]  BY <1>2, <2>0, <2>3 DEF Terminate
        <3>2. reject \in CallRecord /\ EntryOK(reject) /\ reject.dlg = calls[n].dlg
            BY <2>0, <2>3 DEF CallRecord, EntryOK, FreeCall
        <3> QED BY <2>0, <3>1, <3>2, OneEntry
    <2>4. CASE /\ d > 0
              /\ ~(calls[n].dir = "out" /\ calls[n].tr = "1xx")
              /\ ~(calls[n].dir = "in" /\ calls[n].tr \in {"1xx", "603"})
        <3>1. calls' = [calls EXCEPT ![n] = bye]  BY <1>2, <2>0, <2>4 DEF Terminate
        <3>2. bye \in CallRecord /\ EntryOK(bye) /\ (calls[n].dlg # "none" => bye.dlg # "none")
            BY <2>0, <2>4 DEF CallRecord, EntryOK, FreeCall
        <3> QED BY <2>0, <3>1, <3>2, OneEntry
    <2> QED BY <2>0, <2>1, <2>2, <2>3, <2>4 DEF CallRecord
<1> QED BY <1>1, <1>2

-----------------------------------------------------------------------------
(* The event FIFO and the registration. *)

QueueStep == events' \in Seq(EventRecord) /\ EventsNameDialogs'

\* A queued event names a dialog that was made.
LEMMA AppendKeepsQueue ==
    ASSUME events \in Seq(EventRecord), EventsNameDialogs, TableStep,
           NEW e \in EventRecord, events' = Append(events, e),
           e.did \in Call => calls'[e.did].dlg # "none"
    PROVE  QueueStep
<1>1. events' \in Seq(EventRecord)  OBVIOUS
<1>2. ASSUME NEW i \in 1 .. Len(events'), events'[i].did \in Call
      PROVE  calls'[events'[i].did].dlg # "none"
    <2>1. CASE i \in 1 .. Len(events)
        <3>1. events'[i] = events[i]  BY <2>1
        <3> QED BY <1>2, <2>1, <3>1 DEF EventsNameDialogs, TableStep
    <2>2. CASE i = Len(events) + 1
        <3>1. events'[i] = e  BY <2>2
        <3> QED BY <1>2, <3>1
    <2> QED BY <2>1, <2>2
<1> QED BY <1>1, <1>2 DEF QueueStep, EventsNameDialogs

\* Events keep naming dialogs while the table changes and the FIFO does not.
LEMMA SameQueue ==
    ASSUME events \in Seq(EventRecord), EventsNameDialogs, TableStep, UNCHANGED events
    PROVE  QueueStep
BY DEF QueueStep, EventsNameDialogs, TableStep

\* Reading an event leaves a FIFO of the same kind.
LEMMA TailKeepsQueue ==
    ASSUME events \in Seq(EventRecord), EventsNameDialogs, TableStep,
           events # << >>, events' = Tail(events)
    PROVE  QueueStep
<1>1. events' \in Seq(EventRecord)  OBVIOUS
<1>2. ASSUME NEW i \in 1 .. Len(events'), events'[i].did \in Call
      PROVE  calls'[events'[i].did].dlg # "none"
    <2>1. i + 1 \in 1 .. Len(events) /\ events'[i] = events[i + 1]  OBVIOUS
    <2> QED BY <1>2, <2>1 DEF EventsNameDialogs, TableStep
<1> QED BY <1>1, <1>2 DEF QueueStep, EventsNameDialogs

\* What the first event is.
LEMMA HeadIsEvent ==
    ASSUME events \in Seq(EventRecord), EventsNameDialogs, events # << >>
    PROVE  /\ je \in EventRecord
           /\ je.type \in CallEventType => je.cid \in Call
           /\ je.did \in Call \cup {0, -1}
           /\ je.did \in Call => calls[je.did].dlg # "none"
<1>1. 1 \in 1 .. Len(events) /\ je = events[1]  BY DEF je
<1>2. je \in EventRecord  BY <1>1
<1>3. CallEventType \cap OtherEventType = {}  BY DEF CallEventType, OtherEventType
<1> QED BY <1>1, <1>2, <1>3 DEF EventRecord, EventsNameDialogs

\* A message about a call queues a good event, or none.
LEMMA MessageKeepsQueue ==
    ASSUME calls \in [Call -> CallRecord], CallTable,
           events \in Seq(EventRecord), EventsNameDialogs,
           RcvCallMessage \/ \E c \in Call : RcvInvite(c)
    PROVE  TableStep /\ QueueStep
<1>1. TableStep  BY MessageKeepsTable, NewCallKeepsTable
<1> SUFFICES QueueStep  BY <1>1
<1>2. PICK c \in Call :
        \/ Rcv100(c) \/ Rcv180(c) \/ Rcv200(c)
        \/ \E type \in CallEventType : RcvFailure(c, type)
        \/ RcvChallenge(c) \/ InviteTimeout(c) \/ RcvCancel(c) \/ Snd603(c)
        \/ RcvAck(c) \/ RcvBye(c) \/ RcvInvite(c)
    BY DEF RcvCallMessage
<1> DEFINE ev(type, dlg) == [type |-> type, cid |-> c, did |-> DialogId(c, dlg)]
<1>3. ASSUME NEW type \in CallEventType, NEW dlg \in {"none", "live", "freed"},
             events' = Append(events, ev(type, dlg)),
             dlg = "live" => calls'[c].dlg # "none"
      PROVE  QueueStep
    <2> DEFINE e == ev(type, dlg)
    <2>1. DialogId(c, dlg) \in {c, 0, -1} /\ (DialogId(c, dlg) = c => dlg = "live")
        BY ExosipConstants DEF DialogId, Call
    <2>2. e \in EventRecord  BY <2>1 DEF EventRecord
    <2>3. e.did \in Call => calls'[e.did].dlg # "none"
        BY <1>3, <2>1, ExosipConstants DEF Call
    <2>4. events' = Append(events, e)  BY <1>3
    <2> HIDE DEF e
    <2> QED BY <1>1, <2>2, <2>3, <2>4, AppendKeepsQueue
<1> HIDE DEF ev
<1>4. calls[c] \in CallRecord /\ calls'[c] \in CallRecord  BY <1>1 DEF TableStep
<1>5. CASE Rcv100(c) \/ InviteTimeout(c)
    BY <1>1, <1>5, SameQueue DEF Rcv100, InviteTimeout
<1>6. CASE Rcv180(c)
    <2> DEFINE dlg == IF calls[c].dlg = "none" THEN "live" ELSE calls[c].dlg
    <2>1. events' = Append(events, ev("RINGING", dlg)) /\ calls'[c].dlg = dlg
        BY <1>4, <1>6 DEF Rcv180, CallRecord, Report, ev
    <2>2. dlg \in {"none", "live", "freed"} /\ "RINGING" \in CallEventType
        BY <1>4 DEF CallRecord, CallEventType
    <2> QED BY <1>3, <2>1, <2>2
<1>7. CASE Rcv200(c)
    <2>1. CASE calls[c].dlg = "freed"  BY <1>1, <1>7, <2>1, SameQueue DEF Rcv200
    <2>2. CASE calls[c].dlg # "freed"
        <3>1. events' = Append(events, ev("ANSWERED", "live")) /\ calls'[c].dlg = "live"
            BY <1>4, <1>7, <2>2 DEF Rcv200, CallRecord, Report, ev
        <3> QED BY <1>3, <3>1 DEF CallEventType
    <2> QED BY <2>1, <2>2
<1>8. CASE \E type \in CallEventType : RcvFailure(c, type)
    <2>1. PICK type \in CallEventType : RcvFailure(c, type)  BY <1>8
    <2>2. calls[c].dlg # "none" => calls'[c].dlg # "none"  BY <1>1 DEF TableStep
    <2>3. events' = Append(events, ev(type, calls[c].dlg)) /\ calls[c].dlg \in {"none", "live", "freed"}
        BY <1>4, <2>1 DEF RcvFailure, CallRecord, Report, ev
    <2> QED BY <1>3, <2>2, <2>3
<1>9. CASE RcvChallenge(c)
    <2>1. events' = Append(events, ev("REQUESTFAILURE", "none"))
        BY <1>9 DEF RcvChallenge, Report, ev
    <2> QED BY <1>3, <2>1 DEF CallEventType
<1>10. CASE RcvCancel(c) \/ Snd603(c) \/ RcvBye(c)
    <2>1. events' = Append(events, ev("CLOSED", "freed"))
        BY <1>10 DEF RcvCancel, Snd603, RcvBye, Report, ev
    <2> QED BY <1>3, <2>1 DEF CallEventType
<1>11. CASE RcvAck(c)
    <2>1. events' = Append(events, ev("ACK", "live")) /\ calls'[c].dlg = "live"
        BY <1>11 DEF RcvAck, Report, ev
    <2> QED BY <1>3, <2>1 DEF CallEventType
<1>12. CASE RcvInvite(c)
    <2>1. events' = Append(events, ev("INVITE", "live")) /\ calls'[c].dlg = "live"
        BY <1>12 DEF RcvInvite, Report, ev
    <2> QED BY <1>3, <2>1 DEF CallEventType
<1> QED BY <1>1, <1>2, <1>5, <1>6, <1>7, <1>8, <1>9, <1>10, <1>11, <1>12

\* The answer to a REGISTER and a subscription keep the registration and the FIFO.
LEMMA OtherKeepsQueue ==
    ASSUME calls \in [Call -> CallRecord], CallTable, reg \in RegRecord,
           events \in Seq(EventRecord), EventsNameDialogs,
           RcvRegisterReply \/ RcvSubscribe
    PROVE  TableStep /\ QueueStep /\ reg' \in RegRecord
<1>1. TableStep
    BY SameTable DEF RcvRegisterReply, RcvRegisterOk, RcvRegisterFailure, RcvSubscribe
<1>2. reg' \in RegRecord
    <2>1. CASE RcvRegisterOk
        <3> DEFINE b == reg.asks = "register"
                   p == IF reg.asks = "register" THEN "positive" ELSE reg.period
        <3>1. b \in BOOLEAN /\ p \in {"zero", "positive"} /\ 0 \in 0 .. MaxRetry
            BY ExosipConstants DEF RegRecord
        <3>2. reg' = [reg EXCEPT !.tr = "answered", !.retry = 0, !.binding = b, !.period = p]
            BY <2>1 DEF RcvRegisterOk
        <3> HIDE DEF b, p
        <3> QED BY <3>1, <3>2 DEF RegRecord
    <2>2. CASE \E tr \in {"challenged", "failed"} : RcvRegisterFailure(tr)
        BY <2>2 DEF RcvRegisterFailure, RegRecord
    <2>3. CASE RcvSubscribe
        BY <2>3 DEF RcvSubscribe
    <2> QED BY <2>1, <2>2, <2>3 DEF RcvRegisterReply
<1> DEFINE ev(type) == [type |-> type, cid |-> 0, did |-> 0]
<1>3. ASSUME NEW type \in OtherEventType, events' = Append(events, ev(type))
      PROVE  QueueStep
    <2> DEFINE e == ev(type)
    <2>1. e \in EventRecord  BY DEF EventRecord
    <2>2. e.did \notin Call  BY ExosipConstants DEF Call
    <2>3. events' = Append(events, e)  BY <1>3
    <2> HIDE DEF e
    <2> QED BY <1>1, <2>1, <2>2, <2>3, AppendKeepsQueue
<1>4. \E type \in OtherEventType : events' = Append(events, ev(type))
    BY DEF ReportPlain, RcvRegisterReply, RcvRegisterOk, RcvRegisterFailure, RcvSubscribe, OtherEventType
<1> QED BY <1>1, <1>2, <1>3, <1>4

\* What the engine asks of the registration keeps its type.
LEMMA RegStep ==
    ASSUME reg \in RegRecord,
           AutomaticAction \/ InitialRegister \/ Unregister \/ UNCHANGED reg
    PROVE  reg' \in RegRecord
<1>1. ASSUME NEW r \in RegRecord
      PROVE  SendRegister(r) \in RegRecord /\ SendRegister(r).retry = r.retry
    BY DEF SendRegister, AsksFor, RegRecord
<1>2. CASE AutomaticAction
    <2>1. CASE reg.tr = "challenged" /\ reg.retry < MaxRetry
              /\ reg' = [SendRegister(reg) EXCEPT !.retry = @ + 1]
        <3> DEFINE r == SendRegister(reg)
        <3>1. r \in RegRecord /\ r.retry < MaxRetry  BY <1>1, <2>1
        <3> HIDE DEF r
        <3>2. reg' = [r EXCEPT !.retry = @ + 1]  BY <2>1 DEF r
        <3> QED BY <3>1, <3>2, ExosipConstants DEF RegRecord
    <2>2. CASE reg' = [reg EXCEPT !.tr = "failed"]  BY <2>2 DEF RegRecord
    <2> QED BY <1>1, <1>2, <2>1, <2>2 DEF AutomaticAction
<1>3. CASE InitialRegister
    <2>1. 0 \in 0 .. MaxRetry  BY ExosipConstants
    <2> QED BY <1>3, <2>1 DEF InitialRegister, RegRecord
<1>4. CASE Unregister
    <2>1. [reg EXCEPT !.period = "zero"] \in RegRecord  BY DEF RegRecord
    <2> QED BY <1>1, <1>4, <2>1 DEF Unregister
<1> QED BY <1>2, <1>3, <1>4

-----------------------------------------------------------------------------
(* The inductive invariant. *)

\* eXosip's part of the invariant in the next state.
ExosipStep == ExosipTypeOK' /\ CallTable' /\ EventsNameDialogs'

\* The engine's part of the type invariant, and of the invariant.
EngineTypeOK ==
    /\ currentState \in CallState
    /\ cid \in Call \cup {0} /\ did \in Call \cup {0, -1} /\ tid \in Call \cup {0}
    /\ quit \in BOOLEAN /\ callback_done \in BOOLEAN /\ ringback \in BOOLEAN
    /\ pending \in OutEvent \cup {"none"}
    /\ client \in OutEvent \cup {"idle", "left"}
    /\ pc \in {"start", "top", "reg", "poll", "exited", "returned", "crashed"}
    /\ sipState \in SipState
    /\ audio \in Call \cup {0}
    /\ active \in Call \cup {0}

MediaInv == AudioIffAnswered /\ RingbackOnlyWhileCalling

ClientInv == HandshakeExact /\ PlaceInv /\ WaitInv

ScreenInv == AnswersTheCallOnScreen /\ CallInv

\* The invariant is the conjunction of these parts.
LEMMA InvParts ==
    Inv <=> /\ ExosipTypeOK /\ CallTable /\ EventsNameDialogs
            /\ EngineTypeOK /\ MediaInv /\ ClientInv /\ ScreenInv
BY DEF Inv, TypeOK, EngineTypeOK, MediaInv, ClientInv, ScreenInv

\* The same, of the next state.
LEMMA NextInvParts ==
    ASSUME ExosipStep, EngineTypeOK', MediaInv', ClientInv', ScreenInv'
    PROVE  Inv'
BY DEF ExosipStep, Inv, TypeOK, EngineTypeOK, MediaInv, ClientInv, ScreenInv

\* The initial states satisfy the invariant.
LEMMA InitInv == Init => Inv
<1> SUFFICES ASSUME Init PROVE Inv  OBVIOUS
<1>1. 0 \notin Call /\ -1 \notin Call  BY ExosipConstants DEF Call
<1>2. ExosipTypeOK
    <2>1. 0 \in 0 .. MaxRetry  BY ExosipConstants
    <2> QED BY <2>1 DEF Init, ExosipInit, ExosipTypeOK, CallRecord, FreeCall, RegRecord
<1>3. CallTable /\ EventsNameDialogs
    BY DEF Init, ExosipInit, CallTable, EntryOK, FreeCall, EventsNameDialogs
<1>4. EngineTypeOK
    BY DEF Init, EngineTypeOK, CallState, OutEvent, SipState
<1>5. MediaInv /\ ClientInv /\ ScreenInv
    BY <1>1 DEF Init, MediaInv, AudioIffAnswered, RingbackOnlyWhileCalling, ClientInv,
        HandshakeExact, PlaceInv, WaitInv, ScreenInv, AnswersTheCallOnScreen, CallInv,
        InCall, OutEvent
<1> QED BY <1>2, <1>3, <1>4, <1>5, InvParts

\* eXosip's thread touches only its own state.
LEMMA NetworkInv == Inv /\ Network => Inv'
<1> SUFFICES ASSUME Inv, Network PROVE Inv'  OBVIOUS
<1> USE DEF engineVars, clientVars
<1>1. TableStep /\ QueueStep /\ reg' \in RegRecord
    <2>1. CASE RcvCallMessage \/ \E c \in Call : RcvInvite(c)
        <3>1. UNCHANGED reg
            BY <2>1 DEF RcvCallMessage, RcvInvite, Rcv100, Rcv180, Rcv200, RcvFailure,
                RcvChallenge, InviteTimeout, RcvCancel, Snd603, RcvAck, RcvBye
        <3> QED BY <2>1, <3>1, MessageKeepsQueue, InvParts DEF ExosipTypeOK
    <2>2. CASE RcvRegisterReply \/ RcvSubscribe
        BY <2>2, OtherKeepsQueue, InvParts DEF ExosipTypeOK
    <2> QED BY <2>1, <2>2 DEF Network
<1>2. ExosipStep
    BY <1>1 DEF ExosipStep, TableStep, QueueStep, ExosipTypeOK
<1>3. EngineTypeOK'  BY InvParts DEF Network, EngineTypeOK
<1>4. MediaInv' /\ ClientInv'
    BY InvParts DEF Network, MediaInv, AudioIffAnswered, RingbackOnlyWhileCalling,
        ClientInv, HandshakeExact, PlaceInv, WaitInv
<1>5. ScreenInv'
    BY <1>1, InvParts DEF Network, ScreenInv, AnswersTheCallOnScreen, CallInv, InCall,
        TableStep
<1> QED BY <1>2, <1>3, <1>4, <1>5, NextInvParts

\* The client touches only the rendezvous.
LEMMA ClientKeepsInv == Inv /\ Client => Inv'
<1> SUFFICES ASSUME Inv, Client PROVE Inv'  OBVIOUS
<1> USE DEF engineVars, exosipVars
<1>1. UNCHANGED <<exosipVars, engineVars, pc>>
    BY DEF Client, DoEvent, DoEventReturns
<1>2. ExosipStep
    BY <1>1, InvParts DEF ExosipStep, ExosipTypeOK, CallTable, EventsNameDialogs
<1>3. MediaInv' /\ ScreenInv'
    BY <1>1, InvParts DEF MediaInv, AudioIffAnswered, RingbackOnlyWhileCalling,
        ScreenInv, AnswersTheCallOnScreen, CallInv, InCall
<1>4. EngineTypeOK'
    <2> USE InvParts DEF EngineTypeOK
    <2>1. CASE \E ev \in OutEvent : DoEvent(ev) /\ pc = "start"
        BY <1>1, <2>1 DEF DoEvent
    <2>2. CASE \E ev \in OutEvent : DoEvent(ev) /\ pc # "start"
        BY <1>1, <2>2 DEF DoEvent
    <2>3. CASE DoEventReturns
        BY <1>1, <2>3 DEF DoEventReturns
    <2> QED BY <2>1, <2>2, <2>3 DEF Client
<1>5. ClientInv'
    <2> USE InvParts DEF ClientInv, HandshakeExact, PlaceInv, WaitInv, OutEvent, EngineTypeOK
    <2>1. CASE \E ev \in OutEvent : DoEvent(ev) /\ pc = "start"
        BY <1>1, <2>1 DEF DoEvent
    <2>2. CASE \E ev \in OutEvent : DoEvent(ev) /\ pc # "start"
        BY <1>1, <2>2 DEF DoEvent
    <2>3. CASE DoEventReturns
        BY <1>1, <2>3 DEF DoEventReturns
    <2> QED BY <2>1, <2>2, <2>3 DEF Client
<1> QED BY <1>2, <1>3, <1>4, <1>5, NextInvParts

\* A step that leaves eXosip's state alone keeps its part of the invariant.
LEMMA SameExosip ==
    ASSUME Inv, UNCHANGED exosipVars
    PROVE  ExosipStep /\ TableStep
<1>1. TableStep
    BY SameTable, InvParts DEF exosipVars, ExosipTypeOK
<1> QED
    BY <1>1, SameQueue, InvParts DEF exosipVars, ExosipStep, ExosipTypeOK, QueueStep, TableStep

\* So does reading an event.
LEMMA ReadExosip ==
    ASSUME Inv, events # << >>, events' = Tail(events), AutomaticAction, UNCHANGED calls
    PROVE  ExosipStep /\ TableStep
<1>1. TableStep  BY SameTable, InvParts DEF ExosipTypeOK
<1>2. QueueStep  BY <1>1, TailKeepsQueue, InvParts DEF ExosipTypeOK
<1>3. reg' \in RegRecord  BY RegStep, InvParts DEF ExosipTypeOK
<1> QED BY <1>1, <1>2, <1>3 DEF ExosipStep, ExosipTypeOK, QueueStep, TableStep

\* Each way of handling an event keeps the invariant: the event's ids are those
\* of a call, and its dialog was made.
LEMMA HandleEventInv == Inv /\ HandleEvent => Inv'
<1> SUFFICES ASSUME Inv, HandleEvent PROVE Inv'  OBVIOUS
<1> USE DEF engineVars, clientVars, idVars, Poll
<1>1. events # << >> /\ events' = Tail(events) /\ AutomaticAction /\ UNCHANGED calls
      /\ UNCHANGED clientVars /\ pc = "poll" /\ pc' \in {"top", "returned"} /\ Running
    BY DEF HandleEvent, OnRegistered, OnUnregistered, OnInvite, OnRinging, OnAnswered,
        OnAck, OnAttemptOver, OnClosed, OnSubscription, OnSubscriptionFails, OnOther
<1>2. ExosipStep /\ TableStep  BY <1>1, ReadExosip
<1>3. /\ je.type \in CallEventType => je.cid \in Call
      /\ je.did \in Call \cup {0, -1}
      /\ je.did \in Call => calls[je.did].dlg # "none"
    BY <1>1, HeadIsEvent, InvParts DEF ExosipTypeOK
<1>4. 0 \notin Call  BY ExosipConstants DEF Call
<1> USE DEF CallState, SipState, SipStateOf, ChangeState
<1>5. EngineTypeOK'
    <2> USE <1>1, <1>3, InvParts DEF EngineTypeOK, CallEventType, je
    <2>1. CASE OnRegistered    BY <2>1 DEF OnRegistered
    <2>2. CASE OnUnregistered  BY <2>2 DEF OnUnregistered
    <2>3. CASE OnInvite        BY <2>3 DEF OnInvite
    <2>4. CASE OnRinging       BY <2>4 DEF OnRinging
    <2>5. CASE OnAnswered      BY <2>5 DEF OnAnswered
    <2>6. CASE OnAck           BY <2>6 DEF OnAck
    <2>7. CASE OnAttemptOver   BY <2>7 DEF OnAttemptOver
    <2>8. CASE OnClosed        BY <2>8 DEF OnClosed
    <2>9. CASE OnSubscription \/ OnSubscriptionFails \/ OnOther
        BY <2>9 DEF OnSubscription, OnSubscriptionFails, OnOther
    <2> QED BY <2>1, <2>2, <2>3, <2>4, <2>5, <2>6, <2>7, <2>8, <2>9 DEF HandleEvent
<1>6. MediaInv'
    <2> USE <1>1, <1>3, <1>4, InvParts
        DEF MediaInv, AudioIffAnswered, RingbackOnlyWhileCalling, CallEventType, je, EngineTypeOK
    <2>1. CASE OnRegistered    BY <2>1 DEF OnRegistered
    <2>2. CASE OnUnregistered  BY <2>2 DEF OnUnregistered
    <2>3. CASE OnInvite        BY <2>3 DEF OnInvite
    <2>4. CASE OnRinging       BY <2>4 DEF OnRinging
    <2>5. CASE OnAnswered      BY <2>5 DEF OnAnswered
    <2>6. CASE OnAck           BY <2>6 DEF OnAck
    <2>7. CASE OnAttemptOver   BY <2>7 DEF OnAttemptOver
    <2>8. CASE OnClosed        BY <2>8 DEF OnClosed
    <2>9. CASE OnSubscription \/ OnSubscriptionFails \/ OnOther
        BY <2>9 DEF OnSubscription, OnSubscriptionFails, OnOther
    <2> QED BY <2>1, <2>2, <2>3, <2>4, <2>5, <2>6, <2>7, <2>8, <2>9 DEF HandleEvent
<1>7. ClientInv'
    <2> USE <1>1, InvParts
        DEF ClientInv, HandshakeExact, PlaceInv, WaitInv, EngineTypeOK, Running, OutEvent
    <2>1. CASE OnUnregistered  BY <2>1 DEF OnUnregistered
    <2>2. CASE UNCHANGED quit /\ (currentState' # "eDISCONNECTING" \/ UNCHANGED currentState)
        BY <2>2
    <2> QED
        BY <2>1, <2>2 DEF HandleEvent, OnRegistered, OnInvite, OnRinging, OnAnswered,
            OnAck, OnAttemptOver, OnClosed, OnSubscription, OnSubscriptionFails, OnOther
<1>8. ScreenInv'
    <2> USE <1>1, <1>2, <1>3, <1>4, InvParts
        DEF ScreenInv, AnswersTheCallOnScreen, CallInv, InCall, CallEventType, je,
            TableStep, EngineTypeOK
    <2>1. CASE OnRegistered    BY <2>1 DEF OnRegistered
    <2>2. CASE OnUnregistered  BY <2>2 DEF OnUnregistered
    <2>3. CASE OnInvite        BY <2>3 DEF OnInvite
    <2>4. CASE OnRinging       BY <2>4 DEF OnRinging
    <2>5. CASE OnAnswered      BY <2>5 DEF OnAnswered
    <2>6. CASE OnAck           BY <2>6 DEF OnAck
    <2>7. CASE OnAttemptOver   BY <2>7 DEF OnAttemptOver
    <2>8. CASE OnClosed        BY <2>8 DEF OnClosed
    <2>9. CASE OnSubscription \/ OnSubscriptionFails \/ OnOther
        BY <2>9 DEF OnSubscription, OnSubscriptionFails, OnOther
    <2> QED BY <2>1, <2>2, <2>3, <2>4, <2>5, <2>6, <2>7, <2>8, <2>9 DEF HandleEvent
<1> QED BY <1>2, <1>5, <1>6, <1>7, <1>8, NextInvParts

\* A step of CallThread's loop that runs no callback and handles no event.
LoopStep ==
    StartThread \/ Delay \/ Register \/ RegisterFails \/ PollNothing \/ ThreadExit

\* Such a step keeps the invariant.
LEMMA LoopStepInv == Inv /\ LoopStep => Inv'
<1> SUFFICES ASSUME Inv, LoopStep PROVE Inv'  OBVIOUS
<1> USE DEF engineVars, clientVars, idVars, LoopStep
<1>1. UNCHANGED <<calls, events>>
    BY DEF StartThread, Delay, Register, RegisterFails, PollNothing, ThreadExit, exosipVars
<1>2. ExosipStep /\ TableStep
    <2>1. TableStep  BY <1>1, SameTable, InvParts DEF ExosipTypeOK
    <2>2. QueueStep  BY <1>1, <2>1, SameQueue, InvParts DEF ExosipTypeOK
    <2>3. reg' \in RegRecord
        <3>1. AutomaticAction \/ InitialRegister \/ UNCHANGED reg
            BY DEF StartThread, Delay, Register, RegisterFails, PollNothing, ThreadExit,
                exosipVars
        <3> QED BY <3>1, RegStep, InvParts DEF ExosipTypeOK
    <2> QED BY <2>1, <2>2, <2>3 DEF ExosipStep, ExosipTypeOK, QueueStep, TableStep
<1>3. CASE Register
    <2>1. currentState = "eNOT_REGISTERED" /\ currentState' = "eREGISTERING"
        BY <1>3, InvParts DEF Register, ClientInv, PlaceInv, ChangeState
    <2>2. EngineTypeOK'
        BY <1>3, InvParts DEF Register, ChangeState, SipStateOf, EngineTypeOK, CallState, SipState
    <2>3. MediaInv' /\ ScreenInv'
        BY <1>2, <1>3, <2>1, InvParts DEF Register, ChangeState, MediaInv, AudioIffAnswered,
            RingbackOnlyWhileCalling, ScreenInv, AnswersTheCallOnScreen, CallInv, InCall,
            TableStep, EngineTypeOK
    <2>4. ClientInv'
        BY <1>3, <2>1, InvParts DEF Register, ClientInv, HandshakeExact, PlaceInv, WaitInv,
            EngineTypeOK
    <2> QED BY <1>2, <2>2, <2>3, <2>4, NextInvParts
<1>4. CASE ~Register
    <2>1. UNCHANGED engineVars
        BY <1>4 DEF StartThread, Delay, RegisterFails, PollNothing, ThreadExit
    <2>2. MediaInv' /\ ScreenInv'
        BY <1>2, <2>1, InvParts DEF MediaInv, AudioIffAnswered, RingbackOnlyWhileCalling,
            ScreenInv, AnswersTheCallOnScreen, CallInv, InCall, TableStep, EngineTypeOK
    <2>3. EngineTypeOK'
        BY <1>4, <2>1, InvParts DEF StartThread, Delay, RegisterFails, PollNothing,
            ThreadExit, EngineTypeOK
    <2>4. ClientInv'
        <3> USE <2>1, InvParts
            DEF ClientInv, HandshakeExact, PlaceInv, WaitInv, EngineTypeOK, OutEvent
        <3>1. CASE StartThread    BY <3>1 DEF StartThread
        <3>2. CASE Delay          BY <3>2 DEF Delay
        <3>3. CASE RegisterFails  BY <3>3 DEF RegisterFails
        <3>4. CASE PollNothing    BY <3>4 DEF PollNothing
        <3>5. CASE ThreadExit     BY <3>5 DEF ThreadExit, Running
        <3> QED BY <1>4, <3>1, <3>2, <3>3, <3>4, <3>5
    <2> QED BY <1>2, <2>2, <2>3, <2>4, NextInvParts
<1> QED BY <1>3, <1>4

\* Each request keeps the invariant.
LEMMA GuiCallbackInv == Inv /\ GuiCallback => Inv'
<1> SUFFICES ASSUME Inv, GuiCallback PROVE Inv'  OBVIOUS
<1> USE DEF engineVars, clientVars, idVars
<1>0. 0 \notin Call  BY ExosipConstants DEF Call
<1>1. EngineTypeOK  BY InvParts
<1>2. TableStep
    <2> USE InvParts DEF ExosipTypeOK
    <2>1. CASE MakeCall
        BY <2>1, NewCallKeepsTable, SameTable DEF MakeCall, IsNext
    <2>2. CASE AnswerCall
        BY <2>2, AnswerKeepsTable, SameTable DEF AnswerCall
    <2>3. CASE HangupCall \/ DisconnectSipServer
        BY <1>1, <2>3, TerminateKeepsTable, SameTable
        DEF HangupCall, DisconnectSipServer, EndCall, EngineTypeOK
    <2>4. CASE ChangePresence \/ AnswerCallCrash
        BY <2>4, SameTable DEF ChangePresence, AnswerCallCrash, exosipVars
    <2> QED BY <2>1, <2>2, <2>3, <2>4 DEF GuiCallback
<1>3. ExosipStep
    <2>1. UNCHANGED events
        BY DEF GuiCallback, MakeCall, AnswerCall, AnswerCallCrash, HangupCall, ChangePresence,
            DisconnectSipServer, exosipVars
    <2>2. UNCHANGED reg \/ Unregister
        BY DEF GuiCallback, MakeCall, AnswerCall, AnswerCallCrash, HangupCall, ChangePresence,
            DisconnectSipServer, exosipVars
    <2>3. QueueStep  BY <1>2, <2>1, SameQueue, InvParts DEF ExosipTypeOK
    <2>4. reg' \in RegRecord  BY <2>2, RegStep, InvParts DEF ExosipTypeOK
    <2> QED BY <1>2, <2>3, <2>4 DEF ExosipStep, ExosipTypeOK, QueueStep, TableStep
<1> USE DEF Dispatch
<1>4. EngineTypeOK'
    <2> USE <1>1 DEF EngineTypeOK, ChangeState, SipStateOf, CallState, SipState
    <2>1. CASE MakeCall          BY <2>1 DEF MakeCall
    <2>2. CASE AnswerCall        BY <2>2 DEF AnswerCall
    <2>3. CASE HangupCall        BY <2>3 DEF HangupCall, EndCall
    <2>4. CASE DisconnectSipServer  BY <2>4 DEF DisconnectSipServer, EndCall
    <2>5. CASE ChangePresence \/ AnswerCallCrash
        BY <2>5 DEF ChangePresence, AnswerCallCrash
    <2> QED BY <2>1, <2>2, <2>3, <2>4, <2>5 DEF GuiCallback
<1>5. MediaInv'
    <2> USE <1>0, <1>1, InvParts
        DEF MediaInv, AudioIffAnswered, RingbackOnlyWhileCalling, ChangeState, InCall,
            EngineTypeOK, CallState
    <2>1. CASE MakeCall          BY <2>1 DEF MakeCall
    <2>2. CASE HangupCall        BY <2>2 DEF HangupCall, EndCall
    <2>3. CASE DisconnectSipServer  BY <2>3 DEF DisconnectSipServer, EndCall
    <2>4. CASE AnswerCall \/ ChangePresence \/ AnswerCallCrash
        BY <2>4 DEF AnswerCall, ChangePresence, AnswerCallCrash
    <2> QED BY <2>1, <2>2, <2>3, <2>4 DEF GuiCallback
<1>6. ClientInv'
    <2> USE <1>1, InvParts
        DEF ClientInv, HandshakeExact, PlaceInv, WaitInv, OutEvent, EngineTypeOK, ChangeState
    <2>1. CASE MakeCall          BY <2>1 DEF MakeCall
    <2>2. CASE AnswerCall        BY <2>2 DEF AnswerCall
    <2>3. CASE HangupCall        BY <2>3 DEF HangupCall, InCall
    <2>4. CASE ChangePresence    BY <2>4 DEF ChangePresence
    <2>5. CASE AnswerCallCrash   BY <2>5 DEF AnswerCallCrash
    <2>6. CASE DisconnectSipServer  BY <2>6 DEF DisconnectSipServer
    <2> QED BY <2>1, <2>2, <2>3, <2>4, <2>5, <2>6 DEF GuiCallback
<1>7. ScreenInv'
    <2> USE <1>0, <1>1, <1>2, InvParts
        DEF ScreenInv, AnswersTheCallOnScreen, CallInv, InCall, TableStep, ChangeState,
            EngineTypeOK
    <2>1. CASE MakeCall          BY <2>1 DEF MakeCall
    <2>2. CASE HangupCall        BY <2>2 DEF HangupCall, EndCall
    <2>3. CASE DisconnectSipServer  BY <2>3 DEF DisconnectSipServer, EndCall
    <2>4. CASE AnswerCall \/ ChangePresence \/ AnswerCallCrash
        BY <2>4 DEF AnswerCall, ChangePresence, AnswerCallCrash
    <2> QED BY <2>1, <2>2, <2>3, <2>4 DEF GuiCallback
<1> QED BY <1>3, <1>4, <1>5, <1>6, <1>7, NextInvParts

\* The invariant is inductive.
LEMMA NextInv == Inv /\ [Next]_vars => Inv'
<1>1. Inv /\ Next => Inv'
    BY NetworkInv, ClientKeepsInv, HandleEventInv, LoopStepInv, GuiCallbackInv
    DEF Next, CallThread, LoopStep
<1>2. Inv /\ UNCHANGED vars => Inv'
    <2> SUFFICES ASSUME Inv, UNCHANGED vars PROVE Inv'  OBVIOUS
    <2> USE DEF vars, engineVars, clientVars
    <2>1. ExosipStep  BY SameExosip
    <2>2. EngineTypeOK' /\ MediaInv' /\ ClientInv' /\ ScreenInv'
        BY InvParts DEF EngineTypeOK, MediaInv, AudioIffAnswered, RingbackOnlyWhileCalling,
            ClientInv, HandshakeExact, PlaceInv, WaitInv, ScreenInv, AnswersTheCallOnScreen,
            CallInv, InCall, exosipVars
    <2> QED BY <2>1, <2>2, NextInvParts
<1> QED BY <1>1, <1>2

\* Every behaviour of the engine and of eXosip keeps the invariant.
THEOREM InvHolds == Spec => []Inv
BY InitInv, NextInv, PTL DEF Spec

\* The state of call_api.c and of eXosip stays within its types: ids that name
\* calls, one of the seven states, events with the ids their type has.
THEOREM TypeCorrect == Spec => []TypeOK
<1>1. Inv => TypeOK  BY DEF Inv
<1> QED BY <1>1, InvHolds, PTL

\* The media runs exactly in eANSWERED and the ringback tone only during an
\* attempt, whatever calls overlap and whatever fails.
THEOREM MediaFollowsState == Spec => [](AudioIffAnswered /\ RingbackOnlyWhileCalling)
<1>1. Inv => AudioIffAnswered /\ RingbackOnlyWhileCalling  BY DEF Inv
<1> QED BY <1>1, InvHolds, PTL

\* The rendezvous of SIPEngineDoEvent with GuiCallback is exact: the client is
\* released only after its own request was handled.
THEOREM HandshakeHolds == Spec => []HandshakeExact
<1>1. Inv => HandshakeExact  BY DEF Inv
<1> QED BY <1>1, InvHolds, PTL

\* The transaction answerCall answers is the one of the call on the screen.
THEOREM AnswersRightCall == Spec => []AnswersTheCallOnScreen
<1>1. Inv => AnswersTheCallOnScreen  BY DEF Inv
<1> QED BY <1>1, InvHolds, PTL

\* When did names the user's call, hangupCall ends it at the far end at every
\* stage: CANCEL, 603 or BYE, with overlapping calls too.
THEOREM HangupEndsCall == Spec => HangupReachesPeer
<1>1. Inv /\ [Next]_vars => [HangupCall /\ InCall /\ did = active => ~Engaged(active)']_vars
    <2> SUFFICES ASSUME Inv, HangupCall, InCall, did = active
                 PROVE  ~Engaged(active)'
        OBVIOUS
    <2>1. active \in Call /\ active' = active /\ did > 0 /\ calls[did].dlg # "none"
        BY InvParts, ExosipConstants DEF ScreenInv, CallInv, HangupCall, Call
    <2>2. calls[did] \in CallRecord /\ EntryOK(calls[did])
        BY <2>1, InvParts DEF ExosipTypeOK, CallTable
    <2>3. Terminate(cid, did)  BY DEF HangupCall, EndCall
    <2> QED BY <2>1, <2>2, <2>3, InvParts
        DEF Terminate, TerminateFinds, Engaged, EntryOK, CallRecord, ExosipTypeOK
<1> QED BY <1>1, InvHolds, PTL DEF Spec, HangupReachesPeer

-----------------------------------------------------------------------------
(***************************************************************************)
(* Calls that come one at a time: a call starts only when nothing is left  *)
(* of the ones before it (Apart).                                          *)
(***************************************************************************)
-----------------------------------------------------------------------------
(* The inductive invariant, beyond Inv. *)

\* The call that was made last.
Newest(c) == ~IsFree(c) /\ \A d \in Call : d > c => IsFree(d)

\* Nothing is left of a call.
Over(c) == ~Engaged(c) /\ calls[c].tr # "603"

\* Calls are numbered in the order they are made, and only the newest may have
\* something left.
InOrder == \A c, d \in Call : c < d /\ ~IsFree(d) => ~IsFree(c)

OldAreOver == \A c \in Call : ~IsFree(c) /\ ~Newest(c) => Over(c)

\* A CANCEL goes with the dialog it cancels.
CancelFrees == \A c \in Call : calls[c].cancelled => calls[c].dlg = "freed"

\* The far end takes part in the call, or its end waits in the FIFO.
EndTold(c) ==
    Engaged(c) \/ \E i \in 1 .. Len(events) : events[i].type = "CLOSED" /\ events[i].cid = c

\* What an unread event says of its call.
EventFits(i) ==
    events[i].type \in CallEventType =>
        LET c == events[i].cid
            d == events[i].did
            type == events[i].type
        IN  /\ ~IsFree(c)
            /\ d = 0 => type \in {"REQUESTFAILURE", "SERVERFAILURE", "GLOBALFAILURE"}
            /\ d = -1 => calls[c].dlg = "freed"
            /\ d \in Call => d = c
            /\ type \in {"INVITE", "ANSWERED", "ACK", "CLOSED"} => Newest(c)
            /\ type = "INVITE" =>
                  i = 1 /\ calls[c].dir = "in" /\ EndTold(c) /\ cid # c /\ did # c
            /\ type = "ANSWERED" =>
                  /\ calls[c].dir = "out" /\ calls[c].tr = "2xx"
                  /\ currentState \in {"eIN_CALL", "eINCOMING_CALL"} => EndTold(c)
            /\ type = "ACK" => calls[c].dir = "in" /\ calls[c].tr = "2xx"
            /\ type = "CLOSED" => calls[c].dlg = "freed" /\ calls[c].tr \in {"2xx", "final"}

EventsFit == \A i \in 1 .. Len(events) : EventFits(i)

\* The ids kept by call_api.c are those of one call.
IdsInv ==
    /\ cid \in Call => ~IsFree(cid)
    /\ did \in Call => did = cid
    /\ did = -1 => cid \in Call /\ calls[cid].dlg = "freed"
    /\ did = 0 <=> cid = 0

\* The call on the screen is the newest, unless that one was never presented.
ActiveInv ==
    /\ \A c \in Call : Newest(c) /\ (calls[c].dir = "out" \/ calls[c].tr = "2xx") => active = c
    /\ currentState = "eIN_CALL" => calls[active].dir = "out"
    /\ currentState = "eINCOMING_CALL" => calls[active].dir = "in"
    /\ currentState = "eANSWERED" => calls[active].tr = "2xx" /\ audio = active
    /\ currentState \in {"eINCOMING_CALL", "eANSWERED"} => Newest(active) /\ EndTold(active)

ApartInv ==
    Inv /\ InOrder /\ OldAreOver /\ CancelFrees /\ EventsFit /\ IdsInv /\ ActiveInv

-----------------------------------------------------------------------------
(* What may happen to a call that exists. *)

CallMoves(c) ==
    /\ calls'[c].dir = calls[c].dir
    /\ calls[c].dlg = "freed" => calls'[c].dlg = "freed"
    /\ calls[c].tr \in {"2xx", "final"} => calls'[c].tr = calls[c].tr
    /\ Over(c) => Over(c)'
    /\ calls'[c].cancelled => calls'[c].dlg = "freed"

\* A call whose entry is left alone.
LEMMA SameCallMoves ==
    ASSUME ApartInv, NEW c \in Call, calls'[c] = calls[c]
    PROVE  CallMoves(c)
BY DEF CallMoves, Over, Engaged, ApartInv, CancelFrees

\* A message changes the entry of its own call alone, and as a call may change;
\* an incoming or answered call changes only with its end reported.
LEMMA MessageMoves ==
    ASSUME ApartInv, NEW d \in Call, NEW c \in Call,
           \/ Rcv100(d) \/ Rcv180(d) \/ Rcv200(d)
           \/ \E type \in CallEventType : RcvFailure(d, type)
           \/ RcvChallenge(d) \/ InviteTimeout(d) \/ RcvCancel(d) \/ Snd603(d)
           \/ RcvAck(d) \/ RcvBye(d)
    PROVE  /\ CallMoves(c)
           /\ calls'[c].tr = "2xx" => calls[c].tr = "2xx" \/ calls[c].dir = "out"
           /\ calls[c].dir = "in" \/ calls[c].tr = "2xx" =>
                 \/ Engaged(c) => Engaged(c)'
                 \/ events' = Append(events, [type |-> "CLOSED", cid |-> c, did |-> -1])
<1>0. /\ calls \in [Call -> CallRecord] /\ calls[c] \in CallRecord /\ EntryOK(calls[c])
      /\ calls[c].cancelled => calls[c].dlg = "freed"
    BY DEF ApartInv, Inv, TypeOK, ExosipTypeOK, CallTable, CancelFrees
<1>1. CASE c # d
    <2>1. calls'[c] = calls[c]
        BY <1>0, <1>1 DEF Rcv100, Rcv180, Rcv200, RcvFailure, RcvChallenge, InviteTimeout,
            RcvCancel, Snd603, RcvAck, RcvBye
    <2> QED BY <2>1, SameCallMoves DEF Engaged
<1>2. CASE c = d
    <2> USE <1>0, <1>2 DEF CallMoves, Over, Engaged, CallRecord
    <2>1. CASE Rcv100(d)  BY <2>1 DEF Rcv100
    <2>2. CASE Rcv180(d)  BY <2>2 DEF Rcv180
    <2>3. CASE Rcv200(d)  BY <2>3 DEF Rcv200
    <2>4. CASE \E type \in CallEventType : RcvFailure(d, type)  BY <2>4 DEF RcvFailure
    <2>5. CASE RcvChallenge(d)  BY <2>5 DEF RcvChallenge
    <2>6. CASE InviteTimeout(d)  BY <2>6 DEF InviteTimeout
    <2>7. CASE RcvCancel(d)  BY <2>7 DEF RcvCancel, Report, DialogId
    <2>8. CASE Snd603(d)  BY <2>8 DEF Snd603, Report, DialogId
    <2>9. CASE RcvAck(d)  BY <2>9 DEF RcvAck
    <2>10. CASE RcvBye(d)  BY <2>10 DEF RcvBye, Report, DialogId
    <2> QED BY <2>1, <2>2, <2>3, <2>4, <2>5, <2>6, <2>7, <2>8, <2>9, <2>10
<1> QED BY <1>1, <1>2

\* hangupCall and disconnectSipServer: the call found by the ids kept.
LEMMA TerminateMoves ==
    ASSUME ApartInv, Terminate(cid, did), NEW c \in Call
    PROVE  CallMoves(c) /\ (c # cid => calls'[c] = calls[c])
<1>0. /\ calls \in [Call -> CallRecord] /\ calls[c] \in CallRecord /\ EntryOK(calls[c])
      /\ calls[c].cancelled => calls[c].dlg = "freed"
      /\ did \in Call \cup {0, -1} /\ cid \in Call \cup {0} /\ 0 \notin Call /\ -1 \notin Call
    BY ExosipConstants DEF ApartInv, Inv, TypeOK, ExosipTypeOK, CallTable, CancelFrees, Call
<1>1. CASE did \in Call
    <2>1. did = cid /\ did > 0  BY <1>1 DEF ApartInv, IdsInv, Call
    <2> QED BY <1>0, <1>1, <2>1
        DEF Terminate, TerminateFinds, CallMoves, Over, Engaged, CallRecord, EntryOK
<1>2. CASE did \notin Call
    <2>1. ~(did > 0)  BY <1>0, <1>2
    <2>2. TerminateFinds(cid, did) => cid \in Call /\ calls[cid].dlg = "freed"
        BY <1>0, <1>2, <2>1 DEF TerminateFinds, ApartInv, IdsInv
    <2> QED BY <1>0, <2>1, <2>2
        DEF Terminate, CallMoves, Over, Engaged, CallRecord, EntryOK
<1> QED BY <1>1, <1>2

\* answerCall: the call it answers stays engaged.
LEMMA AnswerMoves ==
    ASSUME ApartInv, SendAnswer200(tid), NEW c \in Call
    PROVE  /\ CallMoves(c) /\ (Engaged(c) => Engaged(c)')
           /\ calls'[c].tr = calls[c].tr \/ (c = tid /\ CanAnswer(tid))
<1>0. /\ calls \in [Call -> CallRecord] /\ calls[c] \in CallRecord /\ EntryOK(calls[c])
      /\ calls[c].cancelled => calls[c].dlg = "freed"
    BY DEF ApartInv, Inv, TypeOK, ExosipTypeOK, CallTable, CancelFrees
<1> QED BY <1>0 DEF SendAnswer200, CanAnswer, CallMoves, Over, Engaged, CallRecord, EntryOK

\* While no call is made, which one is the newest does not change.
LEMMA SameNewest ==
    ASSUME ApartInv, \A c \in Call : CallMoves(c)
    PROVE  /\ \A c \in Call : (IsFree(c)' <=> IsFree(c)) /\ (Newest(c)' <=> Newest(c))
           /\ InOrder' /\ OldAreOver' /\ CancelFrees'
BY DEF ApartInv, CallMoves, IsFree, Newest, InOrder, OldAreOver, CancelFrees

\* There is one newest call.
LEMMA OneNewest ==
    ASSUME NEW c \in Call, NEW d \in Call, Newest(c), Newest(d)
    PROVE  c = d
BY DEF Newest, Call

-----------------------------------------------------------------------------
(* The FIFO. *)

\* The end of a call stays told when another event is read, and when events are
\* queued while it takes part in the call or with its end.
LEMMA TailTold ==
    ASSUME events \in Seq(EventRecord), events # << >>, events' = Tail(events),
           UNCHANGED calls, je.type # "CLOSED", NEW c, EndTold(c)
    PROVE  EndTold(c)'
<1>1. CASE Engaged(c)  BY <1>1 DEF EndTold, Engaged
<1>2. CASE ~Engaged(c)
    <2>1. PICK i \in 1 .. Len(events) : events[i].type = "CLOSED" /\ events[i].cid = c
        BY <1>2 DEF EndTold
    <2>2. i # 1  BY <2>1 DEF je
    <2>3. i - 1 \in 1 .. Len(events') /\ events'[i - 1] = events[i]  BY <2>2
    <2> QED BY <2>1, <2>3 DEF EndTold
<1> QED BY <1>1, <1>2

\* An event put at the end of the queue leaves the others where they are.
LEMMA AppendTold ==
    ASSUME events \in Seq(EventRecord), NEW e, events' = Append(events, e), NEW c, EndTold(c),
           (Engaged(c) => Engaged(c)') \/ (e.type = "CLOSED" /\ e.cid = c)
    PROVE  EndTold(c)'
<1>0. /\ Len(events') = Len(events) + 1 /\ Len(events) \in Nat /\ events'[Len(events) + 1] = e
      /\ \A i \in 1 .. Len(events) : i \in 1 .. Len(events') /\ events'[i] = events[i]
    OBVIOUS
<1>1. CASE e.type = "CLOSED" /\ e.cid = c
    <2>1. Len(events) + 1 \in 1 .. Len(events')  BY <1>0
    <2> QED BY <1>0, <1>1, <2>1 DEF EndTold
<1>2. CASE Engaged(c)'  BY <1>2 DEF EndTold
<1>3. CASE ~Engaged(c)
    <2>1. PICK i \in 1 .. Len(events) : events[i].type = "CLOSED" /\ events[i].cid = c
        BY <1>3 DEF EndTold
    <2> QED BY <1>0, <2>1 DEF EndTold
<1> QED BY <1>1, <1>2, <1>3

\* An event is about one of the calls.
LEMMA EventCall ==
    ASSUME events \in Seq(EventRecord), NEW i \in 1 .. Len(events),
           events[i].type \in CallEventType
    PROVE  events[i].cid \in Call
<1>1. events[i] \in EventRecord  OBVIOUS
<1>2. CallEventType \cap OtherEventType = {}  BY DEF CallEventType, OtherEventType
<1> QED BY <1>1, <1>2 DEF EventRecord

\* Reading an event: what the others say stays true, unless the engine enters a
\* call state without the INVITE.
LEMMA TailFits ==
    ASSUME ApartInv, events # << >>, events' = Tail(events), UNCHANGED calls,
           currentState' \in {"eIN_CALL", "eINCOMING_CALL"} =>
              \/ currentState \in {"eIN_CALL", "eINCOMING_CALL"} /\ je.type # "CLOSED"
              \/ je.type = "INVITE"
    PROVE  EventsFit'
<1>0. events \in Seq(EventRecord) /\ EventsFit
    BY DEF ApartInv, Inv, TypeOK, ExosipTypeOK
<1>1. \A c \in Call : (IsFree(c)' <=> IsFree(c)) /\ (Newest(c)' <=> Newest(c))
    BY DEF IsFree, Newest
<1> SUFFICES ASSUME NEW i \in 1 .. Len(events') PROVE EventFits(i)'
    BY DEF EventsFit
<1>2. i + 1 \in 1 .. Len(events) /\ events'[i] = events[i + 1] /\ i + 1 # 1  BY <1>0
<1>3. EventFits(i + 1)  BY <1>0, <1>2 DEF EventsFit
<1> SUFFICES ASSUME events'[i].type \in CallEventType PROVE EventFits(i)'
    BY DEF EventFits
<1>4. PICK c \in Call : c = events[i + 1].cid  BY <1>0, <1>2, EventCall
<1>5. events'[i].type # "INVITE"  BY <1>2, <1>3 DEF EventFits
<1>6. ASSUME events'[i].type = "ANSWERED", currentState' \in {"eIN_CALL", "eINCOMING_CALL"}
      PROVE  EndTold(c)'
    <2>1. CASE currentState \in {"eIN_CALL", "eINCOMING_CALL"} /\ je.type # "CLOSED"
        <3>1. EndTold(c)  BY <1>2, <1>3, <1>4, <1>6, <2>1 DEF EventFits
        <3> QED BY <1>0, <2>1, <3>1, TailTold
    <2>2. CASE je.type = "INVITE"
        <3>1. 1 \in 1 .. Len(events) /\ je = events[1]  BY <1>0 DEF je
        <3>2. EventFits(1) /\ je.type \in CallEventType  BY <1>0, <2>2, <3>1 DEF EventsFit, CallEventType
        <3>3. je.cid \in Call  BY <1>0, <3>1, <3>2, EventCall
        <3>4. Newest(je.cid) /\ calls[je.cid].dir = "in"  BY <2>2, <3>1, <3>2 DEF EventFits
        <3>5. Newest(c) /\ calls[c].dir = "out"
            BY <1>2, <1>3, <1>4, <1>6 DEF EventFits
        <3> QED BY <1>4, <3>3, <3>4, <3>5, OneNewest
    <2> QED BY <1>6, <2>1, <2>2
<1> QED BY <1>1, <1>2, <1>3, <1>4, <1>5, <1>6 DEF EventFits

\* Queueing an event that fits.
LEMMA AppendFits ==
    ASSUME ApartInv, NEW e, events' = Append(events, e), \A c \in Call : CallMoves(c),
           \A c \in Call : (calls[c].dir = "in" \/ calls[c].tr = "2xx") /\ EndTold(c)
                              => EndTold(c)',
           UNCHANGED <<cid, did, currentState>>,
           NEW n \in Nat, n = Len(events) + 1, EventFits(n)'
    PROVE  EventsFit'
<1>0. events \in Seq(EventRecord) /\ EventsFit
    BY DEF ApartInv, Inv, TypeOK, ExosipTypeOK
<1>1. \A c \in Call : (IsFree(c)' <=> IsFree(c)) /\ (Newest(c)' <=> Newest(c))
    BY SameNewest
<1> SUFFICES ASSUME NEW i \in 1 .. Len(events'), i # n PROVE EventFits(i)'
    BY DEF EventsFit
<1>2. i \in 1 .. Len(events) /\ events'[i] = events[i]  BY <1>0
<1>3. EventFits(i)  BY <1>0, <1>2 DEF EventsFit
<1> SUFFICES ASSUME events[i].type \in CallEventType PROVE EventFits(i)'
    BY <1>2 DEF EventFits
<1>4. events[i].cid \in Call  BY <1>0, <1>2, EventCall
<1>5. CallMoves(events[i].cid)  BY <1>4
<1> QED BY <1>1, <1>2, <1>3, <1>4, <1>5 DEF EventFits, CallMoves

\* The calls change and the FIFO does not.
LEMMA SameFits ==
    ASSUME ApartInv, UNCHANGED events, \A c \in Call : CallMoves(c),
           \A i \in 1 .. Len(events) : events[i].type = "INVITE" =>
              /\ EndTold(events[i].cid) => EndTold(events[i].cid)'
              /\ cid' # events[i].cid /\ did' # events[i].cid,
           currentState' \in {"eIN_CALL", "eINCOMING_CALL"} =>
              /\ currentState \in {"eIN_CALL", "eINCOMING_CALL"}
              /\ \A c \in Call : calls[c].tr = "2xx" /\ EndTold(c) => EndTold(c)'
    PROVE  EventsFit'
<1>0. events \in Seq(EventRecord) /\ EventsFit
    BY DEF ApartInv, Inv, TypeOK, ExosipTypeOK
<1>1. \A c \in Call : (IsFree(c)' <=> IsFree(c)) /\ (Newest(c)' <=> Newest(c))
    BY SameNewest
<1> SUFFICES ASSUME NEW i \in 1 .. Len(events), events[i].type \in CallEventType
             PROVE  EventFits(i)'
    BY DEF EventsFit, EventFits
<1>2. EventFits(i)  BY <1>0 DEF EventsFit
<1>3. events[i].cid \in Call  BY <1>0, EventCall
<1>4. CallMoves(events[i].cid)  BY <1>3
<1> QED BY <1>1, <1>2, <1>3, <1>4 DEF EventFits, CallMoves

-----------------------------------------------------------------------------
(* Each kind of step keeps the invariant. *)

\* The initial states satisfy it.
LEMMA ApartInitInv == Init => ApartInv
<1> SUFFICES ASSUME Init PROVE ApartInv  OBVIOUS
<1>1. Inv  BY InitInv
<1>2. \A c \in Call : calls[c] = FreeCall /\ IsFree(c) /\ ~calls[c].cancelled
    BY DEF Init, ExosipInit, FreeCall, IsFree
<1>3. InOrder /\ OldAreOver /\ CancelFrees  BY <1>2 DEF InOrder, OldAreOver, CancelFrees
<1>4. EventsFit  BY DEF Init, ExosipInit, EventsFit
<1>5. IdsInv  BY ExosipConstants DEF Init, IdsInv, Call
<1>6. ActiveInv  BY <1>2 DEF Init, ActiveInv, Newest
<1> QED BY <1>1, <1>3, <1>4, <1>5, <1>6 DEF ApartInv

\* A new call is the newest, and everything before it is over.
LEMMA NewCallMade ==
    ASSUME Apart, ApartInv, MayStart, NEW c \in Call, IsNext(c),
           NEW r \in CallRecord, r.dir # "free", ~r.cancelled,
           calls' = [calls EXCEPT ![c] = r]
    PROVE  /\ InOrder' /\ OldAreOver' /\ CancelFrees' /\ Newest(c)' /\ calls'[c] = r
           /\ \A d \in Call : d # c => calls'[d] = calls[d] /\ ~Newest(d)'
<1>0. calls \in [Call -> CallRecord]  BY DEF ApartInv, Inv, TypeOK, ExosipTypeOK
<1>1. calls'[c] = r /\ \A d \in Call : d # c => calls'[d] = calls[d]  BY <1>0
<1>2. \A d \in Call : d > c => IsFree(d)
    BY DEF IsNext, ApartInv, InOrder, Call
<1>3. Newest(c)'  BY <1>1, <1>2 DEF Newest, IsFree, Call
<1>4. \A d \in Call : d # c => ~Newest(d)'
    <2> SUFFICES ASSUME NEW d \in Call, d # c, Newest(d)' PROVE FALSE  OBVIOUS
    <2> QED BY <1>1, <1>2, <1>3 DEF Newest, IsFree, Call
<1>5. InOrder'
    <2> SUFFICES ASSUME NEW a \in Call, NEW b \in Call, a < b, ~IsFree(b)' PROVE ~IsFree(a)'
        BY DEF InOrder
    <2>1. CASE b = c  BY <1>1, <2>1 DEF IsNext, IsFree, Call
    <2>2. CASE b # c
        <3>1. ~IsFree(b)  BY <1>1, <2>2 DEF IsFree
        <3>2. ~IsFree(a)  BY <3>1 DEF ApartInv, InOrder
        <3> QED BY <1>1, <3>2 DEF IsFree
    <2> QED BY <2>1, <2>2
<1>6. OldAreOver'
    <2> SUFFICES ASSUME NEW d \in Call, d # c PROVE Over(d)'
        BY <1>3 DEF OldAreOver
    <2> QED BY <1>1 DEF MayStart, Over, Engaged
<1>7. CancelFrees'  BY <1>1 DEF CancelFrees, ApartInv
<1> QED BY <1>1, <1>3, <1>4, <1>5, <1>6, <1>7

\* makeCall that makes a call.
LEMMA MakeCallApart ==
    ASSUME Apart, ApartInv, MakeCall, ~UNCHANGED calls PROVE ApartInv'
<1>0. Inv'  BY NextInv DEF ApartInv, Next, CallThread, GuiCallback
<1>1. PICK c \in Call : IsNext(c) /\ MayStart /\ SendInitialInvite(c) /\ active' = c
    BY DEF MakeCall
<1> DEFINE r == [FreeCall EXCEPT !.dir = "out"]
<1>2. r \in CallRecord /\ r.dir = "out" /\ ~r.cancelled /\ r.tr = "none"
    BY DEF CallRecord, FreeCall
<1>3. calls' = [calls EXCEPT ![c] = r]  BY <1>1 DEF SendInitialInvite
<1> HIDE DEF r
<1>4. /\ InOrder' /\ OldAreOver' /\ CancelFrees' /\ Newest(c)' /\ calls'[c] = r
      /\ \A d \in Call : d # c => calls'[d] = calls[d] /\ ~Newest(d)'
    BY <1>1, <1>2, <1>3, NewCallMade
<1>5. currentState' = "eIN_CALL" /\ UNCHANGED <<cid, did, events>> /\ events = << >>
    BY <1>1 DEF MakeCall, ChangeState, MayStart, idVars
<1>6. EventsFit'  BY <1>5 DEF EventsFit
<1>7. IdsInv'
    BY <1>1, <1>4, <1>5 DEF IdsInv, ApartInv, IsNext, IsFree
<1>8. ActiveInv'  BY <1>1, <1>2, <1>4, <1>5 DEF ActiveInv
<1> QED BY <1>0, <1>4, <1>6, <1>7, <1>8 DEF ApartInv

\* An INVITE that arrives when nothing is left of other calls.
LEMMA RcvInviteApart ==
    ASSUME Apart, ApartInv, Network, MayStart, NEW c \in Call, RcvInvite(c) PROVE ApartInv'
<1>0. Inv'  BY NextInv DEF ApartInv, Next
<1> DEFINE r == [dir |-> "in", tr |-> "1xx", dlg |-> "live", cancelled |-> FALSE]
           e == [type |-> "INVITE", cid |-> c, did |-> c]
<1>1. r \in CallRecord /\ r.dir = "in" /\ ~r.cancelled /\ r.tr = "1xx"
    BY DEF CallRecord
<1>2. calls' = [calls EXCEPT ![c] = r] /\ IsNext(c)  BY DEF RcvInvite
<1>3. /\ InOrder' /\ OldAreOver' /\ CancelFrees' /\ Newest(c)' /\ calls'[c] = r
      /\ \A d \in Call : d # c => calls'[d] = calls[d] /\ ~Newest(d)'
    <2> HIDE DEF r
    <2> QED BY <1>1, <1>2, NewCallMade
<1>4. events = << >> /\ events' = <<e>>
    BY DEF MayStart, RcvInvite, Report, DialogId
<1>5. UNCHANGED <<cid, did, currentState, active, audio>>  BY DEF Network, engineVars
<1>6. cid # c /\ did # c
    <2>1. IsFree(c)  BY <1>2 DEF IsNext
    <2> QED BY <2>1 DEF ApartInv, IdsInv
<1>7. EventsFit'
    <2>1. Engaged(c)'  BY <1>3 DEF Engaged
    <2>2. EventFits(1)'
        BY <1>3, <1>4, <1>5, <1>6, <2>1, ExosipConstants DEF EventFits, EndTold, Newest, Call
    <2> QED BY <1>4, <2>2 DEF EventsFit
<1>8. IdsInv'
    BY <1>3, <1>5, <1>6 DEF IdsInv, ApartInv, IsFree
<1>9. ActiveInv'
    <2>1. currentState \notin {"eINCOMING_CALL", "eANSWERED"}
        <3>1. \A d \in Call : ~EndTold(d)  BY <1>4 DEF EndTold, MayStart
        <3> QED BY <3>1 DEF ApartInv, ActiveInv, Inv, CallInv, InCall
    <2>2. ASSUME currentState = "eIN_CALL" PROVE active \in Call /\ active # c
        <3>1. active \in Call /\ calls[active].dir = "out"
            BY <2>2 DEF ApartInv, ActiveInv, Inv, CallInv, InCall
        <3> QED BY <1>2, <3>1 DEF IsNext, IsFree
    <2> QED BY <1>3, <1>5, <2>1, <2>2 DEF ActiveInv, ApartInv
<1> QED BY <1>0, <1>3, <1>7, <1>8, <1>9 DEF ApartInv

\* The ids and the call on the screen while calls change and the engine stays.
LEMMA SameIds ==
    ASSUME ApartInv, \A c \in Call : CallMoves(c), UNCHANGED <<cid, did>>
    PROVE  IdsInv'
<1>1. \A c \in Call : IsFree(c)' <=> IsFree(c)  BY SameNewest
<1> QED BY <1>1 DEF IdsInv, ApartInv, CallMoves

\* The call the user is in stays what it was when only its messages move on.
LEMMA SameActive ==
    ASSUME ApartInv, \A c \in Call : CallMoves(c),
           \A c \in Call : calls'[c].tr = "2xx" => calls[c].tr = "2xx" \/ calls[c].dir = "out",
           \A c \in Call : (calls[c].dir = "in" \/ calls[c].tr = "2xx") /\ EndTold(c)
                              => EndTold(c)',
           UNCHANGED <<currentState, active, audio>>
    PROVE  ActiveInv'
<1>1. \A c \in Call : Newest(c)' <=> Newest(c)  BY SameNewest
<1>2. InCall => active \in Call /\ CallMoves(active)  BY DEF ApartInv, Inv, CallInv
<1>3. \A c \in Call : Newest(c)' /\ (calls'[c].dir = "out" \/ calls'[c].tr = "2xx") => active = c
    BY <1>1 DEF ActiveInv, ApartInv, CallMoves
<1>4. currentState = "eIN_CALL" => calls'[active].dir = "out"
    BY <1>2 DEF ActiveInv, ApartInv, CallMoves, InCall
<1>5. currentState = "eINCOMING_CALL" => calls'[active].dir = "in"
    BY <1>2 DEF ActiveInv, ApartInv, CallMoves, InCall
<1>6. currentState = "eANSWERED" => calls'[active].tr = "2xx" /\ audio = active
    BY <1>2 DEF ActiveInv, ApartInv, CallMoves, InCall
<1>7. ASSUME currentState \in {"eINCOMING_CALL", "eANSWERED"}
      PROVE  Newest(active)' /\ EndTold(active)'
    <2> PICK a \in Call : a = active  BY <1>2, <1>7 DEF InCall
    <2>1. Newest(a) /\ EndTold(a) /\ (calls[a].dir = "in" \/ calls[a].tr = "2xx")
        BY <1>7 DEF ActiveInv, ApartInv
    <2>2. Newest(a)' /\ EndTold(a)'  BY <1>1, <2>1
    <2> QED BY <2>2
<1> QED BY <1>3, <1>4, <1>5, <1>6, <1>7 DEF ActiveInv

\* A message about a call: the event it queues fits.
LEMMA MessageApart ==
    ASSUME ApartInv, Network, RcvCallMessage PROVE ApartInv'
<1>0. /\ Inv' /\ calls \in [Call -> CallRecord] /\ events \in Seq(EventRecord)
      /\ calls' \in [Call -> CallRecord]
    BY NextInv DEF ApartInv, Next, Inv, TypeOK, ExosipTypeOK
<1>1. PICK d \in Call :
        \/ Rcv100(d) \/ Rcv180(d) \/ Rcv200(d)
        \/ \E type \in CallEventType : RcvFailure(d, type)
        \/ RcvChallenge(d) \/ InviteTimeout(d) \/ RcvCancel(d) \/ Snd603(d)
        \/ RcvAck(d) \/ RcvBye(d)
    BY DEF RcvCallMessage
<1>2. \A c \in Call :
        /\ CallMoves(c)
        /\ calls'[c].tr = "2xx" => calls[c].tr = "2xx" \/ calls[c].dir = "out"
        /\ calls[c].dir = "in" \/ calls[c].tr = "2xx" =>
              \/ Engaged(c) => Engaged(c)'
              \/ events' = Append(events, [type |-> "CLOSED", cid |-> c, did |-> -1])
    BY <1>1, MessageMoves
<1>3. /\ \A c \in Call : (IsFree(c)' <=> IsFree(c)) /\ (Newest(c)' <=> Newest(c))
      /\ InOrder' /\ OldAreOver' /\ CancelFrees'
    BY <1>2, SameNewest
<1>4. UNCHANGED <<cid, did, currentState, active, audio>>  BY DEF Network, engineVars
<1>5. UNCHANGED events \/ \E e : events' = Append(events, e)
    BY <1>1 DEF Rcv100, Rcv180, Rcv200, RcvFailure, RcvChallenge, InviteTimeout, RcvCancel,
        Snd603, RcvAck, RcvBye, Report
<1>6. ASSUME NEW c \in Call, calls[c].dir = "in" \/ calls[c].tr = "2xx", EndTold(c)
      PROVE  EndTold(c)'
    <2>1. CASE events' = Append(events, [type |-> "CLOSED", cid |-> c, did |-> -1])
        <3> DEFINE e == [type |-> "CLOSED", cid |-> c, did |-> -1]
        <3>1. events' = Append(events, e) /\ e.type = "CLOSED" /\ e.cid = c  BY <2>1
        <3> HIDE DEF e
        <3> QED BY <1>0, <1>6, <3>1, AppendTold
    <2>2. CASE (Engaged(c) => Engaged(c)') /\ UNCHANGED events
        BY <1>6, <2>2 DEF EndTold
    <2>3. CASE (Engaged(c) => Engaged(c)') /\ \E e : events' = Append(events, e)
        BY <1>0, <1>6, <2>3, AppendTold
    <2> QED BY <1>2, <1>5, <1>6, <2>1, <2>2, <2>3
<1>7. IdsInv'  BY <1>2, <1>4, SameIds
<1>8. ActiveInv'  BY <1>2, <1>4, <1>6, SameActive
<1>9. EventsFit'
    <2>0. calls[d] \in CallRecord /\ EntryOK(calls[d]) /\ (calls[d].cancelled => calls[d].dlg = "freed")
        BY <1>0 DEF ApartInv, Inv, CallTable, CancelFrees
    <2>1. ~IsFree(d) /\ (~Over(d) => Newest(d))
        <3>1. ~IsFree(d)
            BY <1>1, <2>0 DEF Rcv100, Rcv180, Rcv200, RcvFailure, RcvChallenge, InviteTimeout,
                RcvCancel, Snd603, RcvAck, RcvBye, IsFree, EntryOK, FreeCall
        <3> QED BY <3>1 DEF ApartInv, OldAreOver
    <2>2. 0 \notin Call /\ -1 \notin Call  BY ExosipConstants DEF Call
    <2>3. PICK n \in Nat : n = Len(events) + 1  BY <1>0
    <2> DEFINE ev(type, dlg) == [type |-> type, cid |-> d, did |-> DialogId(d, dlg)]
    <2>4. ASSUME NEW e, events' = Append(events, e), EventFits(n)'  PROVE EventsFit'
        BY <1>2, <1>4, <1>6, <2>3, <2>4, AppendFits
    <2>5. ASSUME NEW type \in CallEventType \ {"INVITE"}, NEW dlg \in {"none", "live", "freed"},
                 events' = Append(events, ev(type, dlg)),
                 dlg = "none" => type \in {"REQUESTFAILURE", "SERVERFAILURE", "GLOBALFAILURE"},
                 dlg = "freed" => calls'[d].dlg = "freed",
                 type \in {"ANSWERED", "ACK", "CLOSED"} => Newest(d),
                 type = "ANSWERED" =>
                    calls'[d].dir = "out" /\ calls'[d].tr = "2xx" /\ EndTold(d)',
                 type = "ACK" => calls'[d].dir = "in" /\ calls'[d].tr = "2xx",
                 type = "CLOSED" => calls'[d].dlg = "freed" /\ calls'[d].tr \in {"2xx", "final"}
          PROVE  EventsFit'
        <3> DEFINE k == DialogId(d, dlg)
        <3>1. events'[n] = [type |-> type, cid |-> d, did |-> k]  BY <1>0, <2>3, <2>5
        <3>2. k \in {d, 0, -1} /\ (k = 0 => dlg = "none") /\ (k = -1 => dlg = "freed")
            BY <2>2 DEF DialogId
        <3> HIDE DEF k
        <3>3. events'[n].type = type /\ events'[n].cid = d /\ events'[n].did = k  BY <3>1
        <3>4. ~IsFree(d)' /\ (Newest(d)' <=> Newest(d))  BY <1>3, <2>1
        <3>5. EventFits(n)'  BY <2>2, <2>5, <3>2, <3>3, <3>4 DEF EventFits
        <3> QED BY <2>4, <2>5, <3>5
    <2>6. CASE UNCHANGED events
        <3>1. ASSUME NEW i \in 1 .. Len(events), events[i].type = "INVITE",
                     EndTold(events[i].cid)
              PROVE  EndTold(events[i].cid)'
            <4>1. PICK c \in Call : c = events[i].cid  BY <1>0, <3>1, EventCall DEF CallEventType
            <4>2. calls[c].dir = "in"
                BY <3>1, <4>1 DEF ApartInv, EventsFit, EventFits, CallEventType
            <4>3. EndTold(c)'  BY <1>6, <3>1, <4>1, <4>2
            <4> QED BY <2>6, <4>1, <4>3
        <3>2. \A i \in 1 .. Len(events) :
                events[i].type = "INVITE" => cid # events[i].cid /\ did # events[i].cid
            BY DEF ApartInv, EventsFit, EventFits, CallEventType
        <3> QED BY <1>2, <1>4, <1>6, <2>6, <3>1, <3>2, SameFits
    <2> USE <1>3, <2>0, <2>1, <2>2
    <2>7. CASE Rcv100(d) \/ InviteTimeout(d)  BY <2>6, <2>7 DEF Rcv100, InviteTimeout
    <2>8. CASE Rcv180(d)
        <3> DEFINE dlg == IF calls[d].dlg = "none" THEN "live" ELSE calls[d].dlg
        <3>1. events' = Append(events, ev("RINGING", dlg)) /\ calls'[d].dlg = dlg
            BY <1>0, <2>8 DEF Rcv180, Report, CallRecord
        <3>2. dlg \in {"live", "freed"}  BY DEF CallRecord
        <3> HIDE DEF ev, dlg
        <3> QED BY <2>5, <3>1, <3>2 DEF CallEventType
    <2>9. CASE Rcv200(d) /\ calls[d].dlg # "freed"
        <3>1. events' = Append(events, ev("ANSWERED", "live")) /\ calls'[d].dlg = "live"
              /\ calls'[d].dir = "out" /\ calls'[d].tr = "2xx"
            BY <1>0, <2>9 DEF Rcv200, Report, CallRecord
        <3>2. Newest(d)  BY <2>9 DEF Rcv200, Over, Engaged
        <3>3. EndTold(d)'  BY <3>1 DEF EndTold, Engaged
        <3> HIDE DEF ev
        <3> QED BY <2>5, <3>1, <3>2, <3>3 DEF CallEventType
    <2>10. CASE Rcv200(d) /\ calls[d].dlg = "freed"  BY <2>6, <2>10 DEF Rcv200
    <2>11. CASE \E type \in CallEventType : RcvFailure(d, type)
        <3> PICK type \in {"REQUESTFAILURE", "SERVERFAILURE", "GLOBALFAILURE"} : RcvFailure(d, type)
            BY <2>11 DEF RcvFailure
        <3>1. events' = Append(events, ev(type, calls[d].dlg))
              /\ (calls[d].dlg = "freed" => calls'[d].dlg = "freed")
            BY <1>0 DEF RcvFailure, Report, CallRecord
        <3> HIDE DEF ev
        <3> QED BY <2>5, <3>1 DEF CallRecord, CallEventType
    <2>12. CASE RcvChallenge(d)
        <3>1. events' = Append(events, ev("REQUESTFAILURE", "none"))
            BY <2>12 DEF RcvChallenge, Report
        <3> HIDE DEF ev
        <3> QED BY <2>5, <3>1 DEF CallEventType
    <2>13. CASE RcvCancel(d) \/ Snd603(d) \/ RcvBye(d)
        <3>1. events' = Append(events, ev("CLOSED", "freed")) /\ calls'[d].dlg = "freed"
              /\ calls'[d].tr \in {"2xx", "final"}
            BY <1>0, <2>13 DEF RcvCancel, Snd603, RcvBye, Report, CallRecord
        <3>2. Newest(d)  BY <2>13 DEF RcvCancel, Snd603, RcvBye, Over, Engaged
        <3> HIDE DEF ev
        <3> QED BY <2>5, <3>1, <3>2 DEF CallEventType
    <2>14. CASE RcvAck(d)
        <3>1. events' = Append(events, ev("ACK", "live")) /\ calls'[d].dir = "in"
              /\ calls'[d].tr = "2xx"
            BY <2>14 DEF RcvAck, Report
        <3>2. Newest(d)  BY <2>14 DEF RcvAck, Over, Engaged
        <3> HIDE DEF ev
        <3> QED BY <2>5, <3>1, <3>2 DEF CallEventType
    <2> QED BY <1>1, <2>7, <2>8, <2>9, <2>10, <2>11, <2>12, <2>13, <2>14
<1> QED BY <1>0, <1>3, <1>7, <1>8, <1>9 DEF ApartInv

\* A step that touches neither a call, an event nor the call on the screen, and
\* one that queues an event about no call.
LEMMA OtherApart ==
    ASSUME ApartInv, Inv', UNCHANGED <<calls, cid, did, active, audio>>,
           \/ UNCHANGED events
           \/ \E type \in OtherEventType :
                 events' = Append(events, [type |-> type, cid |-> 0, did |-> 0]),
           \/ UNCHANGED currentState
           \/ currentState' \notin {"eIN_CALL", "eINCOMING_CALL", "eANSWERED"}
    PROVE  ApartInv'
<1>0. events \in Seq(EventRecord) /\ EventsFit /\ OtherEventType \cap CallEventType = {}
    BY DEF ApartInv, Inv, TypeOK, ExosipTypeOK, OtherEventType, CallEventType
<1>1. \A c \in Call : CallMoves(c)  BY SameCallMoves
<1>2. InOrder' /\ OldAreOver' /\ CancelFrees'  BY <1>1, SameNewest
<1>3. IdsInv'  BY <1>1, SameIds
<1>4. ASSUME NEW c, EndTold(c) PROVE EndTold(c)'
    <2>1. CASE UNCHANGED events  BY <1>4, <2>1 DEF EndTold, Engaged
    <2>2. CASE \E e : events' = Append(events, e)
        BY <1>0, <1>4, <2>2, AppendTold DEF Engaged
    <2> QED BY <2>1, <2>2
<1>5. EventsFit'
    <2> SUFFICES ASSUME NEW i \in 1 .. Len(events'), events'[i].type \in CallEventType
                 PROVE  EventFits(i)'
        BY DEF EventsFit, EventFits
    <2>1. i \in 1 .. Len(events) /\ events'[i] = events[i]
        <3>1. CASE UNCHANGED events  BY <3>1
        <3>2. ASSUME NEW type \in OtherEventType,
                     events' = Append(events, [type |-> type, cid |-> 0, did |-> 0])
              PROVE  i \in 1 .. Len(events) /\ events'[i] = events[i]
            <4> DEFINE e == [type |-> type, cid |-> 0, did |-> 0]
            <4>1. e.type \notin CallEventType  BY <1>0
            <4>2. events' = Append(events, e)  BY <3>2
            <4> HIDE DEF e
            <4> QED BY <1>0, <4>1, <4>2
        <3> QED BY <3>1, <3>2
    <2>2. PICK c \in Call : c = events[i].cid  BY <1>0, <2>1, EventCall
    <2>3. EventFits(i)  BY <1>0, <2>1 DEF EventsFit
    <2>4. (IsFree(c)' <=> IsFree(c)) /\ (Newest(c)' <=> Newest(c)) /\ CallMoves(c)
        BY <1>1, SameNewest
    <2> QED BY <1>4, <2>1, <2>2, <2>3, <2>4 DEF EventFits, CallMoves
<1>6. ActiveInv'
    <2>1. CASE UNCHANGED currentState
        BY <1>1, <1>4, <2>1, SameActive
    <2>2. CASE currentState' \notin {"eIN_CALL", "eINCOMING_CALL", "eANSWERED"}
        BY <1>1, <2>2, SameNewest DEF ActiveInv, ApartInv
    <2> QED BY <2>1, <2>2
<1> QED BY <1>2, <1>3, <1>5, <1>6 DEF ApartInv

\* What the event at the head says.
LEMMA HeadFits ==
    ASSUME ApartInv, events # << >>
    PROVE  /\ je \in EventRecord /\ je = events[1] /\ EventFits(1)
           /\ je.type \in CallEventType => je.cid \in Call
           /\ je.did \in Call \cup {0, -1}
<1>0. events \in Seq(EventRecord) /\ EventsNameDialogs  BY DEF ApartInv, Inv, TypeOK, ExosipTypeOK
<1>1. 1 \in 1 .. Len(events) /\ je = events[1]  BY <1>0 DEF je
<1>2. EventFits(1)  BY <1>1 DEF ApartInv, EventsFit
<1> QED BY <1>0, <1>1, <1>2, HeadIsEvent

\* Handling an event: the call presented, established or closed is the newest.
LEMMA HandleEventApart ==
    ASSUME ApartInv, HandleEvent PROVE ApartInv'
<1>0. Inv' /\ Inv  BY NextInv DEF ApartInv, Next, CallThread
<1>1. events # << >> /\ events' = Tail(events) /\ UNCHANGED calls
    BY DEF HandleEvent, OnRegistered, OnUnregistered, OnInvite, OnRinging, OnAnswered,
        OnAck, OnAttemptOver, OnClosed, OnSubscription, OnSubscriptionFails, OnOther, Poll,
        engineVars
<1>2. /\ je \in EventRecord /\ je = events[1] /\ EventFits(1)
      /\ je.type \in CallEventType => je.cid \in Call
      /\ je.did \in Call \cup {0, -1}
    BY <1>1, HeadFits
<1>3. events \in Seq(EventRecord)  BY <1>0 DEF Inv, TypeOK, ExosipTypeOK
<1>4. \A c \in Call : CallMoves(c)  BY <1>1, SameCallMoves
<1>5. /\ \A c \in Call : (IsFree(c)' <=> IsFree(c)) /\ (Newest(c)' <=> Newest(c))
      /\ InOrder' /\ OldAreOver' /\ CancelFrees'
    BY <1>4, SameNewest
<1>6. 0 \notin Call /\ -1 \notin Call  BY ExosipConstants DEF Call
<1>7. ASSUME NEW c, EndTold(c), je.type # "CLOSED" PROVE EndTold(c)'
    BY <1>1, <1>3, <1>7, TailTold
<1> USE DEF ChangeState
<1>8. EventsFit'
    <2>1. currentState' \in {"eIN_CALL", "eINCOMING_CALL"} =>
              \/ currentState \in {"eIN_CALL", "eINCOMING_CALL"} /\ je.type # "CLOSED"
              \/ je.type = "INVITE"
        BY DEF HandleEvent, OnRegistered, OnUnregistered, OnInvite, OnRinging, OnAnswered,
            OnAck, OnAttemptOver, OnClosed, OnSubscription, OnSubscriptionFails, OnOther, Poll,
            je, engineVars, Handled
    <2> QED BY <1>1, <2>1, TailFits
<1>9. IdsInv'
    <2>1. CASE UNCHANGED <<cid, did>>  BY <1>4, <2>1, SameIds
    <2>2. CASE cid' = 0 /\ did' = 0  BY <1>6, <2>2 DEF IdsInv
    <2>3. CASE cid' = je.cid /\ did' = je.did /\ je.type \in {"INVITE", "RINGING", "ACK"}
        <3>1. je.cid \in Call /\ ~IsFree(je.cid) /\ je.did # 0
              /\ (je.did = -1 => calls[je.cid].dlg = "freed")
              /\ (je.did \in Call => je.did = je.cid)
            BY <1>2, <2>3 DEF EventFits, CallEventType
        <3>2. PICK c \in Call, d \in Call \cup {-1} : c = je.cid /\ d = je.did
            BY <1>2, <3>1
        <3>3. ~IsFree(c)'  BY <1>5, <3>1, <3>2
        <3>4. calls'[c] = calls[c]  BY <1>1
        <3> QED BY <1>6, <2>3, <3>1, <3>2, <3>3, <3>4 DEF IdsInv
    <2> QED BY <2>1, <2>2, <2>3 DEF HandleEvent, OnRegistered, OnUnregistered, OnInvite,
            OnRinging, OnAnswered, OnAck, OnAttemptOver, OnClosed, OnSubscription,
            OnSubscriptionFails, OnOther, Poll, je, engineVars, idVars
<1>10. ActiveInv'
    <2>0. InCall => active \in Call  BY <1>0 DEF Inv, CallInv
    <2>1. CASE OnInvite
        <3>1. PICK c \in Call : c = je.cid /\ Newest(c) /\ calls[c].dir = "in" /\ EndTold(c)
            BY <1>2, <2>1 DEF OnInvite, Poll, je, EventFits, CallEventType
        <3>2. currentState' = "eINCOMING_CALL" /\ active' = c /\ je.type = "INVITE"
            BY <2>1, <3>1 DEF OnInvite, Poll, je
        <3>3. EndTold(c)' /\ Newest(c)'  BY <1>5, <1>7, <3>1, <3>2
        <3>4. \A d \in Call : Newest(d)' => d = c  BY <1>5, <3>1, OneNewest
        <3> QED BY <1>1, <3>1, <3>2, <3>3, <3>4 DEF ActiveInv
    <2>2. CASE OnAnswered \/ OnAck
        <3>1. PICK c \in Call : c = je.cid /\ Newest(c) /\ calls[c].tr = "2xx"
                              /\ calls[c].dir = (IF je.type = "ANSWERED" THEN "out" ELSE "in")
            BY <1>2, <2>2 DEF OnAnswered, OnAck, Poll, je, EventFits, CallEventType
        <3>2. active = c  BY <3>1 DEF ApartInv, ActiveInv
        <3>3. /\ currentState' = "eANSWERED" /\ UNCHANGED active /\ audio' = c
              /\ je.type \in {"ANSWERED", "ACK"}
              /\ currentState \in {"eIN_CALL", "eINCOMING_CALL"}
            BY <2>2, <3>1 DEF OnAnswered, OnAck, Poll, je
        <3>4. EndTold(c)
            <4>1. CASE je.type = "ANSWERED"
                BY <1>2, <3>1, <3>3, <4>1 DEF EventFits, CallEventType
            <4>2. CASE je.type = "ACK"
                <5>1. currentState # "eIN_CALL"  BY <3>1, <3>2, <4>2 DEF ApartInv, ActiveInv
                <5> QED BY <3>2, <3>3, <5>1 DEF ApartInv, ActiveInv
            <4> QED BY <3>3, <4>1, <4>2
        <3>5. EndTold(c)' /\ Newest(c)'  BY <1>5, <1>7, <3>1, <3>3, <3>4
        <3>6. \A d \in Call : Newest(d)' => d = c  BY <1>5, <3>1, OneNewest
        <3> QED BY <1>1, <3>1, <3>2, <3>3, <3>5, <3>6 DEF ActiveInv
    <2>3. CASE currentState' \notin {"eIN_CALL", "eINCOMING_CALL", "eANSWERED"} /\ UNCHANGED active
        BY <1>1, <1>5, <2>3 DEF ActiveInv, ApartInv
    <2>4. CASE UNCHANGED <<currentState, active, audio>> /\ (InCall => je.type # "CLOSED")
        <3>1. CASE InCall  BY <1>1, <1>4, <1>7, <2>4, <3>1, SameActive
        <3>2. CASE ~InCall  BY <1>1, <1>5, <2>4, <3>2 DEF ActiveInv, ApartInv, InCall
        <3> QED BY <3>1, <3>2
    <2> QED BY <2>1, <2>2, <2>3, <2>4 DEF HandleEvent, OnRegistered, OnUnregistered,
            OnRinging, OnAttemptOver, OnClosed, OnSubscription, OnSubscriptionFails, OnOther,
            Poll, je, engineVars, Handled, InCall
<1> QED BY <1>0, <1>5, <1>8, <1>9, <1>10 DEF ApartInv

\* answerCall: the call it answers is on the screen, hence the newest.
LEMMA AnswerCallApart ==
    ASSUME ApartInv, AnswerCall PROVE ApartInv'
<1>0. Inv' /\ Inv  BY NextInv DEF ApartInv, Next, CallThread, GuiCallback
<1>1. UNCHANGED <<events, cid, did, currentState, active, audio>>
    BY DEF AnswerCall, engineVars
<1>2. CASE currentState # "eINCOMING_CALL"
    BY <1>0, <1>1, <1>2, OtherApart DEF AnswerCall
<1>3. CASE currentState = "eINCOMING_CALL"
    <2>0. SendAnswer200(tid) /\ tid = active /\ active \in Call /\ Newest(active)
        BY <1>0, <1>3 DEF AnswerCall, Inv, AnswersTheCallOnScreen, CallInv, InCall, ApartInv,
            ActiveInv
    <2>1. \A c \in Call : /\ CallMoves(c) /\ (Engaged(c) => Engaged(c)')
                          /\ calls'[c].tr = calls[c].tr \/ c = active
        BY <2>0, AnswerMoves
    <2>2. /\ \A c \in Call : (IsFree(c)' <=> IsFree(c)) /\ (Newest(c)' <=> Newest(c))
          /\ InOrder' /\ OldAreOver' /\ CancelFrees'
        BY <2>1, SameNewest
    <2>3. ASSUME NEW c \in Call, EndTold(c) PROVE EndTold(c)'
        BY <1>1, <2>1, <2>3 DEF EndTold
    <2>4. IdsInv'  BY <1>1, <2>1, SameIds
    <2>5. EventsFit'
        <3>1. ASSUME NEW i \in 1 .. Len(events), events[i].type = "INVITE"
              PROVE  /\ EndTold(events[i].cid) => EndTold(events[i].cid)'
                     /\ cid # events[i].cid /\ did # events[i].cid
            <4>1. events \in Seq(EventRecord)  BY <1>0 DEF Inv, TypeOK, ExosipTypeOK
            <4>2. PICK c \in Call : c = events[i].cid  BY <3>1, <4>1, EventCall DEF CallEventType
            <4>3. EndTold(c) => EndTold(c)'  BY <2>3
            <4>4. cid # c /\ did # c
                BY <3>1, <4>2 DEF ApartInv, EventsFit, EventFits, CallEventType
            <4> QED BY <1>1, <4>2, <4>3, <4>4
        <3> QED BY <1>1, <2>1, <2>3, <3>1, SameFits
    <2>6. ActiveInv'
        <3>1. PICK a \in Call : a = active  BY <2>0
        <3>2. Newest(a)' /\ EndTold(a)'
            BY <1>3, <2>0, <2>2, <2>3, <3>1 DEF ApartInv, ActiveInv
        <3>3. \A c \in Call : Newest(c)' => c = a  BY <2>0, <2>2, <3>1, OneNewest
        <3>4. calls'[a].dir = "in"
            BY <1>3, <2>1, <3>1 DEF ApartInv, ActiveInv, CallMoves
        <3> QED BY <1>1, <1>3, <3>1, <3>2, <3>3, <3>4 DEF ActiveInv
    <2> QED BY <1>0, <2>2, <2>4, <2>5, <2>6 DEF ApartInv
<1> QED BY <1>2, <1>3

\* hangupCall and disconnectSipServer in a call: an INVITE that waits is of
\* another call than the one ended.
LEMMA EndCallApart ==
    ASSUME ApartInv, EndCall, HangupCall \/ DisconnectSipServer,
           currentState' \notin {"eIN_CALL", "eINCOMING_CALL", "eANSWERED"}
    PROVE  ApartInv'
<1>0. Inv' /\ Inv  BY NextInv DEF ApartInv, Next, CallThread, GuiCallback
<1>1. UNCHANGED <<events, active>> /\ cid' = 0 /\ did' = 0 /\ Terminate(cid, did)
    BY DEF HangupCall, DisconnectSipServer, EndCall
<1>2. \A c \in Call : CallMoves(c) /\ (c # cid => calls'[c] = calls[c])
    BY <1>1, TerminateMoves
<1>3. /\ \A c \in Call : (IsFree(c)' <=> IsFree(c)) /\ (Newest(c)' <=> Newest(c))
      /\ InOrder' /\ OldAreOver' /\ CancelFrees'
    BY <1>2, SameNewest
<1>4. 0 \notin Call /\ -1 \notin Call  BY ExosipConstants DEF Call
<1>5. IdsInv'  BY <1>1, <1>4 DEF IdsInv
<1>6. EventsFit'
    <2>1. ASSUME NEW i \in 1 .. Len(events), events[i].type = "INVITE"
          PROVE  /\ EndTold(events[i].cid) => EndTold(events[i].cid)'
                 /\ cid' # events[i].cid /\ did' # events[i].cid
        <3>1. events \in Seq(EventRecord)  BY <1>0 DEF Inv, TypeOK, ExosipTypeOK
        <3>2. PICK c \in Call : c = events[i].cid  BY <2>1, <3>1, EventCall DEF CallEventType
        <3>3. cid # c  BY <2>1, <3>2 DEF ApartInv, EventsFit, EventFits, CallEventType
        <3>4. EndTold(c) => EndTold(c)'  BY <1>1, <1>2, <3>3 DEF EndTold, Engaged
        <3> QED BY <1>1, <1>4, <3>2, <3>4
    <2> QED BY <1>1, <1>2, <2>1, SameFits
<1>7. ActiveInv'
    <2>1. ASSUME NEW c \in Call, calls'[c].tr = "2xx" PROVE calls[c].tr = "2xx"
        <3>1. calls \in [Call -> CallRecord]  BY <1>0 DEF Inv, TypeOK, ExosipTypeOK
        <3>2. calls[c] \in CallRecord  BY <3>1
        <3> QED BY <1>1, <2>1, <3>1, <3>2 DEF Terminate, CallRecord
    <2> QED BY <1>1, <1>2, <1>3, <2>1 DEF ActiveInv, ApartInv, CallMoves
<1> QED BY <1>0, <1>3, <1>5, <1>6, <1>7 DEF ApartInv

\* The invariant is inductive.
LEMMA ApartNextInv ==
    ASSUME Apart, ApartInv, [Next]_vars PROVE ApartInv'
<1>0. Inv'  BY NextInv DEF ApartInv
<1> USE DEF engineVars, idVars
<1>1. CASE Network
    <2>1. CASE RcvCallMessage  BY <1>1, <2>1, MessageApart
    <2>2. CASE MayStart /\ \E c \in Call : RcvInvite(c)  BY <1>1, <2>2, RcvInviteApart
    <2>3. CASE RcvRegisterReply \/ RcvSubscribe
        <3>1. UNCHANGED calls
              /\ \E type \in OtherEventType :
                    events' = Append(events, [type |-> type, cid |-> 0, did |-> 0])
            BY <2>3 DEF RcvRegisterReply, RcvRegisterOk, RcvRegisterFailure, RcvSubscribe,
                ReportPlain, OtherEventType
        <3> QED BY <1>0, <1>1, <3>1, OtherApart DEF Network
    <2> QED BY <1>1, <2>1, <2>2, <2>3 DEF Network
<1>2. CASE MakeCall
    <2>1. CASE ~UNCHANGED calls  BY <1>2, <2>1, MakeCallApart
    <2>2. CASE UNCHANGED calls
        <3>1. UNCHANGED <<currentState, active>>
            <4>1. calls \in [Call -> CallRecord]  BY DEF ApartInv, Inv, TypeOK, ExosipTypeOK
            <4>2. ASSUME NEW c \in Call, IsNext(c), SendInitialInvite(c) PROVE FALSE
                BY <2>2, <4>1, <4>2 DEF IsNext, IsFree, SendInitialInvite, FreeCall
            <4> QED BY <1>2, <4>2 DEF MakeCall
        <3> QED BY <1>0, <1>2, <2>2, <3>1, OtherApart DEF MakeCall
    <2> QED BY <2>1, <2>2
<1>3. CASE AnswerCall  BY <1>3, AnswerCallApart
<1>4. CASE HangupCall
    <2>1. CASE InCall  BY <1>4, <2>1, EndCallApart DEF HangupCall, ChangeState
    <2>2. CASE ~InCall  BY <1>0, <1>4, <2>2, OtherApart DEF HangupCall
    <2> QED BY <2>1, <2>2
<1>5. CASE DisconnectSipServer
    <2>1. CASE EndCall /\ currentState' = "eDISCONNECTING"
        BY <1>5, <2>1, EndCallApart
    <2>2. CASE UNCHANGED <<calls, cid, did, audio>>
               /\ (UNCHANGED currentState \/ currentState' = "eDISCONNECTING")
        BY <1>0, <1>5, <2>2, OtherApart DEF DisconnectSipServer
    <2> QED BY <1>5, <2>1, <2>2 DEF DisconnectSipServer
<1>6. CASE HandleEvent  BY <1>6, HandleEventApart
<1>7. CASE UNCHANGED vars  BY <1>0, <1>7, OtherApart DEF vars, exosipVars
<1>8. CASE \/ Client \/ StartThread \/ AnswerCallCrash \/ ChangePresence \/ Delay \/ Register
           \/ RegisterFails \/ PollNothing \/ ThreadExit
    <2>1. UNCHANGED <<calls, cid, did, active, audio, events>>
          /\ (UNCHANGED currentState \/ currentState' = "eREGISTERING")
        BY <1>8 DEF Client, DoEvent, DoEventReturns, StartThread, AnswerCallCrash,
            ChangePresence, Delay, Register, RegisterFails, PollNothing, ThreadExit,
            ChangeState, exosipVars
    <2> QED BY <1>0, <2>1, OtherApart
<1> QED BY <1>1, <1>2, <1>3, <1>4, <1>5, <1>6, <1>7, <1>8 DEF Next, CallThread, GuiCallback

-----------------------------------------------------------------------------
(* What it says of the phone. *)

\* Calls that come one at a time keep the invariant.
THEOREM ApartInvHolds == ASSUME Apart PROVE Spec => []ApartInv
<1>1. Init => ApartInv  BY ApartInitInv
<1>2. ApartInv /\ [Next]_vars => ApartInv'  BY ApartNextInv
<1> QED BY <1>1, <1>2, PTL DEF Spec

\* Once every event has been read, the phone rings or talks only while the far
\* end does, whatever messages cross a CANCEL, a BYE or a rejection.
THEOREM StaysInStep == ASSUME Apart PROVE Spec => []InStep
<1>1. ApartInv => InStep  BY DEF ApartInv, ActiveInv, EndTold, InStep
<1> QED BY <1>1, ApartInvHolds, PTL

\* OnAnswered and OnAck establish the call on the screen.
THEOREM EstablishesCallOnScreen == ASSUME Apart PROVE Spec => []EstablishedIsOnScreen
<1>1. ApartInv => EstablishedIsOnScreen
    BY DEF ApartInv, ActiveInv, Inv, AudioIffAnswered, EstablishedIsOnScreen
<1> QED BY <1>1, ApartInvHolds, PTL

\* The media of a call stops by the user or with the call itself: no event of an
\* earlier call closes it.
THEOREM MediaStopsRightly == ASSUME Apart PROVE Spec => MediaStopsWithCall
<1>1. ApartInv /\ [Next]_vars => [audio # 0 /\ audio' = 0 => GuiCallback \/ ~Engaged(audio)]_vars
    <2> SUFFICES ASSUME ApartInv, Next, audio # 0, audio' = 0, ~GuiCallback
                 PROVE  ~Engaged(audio)
        BY DEF vars, engineVars
    <2>0. currentState = "eANSWERED" /\ audio = active /\ Newest(active) /\ active \in Call
        BY DEF ApartInv, ActiveInv, Inv, AudioIffAnswered, CallInv, InCall
    <2>1. OnClosed
        <3>1. OnClosed \/ OnAnswered \/ OnAck
            BY DEF Next, Network, Client, DoEvent, DoEventReturns, CallThread, StartThread,
                Delay, Register, RegisterFails, PollNothing, HandleEvent, OnRegistered,
                OnUnregistered, OnInvite, OnRinging, OnAttemptOver, OnSubscription,
                OnSubscriptionFails, OnOther, ThreadExit, engineVars
        <3> QED BY <2>0, <3>1 DEF OnAnswered, OnAck
    <2>2. events # << >> /\ je.type = "CLOSED"  BY <2>1 DEF OnClosed, Poll, je
    <2>3. je.cid \in Call /\ Newest(je.cid) /\ calls[je.cid].dlg = "freed"
          /\ calls[je.cid].tr \in {"2xx", "final"}
        BY <2>2, HeadFits DEF EventFits, CallEventType
    <2>4. je.cid = active  BY <2>0, <2>3, OneNewest
    <2> QED BY <2>0, <2>3, <2>4 DEF Engaged
<1> QED BY <1>1, ApartInvHolds, PTL DEF Spec, MediaStopsWithCall

-----------------------------------------------------------------------------
(* The inductive invariant. *)

\* The state told last is the one call_api.c is in; eDISCONNECTING is told to
\* nobody, and is only entered from a state that was told as CONNECTED.
StateTold == sipState = SipStateOf(currentState, "CONNECTED")

\* main() asks for something only while CallThread can be notified, and what it
\* asks for is one of the requests.
RequestInv ==
    /\ main = "request" => want \in OutEvent /\ pc # "start"
    /\ pc = "start" => currentState = "eNOT_REGISTERED"

\* The calls that came in, and the places of the INVITEs not read yet.
Invited == {c \in Call : calls[c].dir = "in"}
Unread == {i \in 1 .. Len(events) : events[i].type = "INVITE"}

\* A ringer thread was made for an INVITE that was read.
RingersInv == ringers + Cardinality(Unread) <= Cardinality(Invited)

GuiTypeOK ==
    /\ main \in {"loop", "request", "waiting", "release", "menu", "drawn", "shutdown"}
    /\ want \in OutEvent \cup {"none"}
    /\ redraw \in BOOLEAN /\ guiQuit \in BOOLEAN /\ ringing \in BOOLEAN
    /\ screen \in SipState \cup {"blank"}
    /\ ringers \in Nat

PhoneInv ==
    /\ Inv
    /\ GuiTypeOK /\ RequestInv
    /\ StateTold /\ RingingIffIncoming
    /\ RingersInv

-----------------------------------------------------------------------------
(* What a step of CallThread tells the user interface. *)

\* A step of CallThread tells the state it enters; a call is presented only by
\* OnInvite, and is over or established when it is no longer presented.
LEMMA CallThreadTells ==
    ASSUME Inv, StateTold, CallThread
    PROVE  /\ StateTold' /\ sipState' \in SipState
           /\ sipState' = "INCOMING" /\ sipState # "INCOMING" => OnInvite
           /\ sipState = "INCOMING" /\ sipState' # "INCOMING" =>
                 sipState' \in {"ESTABLISHED", "CONNECTED"}
<1>0. currentState \in CallState /\ sipState \in SipState  BY DEF Inv, TypeOK
<1>1. CASE UNCHANGED <<currentState, sipState>>
    BY <1>0, <1>1 DEF StateTold, SipStateOf
<1>2. CASE MakeCall
    BY <1>0, <1>2 DEF MakeCall, ChangeState, StateTold, SipStateOf, CallState, SipState
<1>3. CASE HangupCall
    BY <1>0, <1>3 DEF HangupCall, ChangeState, StateTold, SipStateOf, CallState, SipState
<1>4. CASE DisconnectSipServer
    BY <1>0, <1>4 DEF DisconnectSipServer, InCall, StateTold, SipStateOf, CallState, SipState
<1>5. CASE Register
    <2>1. currentState = "eNOT_REGISTERED"  BY <1>5 DEF Register, Inv, PlaceInv
    <2> QED BY <1>5, <2>1 DEF Register, ChangeState, StateTold, SipStateOf, SipState
<1>6. CASE OnRegistered
    BY <1>6 DEF OnRegistered, ChangeState, StateTold, SipStateOf, SipState
<1>7. CASE OnUnregistered
    BY <1>7 DEF OnUnregistered, ChangeState, StateTold, SipStateOf, SipState
<1>8. CASE OnInvite
    BY <1>8 DEF OnInvite, ChangeState, StateTold, SipStateOf, SipState
<1>9. CASE OnAnswered
    BY <1>9 DEF OnAnswered, ChangeState, StateTold, SipStateOf, SipState
<1>10. CASE OnAck
    BY <1>10 DEF OnAck, ChangeState, StateTold, SipStateOf, SipState
<1>11. CASE OnAttemptOver
    BY <1>11 DEF OnAttemptOver, ChangeState, StateTold, SipStateOf, SipState
<1>12. CASE OnClosed
    BY <1>12 DEF OnClosed, ChangeState, StateTold, SipStateOf, SipState
<1>13. \/ UNCHANGED <<currentState, sipState>> \/ MakeCall \/ HangupCall \/ DisconnectSipServer
       \/ Register \/ OnRegistered \/ OnUnregistered \/ OnInvite \/ OnAnswered \/ OnAck
       \/ OnAttemptOver \/ OnClosed
    BY DEF CallThread, StartThread, GuiCallback, AnswerCall, AnswerCallCrash, ChangePresence,
        Delay, RegisterFails, PollNothing, HandleEvent, OnRinging, OnSubscription,
        OnSubscriptionFails, OnOther, ThreadExit, engineVars
<1> QED
    BY <1>1, <1>2, <1>3, <1>4, <1>5, <1>6, <1>7, <1>8, <1>9, <1>10, <1>11, <1>12, <1>13

-----------------------------------------------------------------------------
(* The phone drives the engine as any user interface may. *)

\* Every step of the phone is a step of the engine, of eXosip or of a client of
\* SIPEngineDoEvent, or leaves them alone.
LEMMA PhoneStep == PhoneInv /\ [PhoneNext]_phoneVars => [Next]_vars
<1> SUFFICES ASSUME PhoneInv, PhoneNext, ~UNCHANGED vars PROVE Next
    BY DEF phoneVars
<1>1. CASE Ask
    <2>1. want \in OutEvent  BY <1>1 DEF Ask, PhoneInv, RequestInv
    <2> QED BY <1>1, <2>1 DEF Ask, Next, Client
<1>2. CASE Shutdown  BY <1>2 DEF Shutdown, Next, Client, OutEvent
<1>3. CASE Answered \/ ExitGame  BY <1>3 DEF Answered, ExitGame, Next, Client
<1>4. CASE EngineStep  BY <1>4 DEF EngineStep, Next
<1>5. CASE NetworkStep  BY <1>5 DEF NetworkStep, Next
<1> QED BY <1>1, <1>2, <1>3, <1>4, <1>5
    DEF PhoneNext, MainLoop, PressKey, NoKey, Release, Draw, Drawn, ExitCallback, RingerEnds

-----------------------------------------------------------------------------
(* No more ringer threads than calls that came in. *)

\* Both sets are finite: their sizes are numbers.
LEMMA Finite ==
    ASSUME events \in Seq(EventRecord)
    PROVE  /\ IsFiniteSet(Unread) /\ Cardinality(Unread) \in Nat
           /\ IsFiniteSet(Invited) /\ Cardinality(Invited) \in Nat
           /\ Cardinality(Invited) <= MaxCalls
<1>1. MaxCalls \in Nat /\ Len(events) \in Nat  BY ExosipConstants
<1>2. IsFiniteSet(Call) /\ Cardinality(Call) = MaxCalls
    BY <1>1, FS_Interval, ExosipConstants DEF Call
<1>3. IsFiniteSet(1 .. Len(events))  BY <1>1, FS_Interval
<1>4. Unread \subseteq 1 .. Len(events) /\ Invited \subseteq Call  BY DEF Unread, Invited
<1> QED BY <1>2, <1>3, <1>4, FS_Subset, FS_CardinalityType

\* Reading an event takes it from the places of unread INVITEs.
LEMMA TailUnread ==
    ASSUME events \in Seq(EventRecord), events # << >>, events' = Tail(events)
    PROVE  /\ Cardinality(Unread') \in Nat
           /\ Cardinality(Unread') + (IF je.type = "INVITE" THEN 1 ELSE 0) <= Cardinality(Unread)
<1> DEFINE U == Unread'
           T == Unread \ {1}
           f == [i \in U |-> i + 1]
<1>1. /\ Len(events') = Len(events) - 1 /\ Len(events) \in Nat \ {0}
      /\ \A i \in 1 .. Len(events') : events'[i] = events[i + 1]
    OBVIOUS
<1>2. \A i \in U : i \in 1 .. Len(events') /\ i + 1 \in T
    BY <1>1 DEF Unread
<1>3. f \in [U -> T] /\ \A i, j \in U : f[i] = f[j] => i = j
    <2>1. \A i \in U : f[i] = i + 1 /\ i \in Int  BY <1>1, <1>2
    <2> QED BY <1>2, <2>1
<1>4. f \in Injection(U, T)
    BY <1>3 DEF Injection, IsInjective
<1>5. /\ IsFiniteSet(T)
      /\ Cardinality(T) = IF 1 \in Unread THEN Cardinality(Unread) - 1 ELSE Cardinality(Unread)
    BY Finite, FS_RemoveElement
<1>6. IsFiniteSet(U) /\ Cardinality(U) <= Cardinality(T)
    <2> HIDE DEF f, U, T
    <2> QED BY <1>4, <1>5, FS_Injection
<1>7. Cardinality(U) \in Nat  BY <1>6, FS_CardinalityType
<1>8. 1 \in Unread <=> je.type = "INVITE"
    BY <1>1 DEF Unread, je
<1> HIDE DEF U, T
<1>9. Cardinality(Unread) \in Nat  BY Finite
<1>10. Cardinality(T) = IF je.type = "INVITE" THEN Cardinality(Unread) - 1 ELSE Cardinality(Unread)
    BY <1>5, <1>8
<1>11. Cardinality(U) + (IF je.type = "INVITE" THEN 1 ELSE 0) <= Cardinality(Unread)
    BY <1>6, <1>7, <1>9, <1>10
<1> QED BY <1>7, <1>11 DEF U

\* A call that came in stays one, whatever happens to it.
LEMMA InvitedStays ==
    ASSUME Inv, Next PROVE Invited \subseteq Invited'
<1> SUFFICES ASSUME NEW c \in Call, calls[c].dir = "in" PROVE calls'[c].dir = "in"
    BY DEF Invited
<1>0. calls \in [Call -> CallRecord] /\ calls[c] \in CallRecord  BY DEF Inv, TypeOK, ExosipTypeOK
<1>1. CASE Network
    <2>1. CASE RcvCallMessage
        <3> PICK d \in Call :
                \/ Rcv100(d) \/ Rcv180(d) \/ Rcv200(d)
                \/ \E type \in CallEventType : RcvFailure(d, type)
                \/ RcvChallenge(d) \/ InviteTimeout(d) \/ RcvCancel(d) \/ Snd603(d)
                \/ RcvAck(d) \/ RcvBye(d)
            BY <2>1 DEF RcvCallMessage
        <3> QED BY <1>0 DEF Rcv100, Rcv180, Rcv200, RcvFailure, RcvChallenge, InviteTimeout,
                RcvCancel, Snd603, RcvAck, RcvBye, CallRecord
    <2>2. CASE \E d \in Call : RcvInvite(d)
        BY <1>0, <2>2 DEF RcvInvite
    <2>3. CASE RcvRegisterReply \/ RcvSubscribe
        BY <2>3 DEF RcvRegisterReply, RcvRegisterOk, RcvRegisterFailure, RcvSubscribe
    <2> QED BY <1>1, <2>1, <2>2, <2>3 DEF Network
<1>2. CASE MakeCall
    BY <1>0, <1>2 DEF MakeCall, IsNext, IsFree, SendInitialInvite
<1>3. CASE AnswerCall
    BY <1>0, <1>3 DEF AnswerCall, SendAnswer200, CallRecord
<1>4. CASE HangupCall \/ DisconnectSipServer
    <2>1. UNCHANGED calls \/ Terminate(cid, did)
        BY <1>4 DEF HangupCall, DisconnectSipServer, EndCall
    <2>2. CASE Terminate(cid, did)
        BY <1>0, <2>2 DEF Terminate, TerminateFinds, CallRecord
    <2> QED BY <2>1, <2>2
<1>5. UNCHANGED calls \/ Network \/ MakeCall \/ AnswerCall \/ HangupCall \/ DisconnectSipServer
    BY DEF Next, Client, DoEvent, DoEventReturns, CallThread, StartThread, GuiCallback,
        AnswerCallCrash, ChangePresence, Delay, Register, RegisterFails, PollNothing,
        HandleEvent, OnRegistered, OnUnregistered, OnInvite, OnRinging, OnAnswered, OnAck,
        OnAttemptOver, OnClosed, OnSubscription, OnSubscriptionFails, OnOther, ThreadExit,
        exosipVars
<1> QED BY <1>1, <1>2, <1>3, <1>4, <1>5

\* What eXosip's thread queues: an INVITE only with the new call it is about.
LEMMA NetworkUnread ==
    ASSUME Inv, Network
    PROVE  \/ Unread' \subseteq Unread
           \/ \E c \in Call : c \notin Invited /\ c \in Invited'
                             /\ Unread' \subseteq Unread \cup {Len(events) + 1}
<1>0. events \in Seq(EventRecord)  BY DEF Inv, TypeOK, ExosipTypeOK
<1>1. ASSUME NEW e, events' = Append(events, e), e.type # "INVITE"
      PROVE  Unread' \subseteq Unread
    <2> SUFFICES ASSUME NEW i \in 1 .. Len(events'), events'[i].type = "INVITE"
                 PROVE  i \in 1 .. Len(events) /\ events[i].type = "INVITE"
        BY DEF Unread
    <2>1. Len(events') = Len(events) + 1 /\ events'[Len(events) + 1] = e
          /\ \A j \in 1 .. Len(events) : events'[j] = events[j]
        BY <1>0, <1>1
    <2> QED BY <1>0, <1>1, <2>1
<1>2. CASE \E c \in Call : RcvInvite(c)
    <2> PICK c \in Call : RcvInvite(c)  BY <1>2
    <2>1. c \notin Invited  BY DEF Invited, RcvInvite, IsNext, IsFree
    <2>2. c \in Invited'
        <3>1. calls \in [Call -> CallRecord]  BY DEF Inv, TypeOK, ExosipTypeOK
        <3> QED BY <3>1 DEF Invited, RcvInvite
    <2>3. Unread' \subseteq Unread \cup {Len(events) + 1}
        <3> SUFFICES ASSUME NEW i \in 1 .. Len(events'), events'[i].type = "INVITE",
                            i # Len(events) + 1
                     PROVE  i \in 1 .. Len(events) /\ events[i].type = "INVITE"
            BY DEF Unread
        <3> DEFINE e == [type |-> "INVITE", cid |-> c, did |-> DialogId(c, "live")]
        <3>1. events' = Append(events, e)  BY DEF RcvInvite, Report
        <3> HIDE DEF e
        <3> QED BY <1>0, <3>1
    <2> QED BY <2>1, <2>2, <2>3
<1>3. CASE RcvCallMessage
    <2> PICK c \in Call :
            \/ Rcv100(c) \/ Rcv180(c) \/ Rcv200(c)
            \/ \E type \in CallEventType : RcvFailure(c, type)
            \/ RcvChallenge(c) \/ InviteTimeout(c) \/ RcvCancel(c) \/ Snd603(c)
            \/ RcvAck(c) \/ RcvBye(c)
        BY <1>3 DEF RcvCallMessage
    <2>1. \/ UNCHANGED events
          \/ \E type \in CallEventType \ {"INVITE"}, dlg \in {"none", "live", "freed"} :
                events' = Append(events, [type |-> type, cid |-> c, did |-> DialogId(c, dlg)])
        <3>1. calls[c] \in CallRecord  BY DEF Inv, TypeOK, ExosipTypeOK
        <3> QED BY <3>1 DEF Rcv100, Rcv180, Rcv200, RcvFailure, RcvChallenge, InviteTimeout,
                RcvCancel, Snd603, RcvAck, RcvBye, Report, CallRecord, CallEventType
    <2>2. CASE UNCHANGED events  BY <2>2 DEF Unread
    <2>3. ASSUME NEW type \in CallEventType \ {"INVITE"}, NEW dlg,
                 events' = Append(events, [type |-> type, cid |-> c, did |-> DialogId(c, dlg)])
          PROVE  Unread' \subseteq Unread
        BY <1>1, <2>3
    <2> QED BY <2>1, <2>2, <2>3
<1>4. CASE RcvRegisterReply \/ RcvSubscribe
    <2>1. \E type \in OtherEventType :
            events' = Append(events, [type |-> type, cid |-> 0, did |-> 0])
        BY <1>4 DEF RcvRegisterReply, RcvRegisterOk, RcvRegisterFailure, RcvSubscribe,
            ReportPlain, OtherEventType
    <2> QED BY <1>1, <2>1 DEF OtherEventType
<1> QED BY <1>2, <1>3, <1>4 DEF Network

\* A step of the engine, with what CallbackEventHandler does, makes a ringer
\* only for an INVITE it reads.
LEMMA EngineStepRingers ==
    ASSUME PhoneInv, EngineStep PROVE RingersInv' /\ ringers' \in Nat
<1>0. Inv /\ StateTold /\ CallThread /\ ringers \in Nat /\ events \in Seq(EventRecord)
    BY DEF PhoneInv, EngineStep, GuiTypeOK, Inv, TypeOK, ExosipTypeOK
<1>1. Inv'  BY <1>0, NextInv DEF Next
<1>2. Invited \subseteq Invited'  BY <1>0, InvitedStays DEF Next
<1>3. events' \in Seq(EventRecord)  BY <1>1 DEF Inv, TypeOK, ExosipTypeOK
<1>4. IsFiniteSet(Unread) /\ IsFiniteSet(Invited)
      /\ Cardinality(Unread) \in Nat /\ Cardinality(Invited) \in Nat
    BY <1>0, Finite
<1>5. IsFiniteSet(Invited') /\ Cardinality(Invited') \in Nat
    <2>1. Invited' \subseteq Call /\ IsFiniteSet(Call)
        BY FS_Interval, ExosipConstants DEF Invited, Call
    <2> QED BY <2>1, FS_Subset, FS_CardinalityType
<1>6. Cardinality(Invited) <= Cardinality(Invited')  BY <1>2, <1>5, FS_Subset
<1>7. ringers + Cardinality(Unread) <= Cardinality(Invited)  BY DEF PhoneInv, RingersInv
<1>8. CASE OnInvite
    <2>1. events # << >> /\ events' = Tail(events) /\ je.type = "INVITE"
        BY <1>8 DEF OnInvite, Poll, je
    <2>2. Cardinality(Unread') \in Nat /\ Cardinality(Unread') + 1 <= Cardinality(Unread)
        BY <1>0, <2>1, TailUnread
    <2>3. ringers' \in {ringers, ringers + 1}  BY DEF EngineStep, SipStateEvent
    <2> QED BY <1>0, <1>4, <1>5, <1>6, <1>7, <2>2, <2>3 DEF RingersInv
<1>9. CASE ~OnInvite
    <2>1. UNCHANGED ringers
        <3>1. ~(sipState' = "INCOMING" /\ sipState # "INCOMING")
            BY <1>0, <1>9, CallThreadTells
        <3> QED BY <3>1 DEF EngineStep, SipStateEvent
    <2>2. UNCHANGED events \/ (events # << >> /\ events' = Tail(events))
        BY <1>0 DEF CallThread, StartThread, GuiCallback, MakeCall, AnswerCall, AnswerCallCrash,
            HangupCall, ChangePresence, DisconnectSipServer, Delay, Register, RegisterFails,
            PollNothing, HandleEvent, OnRegistered, OnUnregistered, OnInvite, OnRinging,
            OnAnswered, OnAck, OnAttemptOver, OnClosed, OnSubscription, OnSubscriptionFails,
            OnOther, ThreadExit, Poll, exosipVars
    <2>3. Cardinality(Unread') \in Nat /\ Cardinality(Unread') <= Cardinality(Unread)
        <3>1. CASE UNCHANGED events
            <4>1. Unread' = Unread  BY <3>1 DEF Unread
            <4> QED BY <1>4, <4>1
        <3>2. CASE events # << >> /\ events' = Tail(events)
            BY <1>0, <1>4, <3>2, TailUnread
        <3> QED BY <2>2, <3>1, <3>2
    <2> QED BY <1>0, <1>4, <1>5, <1>6, <1>7, <2>1, <2>3 DEF RingersInv
<1> QED BY <1>8, <1>9

\* eXosip's thread queues an INVITE with the call it made.
LEMMA NetworkStepRingers ==
    ASSUME PhoneInv, NetworkStep PROVE RingersInv'
<1>0. Inv /\ Network /\ ringers \in Nat /\ UNCHANGED ringers /\ events \in Seq(EventRecord)
    BY DEF PhoneInv, NetworkStep, GuiTypeOK, Inv, TypeOK, ExosipTypeOK, guiVars
<1>1. IsFiniteSet(Unread) /\ IsFiniteSet(Invited)
      /\ Cardinality(Unread) \in Nat /\ Cardinality(Invited) \in Nat
    BY <1>0, Finite
<1>2. IsFiniteSet(Invited') /\ Cardinality(Invited') \in Nat
    <2>1. Invited' \subseteq Call /\ IsFiniteSet(Call)
        BY FS_Interval, ExosipConstants DEF Invited, Call
    <2> QED BY <2>1, FS_Subset, FS_CardinalityType
<1>3. Invited \subseteq Invited'  BY <1>0, InvitedStays DEF Next
<1>4. ringers + Cardinality(Unread) <= Cardinality(Invited)  BY DEF PhoneInv, RingersInv
<1>5. CASE Unread' \subseteq Unread
    <2>1. Cardinality(Invited) <= Cardinality(Invited')  BY <1>2, <1>3, FS_Subset
    <2>2. IsFiniteSet(Unread') /\ Cardinality(Unread') <= Cardinality(Unread)
        BY <1>1, <1>5, FS_Subset
    <2>3. Cardinality(Unread') \in Nat  BY <2>2, FS_CardinalityType
    <2> QED BY <1>0, <1>1, <1>2, <1>4, <2>1, <2>2, <2>3 DEF RingersInv
<1>6. ASSUME NEW c \in Call, c \notin Invited, c \in Invited',
             Unread' \subseteq Unread \cup {Len(events) + 1}
      PROVE  RingersInv'
    <2>1. Cardinality(Invited) + 1 <= Cardinality(Invited')
        <3>1. Cardinality(Invited \cup {c}) = Cardinality(Invited) + 1
            BY <1>1, <1>6, FS_AddElement
        <3>2. Invited \cup {c} \subseteq Invited'  BY <1>3, <1>6
        <3> QED BY <1>2, <3>1, <3>2, FS_Subset
    <2>2. /\ IsFiniteSet(Unread \cup {Len(events) + 1})
          /\ Cardinality(Unread \cup {Len(events) + 1}) \in {Cardinality(Unread), Cardinality(Unread) + 1}
        BY <1>1, FS_AddElement
    <2>3. IsFiniteSet(Unread') /\ Cardinality(Unread') <= Cardinality(Unread \cup {Len(events) + 1})
        BY <1>6, <2>2, FS_Subset
    <2>4. Cardinality(Unread') \in Nat  BY <2>3, FS_CardinalityType
    <2>5. Cardinality(Unread') <= Cardinality(Unread) + 1  BY <1>1, <2>2, <2>3, <2>4
    <2> QED BY <1>0, <1>1, <1>2, <1>4, <2>1, <2>4, <2>5 DEF RingersInv
<1> QED BY <1>0, <1>5, <1>6, NetworkUnread

-----------------------------------------------------------------------------
(* The invariant is inductive. *)

\* The phone as it starts.
LEMMA PhoneInitInv == PhoneInit => PhoneInv
<1> SUFFICES ASSUME PhoneInit PROVE PhoneInv  OBVIOUS
<1>1. Inv  BY InitInv DEF PhoneInit
<1>2. GuiTypeOK /\ RequestInv /\ RingingIffIncoming
    BY DEF PhoneInit, Init, GuiTypeOK, RequestInv, RingingIffIncoming
<1>3. StateTold  BY DEF PhoneInit, Init, StateTold, SipStateOf
<1>4. RingersInv
    <2>1. Unread = {}  BY DEF PhoneInit, Init, ExosipInit, Unread
    <2>2. Cardinality(Unread) = 0  BY <2>1, FS_EmptySet
    <2>3. Cardinality(Invited) \in Nat  BY <1>1, Finite DEF Inv, TypeOK, ExosipTypeOK
    <2> QED BY <2>2, <2>3 DEF PhoneInit, RingersInv
<1> QED BY <1>1, <1>2, <1>3, <1>4 DEF PhoneInv

\* Each step of the phone keeps it.
LEMMA PhoneNextInv == PhoneInv /\ [PhoneNext]_phoneVars => PhoneInv'
<1> SUFFICES ASSUME PhoneInv, [PhoneNext]_phoneVars PROVE PhoneInv'  OBVIOUS
<1>0. Inv /\ GuiTypeOK /\ RequestInv /\ StateTold /\ RingingIffIncoming /\ RingersInv
    BY DEF PhoneInv
<1>1. Inv'  BY <1>0, PhoneStep, NextInv
<1>2. ASSUME UNCHANGED <<calls, events, currentState, sipState, pc>>,
             UNCHANGED ringing, ringers' \in Nat, ringers' <= ringers
      PROVE  StateTold' /\ RingingIffIncoming' /\ RingersInv'
    <2>1. Unread' = Unread /\ Invited' = Invited  BY <1>2 DEF Unread, Invited
    <2>2. Cardinality(Unread) \in Nat /\ Cardinality(Invited) \in Nat
        BY <1>0, Finite DEF Inv, TypeOK, ExosipTypeOK
    <2>3. ringers + Cardinality(Unread) <= Cardinality(Invited) /\ ringers \in Nat
        BY <1>0 DEF RingersInv, GuiTypeOK
    <2>4. RingersInv'  BY <1>2, <2>1, <2>2, <2>3 DEF RingersInv
    <2> QED BY <1>0, <1>2, <2>4 DEF StateTold, RingingIffIncoming
<1>3. GuiTypeOK'
    <2>1. sipState \in SipState  BY <1>0 DEF Inv, TypeOK
    <2>2. \A k \in Key : Request(sipState, k) \in OutEvent \cup {"none"}
        BY DEF Request, OutEvent
    <2> USE <1>0 DEF GuiTypeOK
    <2>3. CASE \E k \in Key : PressKey(k)
        <3> PICK k \in Key : PressKey(k)  BY <2>3
        <3>1. want' \in OutEvent \cup {"none"}  BY <2>2 DEF PressKey
        <3>2. main' \in {"release", "request"} /\ guiQuit' \in BOOLEAN /\ redraw' \in BOOLEAN
            BY DEF PressKey
        <3> QED BY <3>1, <3>2 DEF PressKey
    <2>4. CASE NoKey \/ Ask \/ Answered \/ Release \/ Shutdown
        BY <2>4 DEF NoKey, Ask, Answered, Release, Shutdown
    <2>5. CASE Draw \/ Drawn  BY <2>1, <2>5 DEF Draw, Drawn
    <2>6. CASE EngineStep
        <3>1. ringers' \in Nat  BY <2>6, EngineStepRingers
        <3> QED BY <2>6, <3>1 DEF EngineStep, SipStateEvent
    <2>7. CASE ExitGame \/ NetworkStep  BY <2>7 DEF ExitGame, NetworkStep, guiVars
    <2>8. CASE ExitCallback \/ RingerEnds
        <3>1. ringers' \in Nat  BY <2>8 DEF ExitCallback, RingerEnds
        <3>2. guiQuit' \in BOOLEAN  BY <2>8 DEF ExitCallback, RingerEnds
        <3> QED BY <2>8, <3>1, <3>2 DEF ExitCallback, RingerEnds
    <2>9. CASE UNCHANGED phoneVars  BY <2>9 DEF phoneVars, guiVars
    <2> QED BY <2>3, <2>4, <2>5, <2>6, <2>7, <2>8, <2>9 DEF PhoneNext, MainLoop
<1>4. RequestInv'
    <2> USE <1>0 DEF RequestInv
    <2>1. pc' = "start" => pc = "start" /\ UNCHANGED currentState
        BY <1>1, PhoneStep DEF Next, Network, Client, DoEvent, DoEventReturns, CallThread,
            StartThread, GuiCallback, MakeCall, AnswerCall, AnswerCallCrash, HangupCall,
            ChangePresence, DisconnectSipServer, Delay, Register, RegisterFails, PollNothing,
            HandleEvent, OnRegistered, OnUnregistered, OnInvite, OnRinging, OnAnswered, OnAck,
            OnAttemptOver, OnClosed, OnSubscription, OnSubscriptionFails, OnOther, ThreadExit,
            Poll, Dispatch, engineVars, vars
    <2>2. CASE \E k \in Key : PressKey(k)
        <3> PICK k \in Key : PressKey(k)  BY <2>2
        <3>1. UNCHANGED pc  BY DEF PressKey, vars
        <3>2. want' \in OutEvent \cup {"none"}  BY <1>3 DEF GuiTypeOK
        <3>3. main' = "request" => want' # "none"  BY DEF PressKey
        <3>4. want' # "none" => sipState # "DISCONNECTED"  BY DEF PressKey, Request
        <3>5. pc = "start" => sipState = "DISCONNECTED"  BY DEF StateTold, SipStateOf
        <3> QED BY <2>1, <3>1, <3>2, <3>3, <3>4, <3>5
    <2>3. CASE main' = "request" => main = "request" /\ UNCHANGED want
        BY <2>1, <2>3
    <2> QED BY <2>2, <2>3 DEF PhoneNext, MainLoop, NoKey, Ask, Answered, Release, Draw, Drawn,
            Shutdown, ExitGame, ExitCallback, EngineStep, NetworkStep, RingerEnds, guiVars,
            phoneVars
<1>5. StateTold' /\ RingingIffIncoming' /\ RingersInv'
    <2>1. CASE EngineStep
        <3>1. RingersInv'  BY <2>1, EngineStepRingers
        <3>2. CallThread /\ SipStateEvent /\ ringing \in BOOLEAN
            BY <1>0, <2>1 DEF EngineStep, GuiTypeOK
        <3>3. /\ StateTold'
              /\ sipState = "INCOMING" /\ sipState' # "INCOMING" =>
                    sipState' \in {"ESTABLISHED", "CONNECTED"}
            BY <1>0, <3>2, CallThreadTells
        <3>4. RingingIffIncoming'
            BY <1>0, <3>2, <3>3 DEF SipStateEvent, RingingIffIncoming
        <3> QED BY <3>1, <3>3, <3>4
    <2>2. CASE NetworkStep
        <3>1. RingersInv'  BY <2>2, NetworkStepRingers
        <3>2. UNCHANGED <<currentState, sipState, ringing>>
            BY <2>2 DEF NetworkStep, Network, engineVars, guiVars
        <3> QED BY <1>0, <3>1, <3>2 DEF StateTold, RingingIffIncoming
    <2>3. CASE RingerEnds
        <3>1. ringers \in Nat  BY <1>0 DEF GuiTypeOK
        <3> QED BY <1>2, <2>3, <3>1
            DEF RingerEnds, vars, exosipVars, engineVars
    <2>4. CASE UNCHANGED <<calls, events, currentState, sipState, pc, ringing, ringers>>
        <3>1. ringers \in Nat  BY <1>0 DEF GuiTypeOK
        <3> QED BY <1>2, <2>4, <3>1
    <2> QED BY <2>1, <2>2, <2>3, <2>4 DEF PhoneNext, MainLoop, PressKey, NoKey, Ask, Answered,
            Release, Draw, Drawn, Shutdown, ExitGame, ExitCallback, DoEvent, DoEventReturns,
            vars, exosipVars, engineVars, guiVars, phoneVars
<1> QED BY <1>0, <1>1, <1>3, <1>4, <1>5 DEF PhoneInv

\* Every behaviour of the phone keeps the invariant.
THEOREM PhoneInvHolds == PhoneSpec => []PhoneInv
BY PhoneInitInv, PhoneNextInv, PTL DEF PhoneSpec

\* The state of text_gui.c stays within its types, and no more playRingerThreads
\* exist than calls ever came in.
THEOREM PhoneTypeCorrect == PhoneSpec => []PhoneTypeOK
<1>1. PhoneInv => PhoneTypeOK
    <2> SUFFICES ASSUME PhoneInv PROVE PhoneTypeOK  OBVIOUS
    <2>1. Cardinality(Unread) \in Nat /\ Cardinality(Invited) \in Nat
          /\ Cardinality(Invited) <= MaxCalls
        BY Finite DEF PhoneInv, Inv, TypeOK, ExosipTypeOK
    <2>2. ringers \in 0 .. MaxCalls
        BY <2>1, ExosipConstants DEF PhoneInv, RingersInv, GuiTypeOK
    <2> QED BY <2>2 DEF PhoneInv, Inv, GuiTypeOK, PhoneTypeOK
<1> QED BY <1>1, PhoneInvHolds, PTL

\* The phone drives the engine only as CallControl allows a user interface to:
\* what holds of call_api.c under any client holds of the phone.
THEOREM PhoneImplementsEngine == PhoneSpec => Spec
<1>1. PhoneInit => Init  BY DEF PhoneInit
<1> QED BY <1>1, PhoneInvHolds, PhoneStep, PTL DEF PhoneSpec, Spec

\* The invariants of the engine, in the phone.
THEOREM PhoneKeepsEngine ==
    PhoneSpec => [](AudioIffAnswered /\ HandshakeExact /\ AnswersTheCallOnScreen)
BY PhoneImplementsEngine, MediaFollowsState, HandshakeHolds, AnswersRightCall, PTL

\* CallbackEventHandler starts and stops the ringer with the incoming call, for
\* every order of requests, messages and quitting.
THEOREM RingerFollowsCall == PhoneSpec => []RingingIffIncoming
<1>1. PhoneInv => RingingIffIncoming  BY DEF PhoneInv
<1> QED BY <1>1, PhoneInvHolds, PTL

=============================================================================
