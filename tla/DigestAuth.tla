---------------------------- MODULE DigestAuth ----------------------------
(* Digest authentication in eXosip: the credentials eXosip adds to its      *)
(* requests (eXosip_add_authentication_information), the table of nonces it *)
(* keeps per Call-ID (jauth.c), the automatic retry of a challenged request *)
(* and the refresh of the registration (eXosip.c, eXregister_api.c), against *)
(* the guards on the way: a proxy that answers 407 and a registrar or user  *)
(* agent that answers 401.                                                  *)
(*                                                                          *)
(* One owner is the registration, the others are calls; an owner stands for *)
(* its Call-ID, which is random and therefore never used again.             *)
EXTENDS Naturals, FiniteSets, FiniteSetsExt

CONSTANTS
    Calls,       \* outgoing calls
    Slots,       \* MAX_EXOSIP_HTTP_AUTH, 10 in the code
    MaxNonce,    \* bound: challenges the guards make
    MaxRefresh,  \* bound: refreshes of an accepted registration
    MaxTrouble   \* bound: nonces that expire, answers lost, 5xx and 3xx

ASSUME DigestAssumption ==
    /\ {"reg", "free"} \cap Calls = {}
    /\ Slots \in Nat \ {0}
    /\ {MaxNonce, MaxRefresh, MaxTrouble} \subseteq Nat

VARIABLES
    http_auths,  \* eXosip.http_auths: one record or Free per slot
    own,         \* what eXosip keeps of each owner's last request
    used,        \* history: the <<nonce, count>> pairs ever sent
    net          \* the guards: which stand on the way, the nonces they honour

vars == <<http_auths, own, used, net>>

Owners == Calls \cup {"reg"}
Realms == {"proxy", "uas"}
RetryLimit == 3
None == [realm |-> "none"]
Free == [owner |-> "free"]

(* What an owner's request was, its credentials, the challenge in its last  *)
(* response, the counter of retries and the call's response_auth.           *)
Unsent == [phase |-> "idle", method |-> "none", creds |-> {}, challenge |-> None,
           retry |-> 0, response_auth |-> None, met |-> {}, refreshed |-> 0]

Init ==
    /\ http_auths = [s \in 1..Slots |-> Free]
    /\ own = [o \in Owners |-> Unsent]
    /\ used = {}
    /\ \E guards \in (SUBSET Realms) \ {{}}, qop \in BOOLEAN :
          net = [guards |-> guards, qop |-> qop, made |-> 0, honoured |-> {},
                 trouble |-> 0]

SlotsOf(o) == {s \in 1..Slots : http_auths[s].owner = o}

---------------------------------------------------------------------------
(* jauth.c *)

(* Faulty: the table is not searched for the Call-ID first.                  *)
store_nonce_appends(o, wa) ==
    LET empty == {s \in 1..Slots : http_auths[s] = Free}
        entry == [owner |-> o, realm |-> wa.realm, nonce |-> wa.nonce, count |-> 1]
    IN  IF empty # {} THEN [http_auths EXCEPT ![Min(empty)] = entry] ELSE http_auths

(* _eXosip_store_nonce: the entry of the same Call-ID and realm is replaced *)
(* and counts from 1 again; otherwise the first free entry is taken, and a  *)
(* full table keeps nothing.                                                *)
_eXosip_store_nonce(o, wa) ==
    LET same == {s \in SlotsOf(o) : http_auths[s].realm = wa.realm}
        empty == {s \in 1..Slots : http_auths[s] = Free}
        entry == [owner |-> o, realm |-> wa.realm, nonce |-> wa.nonce, count |-> 1]
    IN  IF same # {} THEN [http_auths EXCEPT ![Min(same)] = entry]
        ELSE IF empty # {} THEN [http_auths EXCEPT ![Min(empty)] = entry]
        ELSE http_auths

(* _eXosip_delete_nonce: only the first entry of the Call-ID is cleared.     *)
_eXosip_delete_nonce(o) ==
    IF SlotsOf(o) = {} THEN http_auths
    ELSE [http_auths EXCEPT ![Min(SlotsOf(o))] = Free]

(* __eXosip_create_authorization_header and its proxy twin: the counter     *)
(* goes out only when the challenge offers qop; without it the count is 0.  *)
Credential(header, realm, nonce, count) ==
    [header |-> header, realm |-> realm, nonce |-> nonce, count |-> count,
     again |-> count > 0 /\ <<nonce, count>> \in used]

---------------------------------------------------------------------------
(* eXosip_add_authentication_information *)

(* With a response: its challenge is answered with the count 1 and, when it  *)
(* offers qop, kept for the Call-ID.                                        *)
FromChallenge(o, wa) ==
    [creds |-> {Credential(wa.realm, wa.realm, wa.nonce, IF wa.qop THEN 1 ELSE 0)},
     auths |-> IF wa.qop THEN _eXosip_store_nonce(o, wa) ELSE http_auths]

(* Faulty: the cached count is used as it is.                                *)
FromTableUncounted(o, method) ==
    [creds |-> {Credential(IF method = "REGISTER" THEN "uas" ELSE "proxy",
                           http_auths[s].realm, http_auths[s].nonce, http_auths[s].count)
                  : s \in SlotsOf(o)},
     auths |-> http_auths]

(* Without one: every entry of the Call-ID is counted up and used, for a    *)
(* REGISTER as Authorization and for all else as Proxy-Authorization,       *)
(* whichever header the challenge came in.                                  *)
FromTable(o, method) ==
    LET header == IF method = "REGISTER" THEN "uas" ELSE "proxy"
        next == [s \in SlotsOf(o) |-> http_auths[s].count + 1]
    IN  [creds |-> {Credential(header, http_auths[s].realm, http_auths[s].nonce, next[s])
                      : s \in SlotsOf(o)},
         auths |-> [s \in 1..Slots |-> IF s \in SlotsOf(o)
                                       THEN [http_auths[s] EXCEPT !.count = next[s]]
                                       ELSE http_auths[s]]]

Bare == [creds |-> {}, auths |-> http_auths]

(* A request leaves with these credentials.                                 *)
Send(o, method, with, retry) ==
    /\ http_auths' = with.auths
    /\ used' = used \cup {<<c.nonce, c.count>> : c \in {d \in with.creds : d.count > 0}}
    /\ own' = [own EXCEPT ![o].phase = "sent", ![o].method = method,
                          ![o].creds = with.creds, ![o].challenge = None,
                          ![o].retry = retry,
                          ![o].refreshed = IF own[o].phase = "ok" /\ o = "reg"
                                           THEN @ + 1 ELSE @]
    /\ UNCHANGED net

---------------------------------------------------------------------------
(* eXosip's requests *)

(* eXosip_register_send_register and eXosip_call_send_initial_invite for a   *)
(* new Call-ID.                                                             *)
Start(o) ==
    /\ own[o].phase = "idle"
    /\ Send(o, IF o = "reg" THEN "REGISTER" ELSE "INVITE", Bare, 0)

(* What _eXosip_register_build_register adds, by the last response: a 4xx    *)
(* is answered (without a challenge nothing is added), anything else uses   *)
(* the table, and after silence the request goes out bare.                  *)
RegisterCredentials ==
    CASE own["reg"].phase = "refused" -> FromChallenge("reg", own["reg"].challenge)
      [] own["reg"].phase \in {"ok", "5xx"} -> FromTable("reg", "REGISTER")
      [] OTHER -> Bare

(* eXosip_automatic_refresh: before the registration expires, or 120 s after *)
(* one that was not accepted.                                               *)
eXosip_automatic_refresh ==
    /\ \/ own["reg"].phase = "ok" /\ own["reg"].refreshed < MaxRefresh
       \/ own["reg"].phase \in {"5xx", "silence"}
       \/ own["reg"].phase = "refused" /\ own["reg"].retry >= RetryLimit
    /\ Send("reg", "REGISTER", RegisterCredentials, own["reg"].retry)

(* Faulty: the retry is given up after one attempt.                           *)
RetryOnce(o) ==
    /\ own[o].phase = "refused"
    /\ own[o].method # "BYE"
    /\ own[o].retry < 1
    /\ Send(o, own[o].method, FromChallenge(o, own[o].challenge), own[o].retry + 1)

(* eXosip_automatic_action: a challenged request is sent again three times   *)
(* at most, with the answer to the last challenge only. A BYE is not: its   *)
(* dialog is gone.                                                          *)
Retry(o) ==
    /\ own[o].phase = "refused"
    /\ own[o].method # "BYE"
    /\ own[o].retry < RetryLimit
    /\ Send(o, own[o].method, FromChallenge(o, own[o].challenge), own[o].retry + 1)

(* The same for a 3xx: the INVITE follows the new Contact with everything    *)
(* the table has, as often as it is redirected.                             *)
Redirect(o) ==
    /\ own[o].phase = "3xx"
    /\ Send(o, "INVITE", FromTable(o, "INVITE"), own[o].retry)

(* eXosip_call_terminate: the BYE answers the last challenge of the call,    *)
(* however old it is.                                                       *)
Bye(o) ==
    /\ o \in Calls
    /\ own[o].phase = "ok"
    /\ Send(o, "BYE", IF own[o].response_auth # None
                      THEN FromChallenge(o, own[o].response_auth)
                      ELSE FromTable(o, "BYE"), own[o].retry)

(* eXosip_call_free and eXosip_reg_free, once nothing is under way.          *)
Over(o) ==
    \/ own[o].phase \in {"silence", "5xx"} /\ o # "reg"
    \/ own[o].phase = "refused" /\ (own[o].method = "BYE" \/ own[o].retry >= RetryLimit)
       /\ o # "reg"
    \/ own[o].phase = "ok" /\ (own[o].method = "BYE" \/ o = "reg")

Release(o) ==
    /\ Over(o)
    /\ http_auths' = _eXosip_delete_nonce(o)
    /\ own' = [own EXCEPT ![o] = [Unsent EXCEPT !.phase = "gone", !.met = own[o].met]]
    /\ UNCHANGED <<used, net>>

---------------------------------------------------------------------------
(* The guards (external) and eXosip's handling of their answers *)

(* A guard lets a request pass whose credentials, in its own header, name a  *)
(* nonce it still honours and a count it has not seen.                      *)
Satisfied(g, creds) ==
    \E c \in creds : /\ c.header = g /\ c.realm = g
                     /\ c.nonce \in net.honoured /\ ~c.again

(* The first guard that is not satisfied: the proxy stands in front.         *)
Stops(g, creds) ==
    /\ g \in net.guards
    /\ ~Satisfied(g, creds)
    /\ g = "uas" => ("proxy" \in net.guards => Satisfied("proxy", creds))

(* cb_rcv4xx: a call keeps the challenge as response_auth.                   *)
Challenge(o) ==
    /\ own[o].phase = "sent"
    /\ net.made < MaxNonce
    /\ \E g \in Realms :
          /\ Stops(g, own[o].creds)
          /\ net' = [net EXCEPT !.made = @ + 1, !.honoured = @ \cup {net.made + 1}]
          /\ LET wa == [realm |-> g, nonce |-> net.made + 1, qop |-> net.qop]
             IN own' = [own EXCEPT ![o].phase = "refused", ![o].challenge = wa,
                                   ![o].met = @ \cup {g},
                                   ![o].response_auth = IF o = "reg" THEN @ ELSE wa]
    /\ UNCHANGED <<http_auths, used>>

(* cb_rcv2xx: the counter of retries starts again.                           *)
Accept(o) ==
    /\ own[o].phase = "sent"
    /\ \A g \in Realms : ~Stops(g, own[o].creds)
    /\ own' = [own EXCEPT ![o].phase = "ok", ![o].retry = 0]
    /\ UNCHANGED <<http_auths, used, net>>

(* Other answers: a 5xx, no answer at all, a redirection of an INVITE.       *)
Fail(o) ==
    /\ own[o].phase = "sent"
    /\ net.trouble < MaxTrouble
    /\ \E answer \in {"5xx", "silence", "3xx"} :
          /\ answer = "3xx" => own[o].method = "INVITE"
          /\ own' = [own EXCEPT ![o].phase = answer]
    /\ net' = [net EXCEPT !.trouble = @ + 1]
    /\ UNCHANGED <<http_auths, used>>

(* A guard forgets a nonce eXosip may still use.                             *)
Held == {http_auths[s].nonce : s \in {t \in 1..Slots : http_auths[t] # Free}}
        \cup {own[o].challenge.nonce : o \in {p \in Owners : own[p].challenge # None}}
        \cup {c.nonce : c \in UNION {own[o].creds : o \in Owners}}

Expire ==
    /\ net.trouble < MaxTrouble
    /\ \E n \in net.honoured \cap Held :
          net' = [net EXCEPT !.honoured = @ \ {n}, !.trouble = @ + 1]
    /\ UNCHANGED <<http_auths, own, used>>

Next ==
    \/ \E o \in Owners : Start(o) \/ Retry(o) \/ Redirect(o) \/ Bye(o) \/ Release(o)
                         \/ Challenge(o) \/ Accept(o) \/ Fail(o)
    \/ eXosip_automatic_refresh
    \/ Expire

(* CallThread runs automatic_action and automatic_refresh in every round,    *)
(* whatever its state (call_api.c, 197 to 201), and the guards answer what   *)
(* reaches them.                                                            *)
Fairness ==
    /\ \A o \in Owners : /\ WF_vars(Retry(o)) /\ WF_vars(Redirect(o))
                         /\ WF_vars(Challenge(o)) /\ WF_vars(Accept(o))
    /\ WF_vars(eXosip_automatic_refresh)

Spec == Init /\ [][Next]_vars /\ Fairness

---------------------------------------------------------------------------
(* Properties *)

(* No REGISTER and no INVITE repeats a nonce with a count that was already   *)
(* sent: iNonceCount (jauth.c) and the fresh answer to every challenge keep  *)
(* them apart over retries, refreshes, redirections, lost answers and a full *)
(* table. A BYE may: it answers the call's old challenge with the count 1.   *)
NoReplay ==
    \A o \in Owners : own[o].method \in {"REGISTER", "INVITE"} =>
        \A c \in own[o].creds : ~c.again

(* A Call-ID that has ended leaves entries in the table only when it met two *)
(* realms, and then one: _eXosip_delete_nonce clears the first entry. What   *)
(* the living use holds one entry per realm they met.                       *)
TableIsBounded ==
    \A o \in Owners :
        Cardinality(SlotsOf(o)) <= IF own[o].phase = "gone"
                                   THEN Max({1, Cardinality(own[o].met)}) - 1
                                   ELSE Cardinality(own[o].met)

(* With one guard on the way every REGISTER and every INVITE is in the end   *)
(* accepted, or the call given up after a 5xx or silence: nonces that expire *)
(* between the challenge and its answer and credentials in the wrong header  *)
(* are made good by the retries.                                            *)
Admitted ==
    \A o \in Owners :
        (Cardinality(net.guards) = 1 /\ own[o].phase = "sent" /\ own[o].method # "BYE")
            ~> \/ own[o].phase \in {"ok", "gone"}
               \/ o \in Calls /\ own[o].phase \in {"5xx", "silence"}
===========================================================================
