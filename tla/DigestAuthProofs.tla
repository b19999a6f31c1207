-------------------------- MODULE DigestAuthProofs --------------------------
(***************************************************************************)
(* NoReplay and TableIsBounded for any number of calls, slots, challenges, *)
(* refreshes and failures.                                                 *)
(*                                                                         *)
(* A nonce is heard of in three places: the table, a challenge that is not *)
(* answered yet, and the call's response_auth.  The argument rests on it   *)
(* belonging to one owner and one realm wherever it appears (Heard), and   *)
(* on the table never counting behind what was sent, except for a call     *)
(* whose BYE has answered an old challenge, which sends nothing after it.  *)
(***************************************************************************)
EXTENDS DigestAuth, FiniteSetTheorems, WellFoundedInduction, TLAPS

Entry == [owner : Owners, realm : Realms, nonce : Nat, count : Nat]

Wanted == [realm : Realms, nonce : Nat, qop : BOOLEAN]

Creds == [header : Realms, realm : Realms, nonce : Nat, count : Nat, again : BOOLEAN]

Owned ==
    [phase : {"idle", "sent", "refused", "ok", "5xx", "silence", "3xx", "gone"},
     method : {"none", "REGISTER", "INVITE", "BYE"}, creds : SUBSET Creds,
     challenge : {None} \cup Wanted, retry : Nat, response_auth : {None} \cup Wanted,
     met : SUBSET Realms, refreshed : Nat]

AuthTypes ==
    /\ http_auths \in [1 .. Slots -> {Free} \cup Entry]
    /\ own \in [Owners -> Owned]
    /\ used \subseteq Nat \X Nat
    /\ net \in [guards : SUBSET Realms, qop : BOOLEAN, made : Nat, honoured : SUBSET Nat, trouble : Nat]

\* What an owner's phase says about the rest of it.
PhaseFits ==
    \A o \in Owners :
        /\ own[o].phase = "refused" <=> own[o].challenge # None
        /\ own[o].phase \in {"idle", "gone"} <=> own[o].method = "none"
        /\ own[o].phase = "idle" => own[o].met = {} /\ own[o].response_auth = None
        /\ own[o].phase = "3xx" => own[o].method = "INVITE"
        /\ o = "reg" => own[o].method \in {"none", "REGISTER"}

\* Where the nonce n is heard of, with the owner and the realm it is for.
InTable(n, o, r) ==
    \E s \in 1 .. Slots : /\ http_auths[s].owner = o
                          /\ http_auths[s].nonce = n
                          /\ http_auths[s].realm = r

Heard(n, o, r) ==
    \/ InTable(n, o, r)
    \/ own[o].challenge # None /\ own[o].challenge.nonce = n /\ own[o].challenge.realm = r
    \/ own[o].response_auth # None /\ own[o].response_auth.nonce = n /\ own[o].response_auth.realm = r

NonceFixed ==
    /\ \A n \in Nat : \A o, p \in Owners : \A r, q \in Realms :
          Heard(n, o, r) /\ Heard(n, p, q) => o = p /\ r = q
    /\ \A n \in Nat : \A o \in Owners : \A r \in Realms : Heard(n, o, r) => n <= net.made
    /\ \A n, k \in Nat : <<n, k>> \in used => n <= net.made

\* Every realm an owner has a nonce of has challenged it.
RealmsMet ==
    \A o \in Owners :
        /\ own[o].challenge # None => own[o].challenge.realm \in own[o].met
        /\ own[o].response_auth # None => own[o].response_auth.realm \in own[o].met
        /\ \A s \in SlotsOf(o) : http_auths[s].realm \in own[o].met

OnePerRealm ==
    \A o \in Owners : \A s, u \in SlotsOf(o) :
        http_auths[s].realm = http_auths[u].realm => s = u

\* An ended owner has given up the entry of one realm, if it had any.
GoneGaveUp ==
    \A o \in Owners :
        own[o].phase = "gone" =>
            \/ SlotsOf(o) = {}
            \/ \E r \in own[o].met : \A s \in SlotsOf(o) : http_auths[s].realm # r

\* A challenge not answered yet is of a nonce never used; one in the table was used.
ChallengeFresh ==
    \A o \in Owners : own[o].challenge # None =>
        \A k \in Nat : <<own[o].challenge.nonce, k>> \notin used

TableUsed ==
    \A o \in Owners : \A s \in SlotsOf(o) : <<http_auths[s].nonce, http_auths[s].count>> \in used

\* The table does not count behind what was sent.
Level(o) ==
    \A s \in SlotsOf(o) : \A k \in Nat :
        <<http_auths[s].nonce, k>> \in used => k <= http_auths[s].count

CountsKept ==
    \A o \in Owners : own[o].method \in {"REGISTER", "INVITE"} => Level(o)

AuthInv ==
    /\ AuthTypes /\ PhaseFits /\ NonceFixed /\ RealmsMet /\ OnePerRealm /\ GoneGaveUp
    /\ ChallengeFresh /\ TableUsed /\ CountsKept /\ NoReplay

---------------------------------------------------------------------------
(* The operators *)

\* The first slot jauth.c's loops find is one of those looked for.
LEMMA MinIsIn ==
    ASSUME NEW S, S \subseteq Nat, S # {}
    PROVE  Min(S) \in S
<1> DEFINE R == {ss \in Nat \X Nat : ss[1] < ss[2]}
<1>1. IsWellFoundedOn(R, Nat)
  BY NatLessThanWellFounded, Zenon DEF OpToRel
<1>2. PICK x \in S : \A y \in S : ~(<<y, x>> \in R)
  BY <1>1, WFMin
<1>3. ASSUME NEW y \in S, y < x PROVE FALSE
  <2>1. \A u, v \in Nat : u < v => <<u, v>> \in R
    OBVIOUS
  <2> HIDE DEF R
  <2> QED BY <1>2, <1>3, <2>1, Zenon
<1>4. \A y \in S : x <= y
  BY <1>3
<1> QED BY <1>4 DEF Min

\* "free" owns nothing: an entry with an owner is a full one.
LEMMA OwnedIsEntry ==
    ASSUME AuthTypes, NEW o \in Owners, NEW s \in 1 .. Slots
    PROVE  /\ http_auths[s].owner = o => http_auths[s] \in Entry
           /\ http_auths[s] # Free => http_auths[s] \in Entry
           /\ o # "free"
<1>1. o # "free"
  BY DigestAssumption DEF Owners
<1>2. http_auths[s] \in {Free} \cup Entry
  BY DEF AuthTypes
<1>3. Free.owner = "free"
  BY DEF Free
<1> QED BY <1>1, <1>2, <1>3

\* Who hears of a nonce of a realm has met that realm.
LEMMA HeardIsMet ==
    ASSUME AuthInv, NEW o \in Owners, NEW n, NEW r, Heard(n, o, r)
    PROVE  r \in own[o].met /\ r \in Realms /\ n \in Nat
<1>1. CASE InTable(n, o, r)
  <2>1. PICK s \in 1 .. Slots : http_auths[s].owner = o /\ http_auths[s].nonce = n /\ http_auths[s].realm = r
    BY <1>1 DEF InTable
  <2>2. http_auths[s] \in Entry
    BY <2>1, OwnedIsEntry DEF AuthInv
  <2>3. s \in SlotsOf(o)
    BY <2>1 DEF SlotsOf
  <2> QED BY <2>1, <2>2, <2>3 DEF AuthInv, RealmsMet, Entry
<1>2. own[o] \in Owned
  BY DEF AuthInv, AuthTypes
<1>3. CASE own[o].challenge # None /\ own[o].challenge.nonce = n /\ own[o].challenge.realm = r
  <2>1. own[o].challenge \in Wanted
    BY <1>2, <1>3 DEF Owned
  <2> QED BY <1>3, <2>1 DEF AuthInv, RealmsMet, Wanted
<1>4. CASE own[o].response_auth # None /\ own[o].response_auth.nonce = n /\ own[o].response_auth.realm = r
  <2>1. own[o].response_auth \in Wanted
    BY <1>2, <1>4 DEF Owned
  <2> QED BY <1>4, <2>1 DEF AuthInv, RealmsMet, Wanted
<1> QED BY <1>1, <1>3, <1>4 DEF Heard

\* The pairs a request with these credentials sends.
Sent(with) == {<<c.nonce, c.count>> : c \in {d \in with.creds : d.count > 0}}

\* What the credentials of a request of o, and the table it leaves, must be like.
Fits(o, with) ==
    /\ with.creds \subseteq Creds
    /\ with.auths \in [1 .. Slots -> {Free} \cup Entry]
    /\ \A s \in 1 .. Slots :
          \/ with.auths[s] = http_auths[s]
          \/ with.auths[s].owner = o /\ (http_auths[s] = Free \/ http_auths[s].owner = o)
    /\ \A s \in 1 .. Slots : with.auths[s].owner = o =>
          /\ Heard(with.auths[s].nonce, o, with.auths[s].realm)
          /\ <<with.auths[s].nonce, with.auths[s].count>> \in used \cup Sent(with)
    /\ \A s, u \in 1 .. Slots :
          with.auths[s].owner = o /\ with.auths[u].owner = o /\ with.auths[s].realm = with.auths[u].realm => s = u
    /\ \A n, k \in Nat : <<n, k>> \in Sent(with) => \E r \in Realms : Heard(n, o, r)

\* What a REGISTER and an INVITE keep to besides.
Counted(o, with) ==
    /\ \A c \in with.creds : ~c.again
    /\ \A s \in 1 .. Slots : with.auths[s].owner = o =>
          \A k \in Nat : <<with.auths[s].nonce, k>> \in used \cup Sent(with) => k <= with.auths[s].count

\* _eXosip_store_nonce leaves the table alone or writes one entry, where the Call-ID
\* has the realm already or, when it has not, where nobody is.
LEMMA StoreNonce ==
    ASSUME AuthInv, NEW o \in Owners, NEW wa \in Wanted
    PROVE  \/ _eXosip_store_nonce(o, wa) = http_auths
           \/ \E k \in 1 .. Slots :
                 /\ _eXosip_store_nonce(o, wa) =
                      [http_auths EXCEPT ![k] = [owner |-> o, realm |-> wa.realm, nonce |-> wa.nonce, count |-> 1]]
                 /\ \/ http_auths[k].owner = o /\ http_auths[k].realm = wa.realm
                    \/ /\ http_auths[k] = Free
                       /\ \A s \in SlotsOf(o) : http_auths[s].realm # wa.realm
<1> DEFINE same == {s \in SlotsOf(o) : http_auths[s].realm = wa.realm}
           empty == {s \in 1 .. Slots : http_auths[s] = Free}
           entry == [owner |-> o, realm |-> wa.realm, nonce |-> wa.nonce, count |-> 1]
<1>1. same \subseteq Nat /\ empty \subseteq Nat
  BY DEF SlotsOf
<1>2. CASE same # {}
  <2>1. Min(same) \in same
    BY <1>1, <1>2, MinIsIn
  <2>2. _eXosip_store_nonce(o, wa) = [http_auths EXCEPT ![Min(same)] = entry]
    BY <1>2 DEF _eXosip_store_nonce
  <2>3. Min(same) \in 1 .. Slots /\ http_auths[Min(same)].owner = o /\ http_auths[Min(same)].realm = wa.realm
    BY <2>1 DEF SlotsOf
  <2> QED BY <2>2, <2>3
<1>3. CASE same = {} /\ empty # {}
  <2>1. Min(empty) \in empty
    BY <1>1, <1>3, MinIsIn
  <2>2. _eXosip_store_nonce(o, wa) = [http_auths EXCEPT ![Min(empty)] = entry]
    BY <1>3 DEF _eXosip_store_nonce
  <2>3. Min(empty) \in 1 .. Slots /\ http_auths[Min(empty)] = Free
    BY <2>1
  <2> QED BY <1>3, <2>2, <2>3
<1>4. CASE same = {} /\ empty = {}
  BY <1>4 DEF _eXosip_store_nonce
<1> QED BY <1>2, <1>3, <1>4

\* What stands in the table before a request fits.
LEMMA TableAsItIs ==
    ASSUME AuthInv, NEW o \in Owners, NEW s \in 1 .. Slots, http_auths[s].owner = o
    PROVE  /\ http_auths[s] \in Entry
           /\ Heard(http_auths[s].nonce, o, http_auths[s].realm)
           /\ <<http_auths[s].nonce, http_auths[s].count>> \in used
           /\ \A u \in 1 .. Slots : http_auths[u].owner = o /\ http_auths[u].realm = http_auths[s].realm => u = s
<1>1. s \in SlotsOf(o)
  BY DEF SlotsOf
<1>2. http_auths[s] \in Entry
  BY OwnedIsEntry DEF AuthInv
<1>3. Heard(http_auths[s].nonce, o, http_auths[s].realm)
  BY DEF Heard, InTable
<1>4. <<http_auths[s].nonce, http_auths[s].count>> \in used
  BY <1>1 DEF AuthInv, TableUsed
<1>5. \A u \in 1 .. Slots : http_auths[u].owner = o /\ http_auths[u].realm = http_auths[s].realm => u = s
  BY <1>1 DEF AuthInv, OnePerRealm, SlotsOf
<1> QED BY <1>2, <1>3, <1>4, <1>5

\* A bare request fits.
LEMMA BareFits ==
    ASSUME AuthInv, NEW o \in Owners
    PROVE  Fits(o, Bare) /\ (Level(o) => Counted(o, Bare))
<1>1. Sent(Bare) = {} /\ Bare.creds = {} /\ Bare.auths = http_auths
  BY DEF Sent, Bare
<1>2. Bare.auths \in [1 .. Slots -> {Free} \cup Entry]
  BY <1>1 DEF AuthInv, AuthTypes
<1>3. Fits(o, Bare)
  BY <1>1, <1>2, TableAsItIs DEF Fits
<1>4. Level(o) => Counted(o, Bare)
  BY <1>1 DEF Counted, Level, SlotsOf
<1> QED BY <1>3, <1>4

\* A nonce heard of for a slot's realm is that slot's: nonces belong to one realm.
LEMMA SlotOfNonce ==
    ASSUME AuthInv, NEW o \in Owners, NEW p \in Owners, NEW n, NEW r, Heard(n, o, r),
           NEW s \in 1 .. Slots, http_auths[s].owner = p, http_auths[s].nonce = n
    PROVE  p = o /\ http_auths[s].realm = r
<1>1. http_auths[s] \in Entry /\ Heard(n, p, http_auths[s].realm)
  BY TableAsItIs
<1>2. n \in Nat /\ r \in Realms /\ http_auths[s].realm \in Realms
  BY <1>1, HeardIsMet
<1> QED BY <1>1, <1>2 DEF AuthInv, NonceFixed

\* A credential is of its type.
LEMMA CredentialType ==
    ASSUME NEW h \in Realms, NEW r \in Realms, NEW n \in Nat, NEW k \in Nat
    PROVE  Credential(h, r, n, k) \in Creds
BY DEF Credential, Creds

\* The answer to a challenge the owner has heard of fits, and counts when the nonce is new.
LEMMA FromChallengeFits ==
    ASSUME AuthInv, NEW o \in Owners, NEW wa \in Wanted, Heard(wa.nonce, o, wa.realm)
    PROVE  /\ Fits(o, FromChallenge(o, wa))
           /\ Level(o) /\ (\A k \in Nat : <<wa.nonce, k>> \notin used) => Counted(o, FromChallenge(o, wa))
<1> DEFINE with == FromChallenge(o, wa)
           cred == Credential(wa.realm, wa.realm, wa.nonce, IF wa.qop THEN 1 ELSE 0)
<1>1. wa.realm \in Realms /\ wa.nonce \in Nat /\ wa.qop \in BOOLEAN
  BY DEF Wanted
<1>2. with.creds = {cred} /\ cred \in Creds /\ cred.nonce = wa.nonce /\ cred.count = (IF wa.qop THEN 1 ELSE 0)
  <2>1. with.creds = {cred}
    BY DEF FromChallenge
  <2>2. cred \in Creds
    BY <1>1, CredentialType
  <2> QED BY <2>1, <2>2 DEF Credential
<1>3. with.auths = IF wa.qop THEN _eXosip_store_nonce(o, wa) ELSE http_auths
  BY DEF FromChallenge
<1>4. cred.again = (cred.count > 0 /\ <<wa.nonce, cred.count>> \in used)
  BY DEF Credential
<1> HIDE DEF with, cred
<1>5. Sent(with) = IF wa.qop THEN {<<wa.nonce, 1>>} ELSE {}
  BY <1>2, <1>1 DEF Sent
<1>6. CASE with.auths = http_auths
  <2>1. with.auths \in [1 .. Slots -> {Free} \cup Entry]
    BY <1>6 DEF AuthInv, AuthTypes
  <2>2. \A n, k \in Nat : <<n, k>> \in Sent(with) => \E r \in Realms : Heard(n, o, r)
    BY <1>5, <1>1
  <2>3. Fits(o, with)
    BY <1>2, <1>6, <2>1, <2>2, TableAsItIs DEF Fits
  <2>4. ASSUME Level(o), \A k \in Nat : <<wa.nonce, k>> \notin used PROVE Counted(o, with)
    <3>1. \A c \in with.creds : ~c.again
      BY <1>1, <1>2, <1>4, <2>4
    <3>2. ASSUME NEW s \in 1 .. Slots, with.auths[s].owner = o, NEW k \in Nat,
                 <<with.auths[s].nonce, k>> \in used \cup Sent(with)
          PROVE  k <= with.auths[s].count
      <4>1. <<http_auths[s].nonce, http_auths[s].count>> \in used /\ http_auths[s] \in Entry
        BY <1>6, <3>2, TableAsItIs
      <4>2. http_auths[s].nonce # wa.nonce
        BY <2>4, <4>1 DEF Entry
      <4>3. <<http_auths[s].nonce, k>> \in used
        BY <1>5, <1>6, <3>2, <4>2
      <4> QED BY <1>6, <2>4, <3>2, <4>3 DEF Level, SlotsOf
    <3> QED BY <3>1, <3>2 DEF Counted
  <2> QED BY <2>3, <2>4 DEF with
<1>7. ASSUME wa.qop, NEW j \in 1 .. Slots,
             with.auths = [http_auths EXCEPT ![j] = [owner |-> o, realm |-> wa.realm, nonce |-> wa.nonce, count |-> 1]],
             \/ http_auths[j].owner = o /\ http_auths[j].realm = wa.realm
             \/ http_auths[j] = Free /\ \A s \in SlotsOf(o) : http_auths[s].realm # wa.realm
      PROVE  Fits(o, with) /\ (Level(o) /\ (\A k \in Nat : <<wa.nonce, k>> \notin used) => Counted(o, with))
  <2> DEFINE entry == [owner |-> o, realm |-> wa.realm, nonce |-> wa.nonce, count |-> 1]
  <2>0. http_auths \in [1 .. Slots -> {Free} \cup Entry]
    BY DEF AuthInv, AuthTypes
  <2>1. entry \in Entry
    BY <1>1 DEF Entry
  <2>2. with.auths \in [1 .. Slots -> {Free} \cup Entry]
    BY <1>7, <2>0, <2>1
  <2>3. with.auths[j] = entry /\ \A s \in 1 .. Slots : s # j => with.auths[s] = http_auths[s]
    BY <1>7, <2>0
  <2>4. Sent(with) = {<<wa.nonce, 1>>}
    BY <1>5, <1>7
  <2>5. \A s \in 1 .. Slots : s # j /\ http_auths[s].owner = o => http_auths[s].realm # wa.realm
    BY <1>7, TableAsItIs DEF SlotsOf
  <2>6. \A s \in 1 .. Slots : with.auths[s].owner = o =>
          /\ Heard(with.auths[s].nonce, o, with.auths[s].realm)
          /\ <<with.auths[s].nonce, with.auths[s].count>> \in used \cup Sent(with)
    BY <2>3, <2>4, TableAsItIs
  <2>7. ASSUME NEW s \in 1 .. Slots, NEW u \in 1 .. Slots, with.auths[s].owner = o, with.auths[u].owner = o,
               with.auths[s].realm = with.auths[u].realm, s # u
        PROVE  FALSE
    <3>1. with.auths[j].realm = wa.realm
      BY <2>3
    <3>2. s # j /\ u # j
      BY <2>3, <2>5, <2>7, <3>1
    <3>3. with.auths[s] = http_auths[s] /\ with.auths[u] = http_auths[u]
      BY <2>3, <3>2
    <3> QED BY <2>7, <3>3, TableAsItIs
  <2>8. \A n, k \in Nat : <<n, k>> \in Sent(with) => \E r \in Realms : Heard(n, o, r)
    BY <1>1, <2>4
  <2>9. \A s \in 1 .. Slots :
          \/ with.auths[s] = http_auths[s]
          \/ with.auths[s].owner = o /\ (http_auths[s] = Free \/ http_auths[s].owner = o)
    BY <1>7, <2>3
  <2>10. Fits(o, with)
    BY <1>2, <2>2, <2>6, <2>7, <2>8, <2>9 DEF Fits
  <2>11. ASSUME Level(o), \A k \in Nat : <<wa.nonce, k>> \notin used PROVE Counted(o, with)
    <3>1. \A c \in with.creds : ~c.again
      BY <1>1, <1>2, <1>4, <2>11
    <3>2. ASSUME NEW s \in 1 .. Slots, with.auths[s].owner = o, NEW k \in Nat,
                 <<with.auths[s].nonce, k>> \in used \cup Sent(with)
          PROVE  k <= with.auths[s].count
      <4>1. CASE s = j
        BY <2>3, <2>4, <2>11, <3>2, <4>1
      <4>2. CASE s # j
        <5>1. with.auths[s] = http_auths[s]
          BY <2>3, <4>2
        <5>2. <<http_auths[s].nonce, http_auths[s].count>> \in used /\ http_auths[s] \in Entry
          BY <5>1, <3>2, TableAsItIs
        <5>3. http_auths[s].nonce # wa.nonce
          BY <2>11, <5>2 DEF Entry
        <5>4. <<http_auths[s].nonce, k>> \in used
          BY <2>4, <5>1, <3>2, <5>3
        <5> QED BY <5>1, <2>11, <3>2, <5>4 DEF Level, SlotsOf
      <4> QED BY <4>1, <4>2
    <3> QED BY <3>1, <3>2 DEF Counted
  <2> QED BY <2>10, <2>11
<1>8. CASE wa.qop /\ with.auths # http_auths
  BY <1>3, <1>7, <1>8, StoreNonce DEF with
<1> QED BY <1>1, <1>3, <1>6, <1>8 DEF with

\* What FromTable sends and leaves, slot by slot.
LEMMA FromTableSays ==
    ASSUME AuthInv, NEW o \in Owners, NEW method
    PROVE  LET with == FromTable(o, method) IN
           /\ with.creds \subseteq Creds
           /\ \A c \in with.creds : \E s \in SlotsOf(o) :
                 /\ c.nonce = http_auths[s].nonce /\ c.count = http_auths[s].count + 1
                 /\ c.again = (<<http_auths[s].nonce, http_auths[s].count + 1>> \in used)
           /\ \A s \in SlotsOf(o) : <<http_auths[s].nonce, http_auths[s].count + 1>> \in Sent(with)
           /\ \A n, k \in Nat : <<n, k>> \in Sent(with) =>
                 \E s \in SlotsOf(o) : n = http_auths[s].nonce /\ k = http_auths[s].count + 1
           /\ with.auths \in [1 .. Slots -> {Free} \cup Entry]
           /\ \A s \in 1 .. Slots :
                 /\ http_auths[s].owner # o => with.auths[s] = http_auths[s]
                 /\ http_auths[s].owner = o =>
                       /\ with.auths[s].owner = o
                       /\ with.auths[s].realm = http_auths[s].realm
                       /\ with.auths[s].nonce = http_auths[s].nonce
                       /\ with.auths[s].count = http_auths[s].count + 1
<1> DEFINE with == FromTable(o, method)
           header == IF method = "REGISTER" THEN "uas" ELSE "proxy"
           cred(s) == Credential(header, http_auths[s].realm, http_auths[s].nonce, http_auths[s].count + 1)
<1>1. \A s \in SlotsOf(o) : s \in 1 .. Slots /\ http_auths[s] \in Entry
  BY TableAsItIs DEF SlotsOf
<1>2. with.creds = {cred(s) : s \in SlotsOf(o)}
  BY DEF FromTable
<1>3. \A s \in SlotsOf(o) : /\ cred(s) \in Creds
                            /\ cred(s).nonce = http_auths[s].nonce
                            /\ cred(s).count = http_auths[s].count + 1
                            /\ cred(s).count > 0
                            /\ cred(s).again = (<<http_auths[s].nonce, http_auths[s].count + 1>> \in used)
  <2> SUFFICES ASSUME NEW s \in SlotsOf(o)
               PROVE  /\ cred(s) \in Creds
                      /\ cred(s).nonce = http_auths[s].nonce
                      /\ cred(s).count = http_auths[s].count + 1
                      /\ cred(s).count > 0
                      /\ cred(s).again = (<<http_auths[s].nonce, http_auths[s].count + 1>> \in used)
    OBVIOUS
  <2>1. http_auths[s].nonce \in Nat /\ http_auths[s].count \in Nat /\ http_auths[s].realm \in Realms
    BY <1>1 DEF Entry
  <2>2. http_auths[s].count + 1 \in Nat /\ http_auths[s].count + 1 > 0
    BY <2>1
  <2>3. header \in Realms
    BY DEF Realms
  <2>4. cred(s) \in Creds
    BY <2>1, <2>2, <2>3, CredentialType
  <2>5. cred(s).again = (http_auths[s].count + 1 > 0 /\ <<http_auths[s].nonce, http_auths[s].count + 1>> \in used)
    BY DEF Credential
  <2>6. cred(s).nonce = http_auths[s].nonce /\ cred(s).count = http_auths[s].count + 1
    BY DEF Credential
  <2> HIDE DEF cred
  <2> QED BY <2>2, <2>4, <2>5, <2>6
<1>4. with.auths = [s \in 1 .. Slots |-> IF s \in SlotsOf(o)
                                         THEN [http_auths[s] EXCEPT !.count = http_auths[s].count + 1]
                                         ELSE http_auths[s]]
  BY DEF FromTable
<1> HIDE DEF cred, with
<1>5. with.creds \subseteq Creds
  BY <1>2, <1>3
<1>6. \A c \in with.creds : \E s \in SlotsOf(o) : c = cred(s)
  BY <1>2
<1>7. \A s \in SlotsOf(o) : cred(s) \in with.creds
  BY <1>2
<1>8. \A c \in with.creds : \E s \in SlotsOf(o) :
          /\ c.nonce = http_auths[s].nonce /\ c.count = http_auths[s].count + 1
          /\ c.again = (<<http_auths[s].nonce, http_auths[s].count + 1>> \in used)
  BY <1>3, <1>6
<1>9. \A s \in SlotsOf(o) : <<http_auths[s].nonce, http_auths[s].count + 1>> \in Sent(with)
  BY <1>3, <1>7 DEF Sent
<1>10. \A n, k \in Nat : <<n, k>> \in Sent(with) =>
                 \E s \in SlotsOf(o) : n = http_auths[s].nonce /\ k = http_auths[s].count + 1
  <2> SUFFICES ASSUME NEW n \in Nat, NEW k \in Nat, <<n, k>> \in Sent(with)
               PROVE  \E s \in SlotsOf(o) : n = http_auths[s].nonce /\ k = http_auths[s].count + 1
    OBVIOUS
  <2>1. PICK c \in with.creds : <<n, k>> = <<c.nonce, c.count>>
    BY DEF Sent
  <2>2. n = c.nonce /\ k = c.count
    BY <2>1
  <2> QED BY <1>8, <2>2
<1>11. \A s \in SlotsOf(o) : [http_auths[s] EXCEPT !.count = http_auths[s].count + 1] \in Entry
  BY <1>1 DEF Entry
<1>12. with.auths \in [1 .. Slots -> {Free} \cup Entry]
  BY <1>4, <1>11 DEF AuthInv, AuthTypes
<1>13. \A s \in 1 .. Slots : http_auths[s].owner # o => with.auths[s] = http_auths[s]
  BY <1>4 DEF SlotsOf
<1>14. \A s \in 1 .. Slots : http_auths[s].owner = o =>
                       /\ with.auths[s].owner = o
                       /\ with.auths[s].realm = http_auths[s].realm
                       /\ with.auths[s].nonce = http_auths[s].nonce
                       /\ with.auths[s].count = http_auths[s].count + 1
  <2> SUFFICES ASSUME NEW s \in 1 .. Slots, http_auths[s].owner = o
               PROVE  /\ with.auths[s].owner = o
                      /\ with.auths[s].realm = http_auths[s].realm
                      /\ with.auths[s].nonce = http_auths[s].nonce
                      /\ with.auths[s].count = http_auths[s].count + 1
    OBVIOUS
  <2>1. s \in SlotsOf(o)
    BY DEF SlotsOf
  <2>2. with.auths[s] = [http_auths[s] EXCEPT !.count = http_auths[s].count + 1]
    BY <1>4, <2>1
  <2> QED BY <1>1, <2>1, <2>2 DEF Entry
<1> QED BY <1>5, <1>8, <1>9, <1>10, <1>12, <1>13, <1>14 DEF with

\* Counting every entry of the Call-ID up fits, and counts when the table was level.
LEMMA FromTableFits ==
    ASSUME AuthInv, NEW o \in Owners, NEW method
    PROVE  Fits(o, FromTable(o, method)) /\ (Level(o) => Counted(o, FromTable(o, method)))
<1> DEFINE with == FromTable(o, method)
<1>0. /\ with.creds \subseteq Creds
      /\ \A c \in with.creds : \E s \in SlotsOf(o) :
            /\ c.nonce = http_auths[s].nonce /\ c.count = http_auths[s].count + 1
            /\ c.again = (<<http_auths[s].nonce, http_auths[s].count + 1>> \in used)
      /\ \A s \in SlotsOf(o) : <<http_auths[s].nonce, http_auths[s].count + 1>> \in Sent(with)
      /\ \A n, k \in Nat : <<n, k>> \in Sent(with) =>
            \E s \in SlotsOf(o) : n = http_auths[s].nonce /\ k = http_auths[s].count + 1
      /\ with.auths \in [1 .. Slots -> {Free} \cup Entry]
      /\ \A s \in 1 .. Slots :
            /\ http_auths[s].owner # o => with.auths[s] = http_auths[s]
            /\ http_auths[s].owner = o =>
                  /\ with.auths[s].owner = o
                  /\ with.auths[s].realm = http_auths[s].realm
                  /\ with.auths[s].nonce = http_auths[s].nonce
                  /\ with.auths[s].count = http_auths[s].count + 1
  BY FromTableSays
<1> HIDE DEF with
<1>1. \A s \in 1 .. Slots : with.auths[s].owner = o => s \in SlotsOf(o)
  BY <1>0 DEF SlotsOf
<1>2. \A s \in SlotsOf(o) : s \in 1 .. Slots /\ http_auths[s].owner = o /\ http_auths[s] \in Entry
  BY TableAsItIs DEF SlotsOf
<1>3. \A s \in 1 .. Slots : with.auths[s].owner = o =>
          /\ Heard(with.auths[s].nonce, o, with.auths[s].realm)
          /\ <<with.auths[s].nonce, with.auths[s].count>> \in used \cup Sent(with)
  BY <1>0, <1>1, <1>2, TableAsItIs
<1>4. \A s, u \in 1 .. Slots :
          with.auths[s].owner = o /\ with.auths[u].owner = o /\ with.auths[s].realm = with.auths[u].realm => s = u
  <2> SUFFICES ASSUME NEW s \in 1 .. Slots, NEW u \in 1 .. Slots, with.auths[s].owner = o,
                      with.auths[u].owner = o, with.auths[s].realm = with.auths[u].realm
               PROVE  s = u
    OBVIOUS
  <2>1. http_auths[s].owner = o /\ http_auths[u].owner = o
    BY <1>1, <1>2
  <2>2. http_auths[s].realm = http_auths[u].realm
    BY <1>0, <2>1
  <2> QED BY <2>1, <2>2, TableAsItIs
<1>5. \A n, k \in Nat : <<n, k>> \in Sent(with) => \E r \in Realms : Heard(n, o, r)
  <2> SUFFICES ASSUME NEW n \in Nat, NEW k \in Nat, <<n, k>> \in Sent(with)
               PROVE  \E r \in Realms : Heard(n, o, r)
    OBVIOUS
  <2>1. PICK s \in SlotsOf(o) : n = http_auths[s].nonce
    BY <1>0
  <2>2. Heard(n, o, http_auths[s].realm)
    BY <1>2, <2>1, TableAsItIs
  <2>3. http_auths[s].realm \in Realms
    BY <1>2 DEF Entry
  <2> QED BY <2>2, <2>3
<1>6. Fits(o, with)
  BY <1>0, <1>3, <1>4, <1>5 DEF Fits
<1>7. ASSUME Level(o) PROVE Counted(o, with)
  <2>1. \A s \in SlotsOf(o) : <<http_auths[s].nonce, http_auths[s].count + 1>> \notin used
    BY <1>2, <1>7 DEF Level, Entry
  <2>2. \A c \in with.creds : ~c.again
    BY <1>0, <2>1
  <2>3. ASSUME NEW s \in 1 .. Slots, with.auths[s].owner = o, NEW k \in Nat,
               <<with.auths[s].nonce, k>> \in used \cup Sent(with)
        PROVE  k <= with.auths[s].count
    <3>1. s \in SlotsOf(o) /\ http_auths[s].owner = o /\ http_auths[s] \in Entry
      BY <1>1, <1>2, <2>3
    <3>2. with.auths[s].nonce = http_auths[s].nonce /\ with.auths[s].count = http_auths[s].count + 1
      BY <1>0, <3>1
    <3>3. CASE <<http_auths[s].nonce, k>> \in used
      BY <1>7, <3>1, <3>2, <3>3 DEF Level, Entry
    <3>4. CASE <<http_auths[s].nonce, k>> \in Sent(with)
      <4>1. PICK u \in SlotsOf(o) : http_auths[s].nonce = http_auths[u].nonce /\ k = http_auths[u].count + 1
        BY <1>0, <3>1, <3>4 DEF Entry
      <4>2. http_auths[s].realm = http_auths[u].realm
        <5>1. Heard(http_auths[u].nonce, o, http_auths[u].realm)
          BY <1>2, TableAsItIs
        <5> QED BY <3>1, <4>1, <5>1, SlotOfNonce
      <4>3. s = u
        BY <1>2, <3>1, <4>2, TableAsItIs
      <4> QED BY <3>1, <3>2, <4>1, <4>3 DEF Entry
    <3> QED BY <2>3, <3>2, <3>3, <3>4
  <2> QED BY <2>2, <2>3 DEF Counted
<1> QED BY <1>6, <1>7 DEF with

---------------------------------------------------------------------------
(* A request leaves *)

\* Whatever fits may be sent.
LEMMA SendKeeps ==
    ASSUME AuthInv, NEW o \in Owners, NEW method \in {"REGISTER", "INVITE", "BYE"}, NEW with, NEW retry \in Nat,
           Fits(o, with), method \in {"REGISTER", "INVITE"} => Counted(o, with),
           own[o].phase # "gone", o = "reg" => method = "REGISTER",
           Send(o, method, with, retry)
    PROVE  AuthInv'
<1>0. own \in [Owners -> Owned] /\ own[o] \in Owned
  BY DEF AuthInv, AuthTypes
<1>1. http_auths' = with.auths /\ used' = used \cup Sent(with) /\ net' = net
  BY DEF Send, Sent
<1>2. own' = [own EXCEPT ![o] = [own[o] EXCEPT !.phase = "sent", !.method = method, !.creds = with.creds,
                                               !.challenge = None, !.retry = retry, !.refreshed = own'[o].refreshed]]
      /\ own'[o].refreshed \in Nat
  <2> DEFINE n == IF own[o].phase = "ok" /\ o = "reg" THEN own[o].refreshed + 1 ELSE own[o].refreshed
  <2>1. own' = [own EXCEPT ![o] = [own[o] EXCEPT !.phase = "sent", !.method = method, !.creds = with.creds,
                                                 !.challenge = None, !.retry = retry, !.refreshed = n]]
    BY <1>0 DEF Send, Owned
  <2>2. n \in Nat
    BY <1>0 DEF Owned
  <2> HIDE DEF n
  <2>3. own'[o].refreshed = n
    BY <1>0, <2>1 DEF Owned
  <2> QED BY <2>1, <2>2, <2>3
<1>3. /\ own'[o].phase = "sent" /\ own'[o].method = method /\ own'[o].creds = with.creds
      /\ own'[o].challenge = None /\ own'[o].response_auth = own[o].response_auth /\ own'[o].met = own[o].met
      /\ \A p \in Owners : p # o => own'[p] = own[p]
  <2>1. PICK n \in Nat :
          own' = [own EXCEPT ![o] = [own[o] EXCEPT !.phase = "sent", !.method = method, !.creds = with.creds,
                                                   !.challenge = None, !.retry = retry, !.refreshed = n]]
    BY <1>2
  <2>2. own'[o] = [own[o] EXCEPT !.phase = "sent", !.method = method, !.creds = with.creds,
                                 !.challenge = None, !.retry = retry, !.refreshed = n]
    BY <1>0, <2>1
  <2>3. \A p \in Owners : p # o => own'[p] = own[p]
    BY <1>0, <2>1
  <2> QED BY <1>0, <2>2, <2>3 DEF Owned
<1>4. own'[o] \in Owned /\ own' \in [Owners -> Owned]
  <2>1. with.creds \subseteq Creds
    BY DEF Fits
  <2>2. own'[o] = [own[o] EXCEPT !.phase = "sent", !.method = method, !.creds = with.creds,
                                 !.challenge = None, !.retry = retry, !.refreshed = own'[o].refreshed]
    BY <1>0, <1>2
  <2>3. own'[o] \in Owned
    BY <1>0, <1>2, <2>1, <2>2 DEF Owned
  <2> QED BY <1>0, <1>2, <2>2, <2>3
<1>5. ASSUME NEW n, NEW p \in Owners, NEW r, Heard(n, p, r)' PROVE Heard(n, p, r)
  <2>1. CASE InTable(n, p, r)'
    <3>1. PICK s \in 1 .. Slots : with.auths[s].owner = p /\ with.auths[s].nonce = n /\ with.auths[s].realm = r
      BY <1>1, <2>1 DEF InTable
    <3>2. CASE with.auths[s] = http_auths[s]
      BY <3>1, <3>2 DEF Heard, InTable
    <3>3. CASE with.auths[s] # http_auths[s]
      BY <3>1, <3>3 DEF Fits
    <3> QED BY <3>2, <3>3
  <2> QED BY <1>3, <1>5, <2>1 DEF Heard
<1>6. ASSUME NEW p \in Owners, p # o
      PROVE  SlotsOf(p)' = SlotsOf(p) /\ \A s \in SlotsOf(p) : http_auths'[s] = http_auths[s]
  <2>1. p # "free" /\ Free.owner = "free"
    BY DigestAssumption DEF Owners, Free
  <2>2. \A s \in 1 .. Slots : http_auths[s].owner = p \/ with.auths[s].owner = p => with.auths[s] = http_auths[s]
    BY <1>6, <2>1 DEF Fits
  <2> QED BY <1>1, <2>2 DEF SlotsOf
<1>7. ASSUME NEW p \in Owners, p # o, NEW n \in Nat, NEW r \in Realms, Heard(n, p, r), NEW k \in Nat
      PROVE  <<n, k>> \notin Sent(with)
  <2>1. <<n, k>> \in Sent(with) => \E q \in Realms : Heard(n, o, q)
    BY DEF Fits
  <2> QED BY <1>7, <2>1 DEF AuthInv, NonceFixed
<1>8. AuthTypes'
  <2>1. Sent(with) \subseteq Nat \X Nat
    BY DEF Sent, Fits, Creds
  <2>2. http_auths' \in [1 .. Slots -> {Free} \cup Entry]
    BY <1>1 DEF Fits
  <2> QED BY <1>1, <1>4, <2>1, <2>2 DEF AuthInv, AuthTypes
<1>9. PhaseFits'
  <2>1. ASSUME NEW p \in Owners
        PROVE  /\ own'[p].phase = "refused" <=> own'[p].challenge # None
               /\ own'[p].phase \in {"idle", "gone"} <=> own'[p].method = "none"
               /\ own'[p].phase = "idle" => own'[p].met = {} /\ own'[p].response_auth = None
               /\ own'[p].phase = "3xx" => own'[p].method = "INVITE"
               /\ p = "reg" => own'[p].method \in {"none", "REGISTER"}
    <3>1. CASE p = o
      BY <1>3, <3>1
    <3>2. CASE p # o
      BY <1>3, <3>2 DEF AuthInv, PhaseFits
    <3> QED BY <3>1, <3>2
  <2> QED BY <2>1 DEF PhaseFits
<1>10. NonceFixed'
  <2>1. ASSUME NEW n \in Nat, NEW p \in Owners, NEW q \in Owners, NEW r \in Realms, NEW t \in Realms,
               Heard(n, p, r)', Heard(n, q, t)'
        PROVE  p = q /\ r = t
    <3>1. Heard(n, p, r) /\ Heard(n, q, t)
      BY <1>5, <2>1
    <3> QED BY <3>1 DEF AuthInv, NonceFixed
  <2>2. ASSUME NEW n \in Nat, NEW p \in Owners, NEW r \in Realms, Heard(n, p, r)' PROVE n <= net'.made
    <3>1. Heard(n, p, r)
      BY <1>5, <2>2
    <3> QED BY <1>1, <3>1 DEF AuthInv, NonceFixed
  <2>3. ASSUME NEW n \in Nat, NEW k \in Nat, <<n, k>> \in used' PROVE n <= net'.made
    <3>1. CASE <<n, k>> \in used
      BY <1>1, <3>1 DEF AuthInv, NonceFixed
    <3>2. CASE <<n, k>> \in Sent(with)
      <4>1. PICK r \in Realms : Heard(n, o, r)
        BY <3>2 DEF Fits
      <4> QED BY <1>1, <4>1 DEF AuthInv, NonceFixed
    <3> QED BY <1>1, <2>3, <3>1, <3>2
  <2> QED BY <2>1, <2>2, <2>3 DEF NonceFixed
<1>11. RealmsMet'
  <2>1. ASSUME NEW p \in Owners
        PROVE  /\ own'[p].challenge # None => own'[p].challenge.realm \in own'[p].met
               /\ own'[p].response_auth # None => own'[p].response_auth.realm \in own'[p].met
    BY <1>3 DEF AuthInv, RealmsMet
  <2>2. ASSUME NEW p \in Owners, NEW s \in SlotsOf(p)' PROVE http_auths'[s].realm \in own'[p].met
    <3>1. CASE p = o
      <4>1. s \in 1 .. Slots /\ with.auths[s].owner = o
        BY <1>1, <2>2, <3>1 DEF SlotsOf
      <4>2. Heard(with.auths[s].nonce, o, with.auths[s].realm)
        BY <4>1 DEF Fits
      <4> QED BY <1>1, <1>3, <3>1, <4>2, HeardIsMet
    <3>2. CASE p # o
      BY <1>3, <1>6, <2>2, <3>2 DEF AuthInv, RealmsMet
    <3> QED BY <3>1, <3>2
  <2> QED BY <2>1, <2>2 DEF RealmsMet
<1>12. OnePerRealm'
  <2>1. ASSUME NEW p \in Owners, NEW s \in SlotsOf(p)', NEW u \in SlotsOf(p)', http_auths'[s].realm = http_auths'[u].realm
        PROVE  s = u
    <3>1. CASE p = o
      <4>1. /\ s \in 1 .. Slots /\ with.auths[s].owner = o
            /\ u \in 1 .. Slots /\ with.auths[u].owner = o
            /\ with.auths[s].realm = with.auths[u].realm
        BY <1>1, <2>1, <3>1 DEF SlotsOf
      <4> QED BY <4>1 DEF Fits
    <3>2. CASE p # o
      BY <1>6, <2>1, <3>2 DEF AuthInv, OnePerRealm
    <3> QED BY <3>1, <3>2
  <2> QED BY <2>1 DEF OnePerRealm
<1>13. GoneGaveUp'
  <2>1. ASSUME NEW p \in Owners, own'[p].phase = "gone"
        PROVE  SlotsOf(p)' = {} \/ \E r \in own'[p].met : \A s \in SlotsOf(p)' : http_auths'[s].realm # r
    <3>1. p # o
      BY <1>3, <2>1
    <3> QED BY <1>3, <1>6, <2>1, <3>1 DEF AuthInv, GoneGaveUp
  <2> QED BY <2>1 DEF GoneGaveUp
<1>14. ChallengeFresh'
  <2>1. ASSUME NEW p \in Owners, own'[p].challenge # None, NEW k \in Nat
        PROVE  <<own'[p].challenge.nonce, k>> \notin used'
    <3>1. p # o /\ own'[p] = own[p]
      BY <1>3, <2>1
    <3>2. own[p].challenge \in Wanted
      BY <1>0, <2>1, <3>1 DEF Owned
    <3>3. Heard(own[p].challenge.nonce, p, own[p].challenge.realm)
      BY <2>1, <3>1 DEF Heard
    <3>4. <<own[p].challenge.nonce, k>> \notin Sent(with)
      BY <1>7, <3>1, <3>2, <3>3 DEF Wanted
    <3>5. <<own[p].challenge.nonce, k>> \notin used
      BY <2>1, <3>1 DEF AuthInv, ChallengeFresh
    <3> QED BY <1>1, <3>1, <3>4, <3>5
  <2> QED BY <2>1 DEF ChallengeFresh
<1>15. TableUsed'
  <2>1. ASSUME NEW p \in Owners, NEW s \in SlotsOf(p)'
        PROVE  <<http_auths'[s].nonce, http_auths'[s].count>> \in used'
    <3>1. CASE p = o
      <4>1. s \in 1 .. Slots /\ with.auths[s].owner = o
        BY <1>1, <2>1, <3>1 DEF SlotsOf
      <4> QED BY <1>1, <4>1 DEF Fits
    <3>2. CASE p # o
      BY <1>1, <1>6, <2>1, <3>2 DEF AuthInv, TableUsed
    <3> QED BY <3>1, <3>2
  <2> QED BY <2>1 DEF TableUsed
<1>16. CountsKept'
  <2>1. ASSUME NEW p \in Owners, own'[p].method \in {"REGISTER", "INVITE"}, NEW s \in SlotsOf(p)', NEW k \in Nat,
               <<http_auths'[s].nonce, k>> \in used'
        PROVE  k <= http_auths'[s].count
    <3>1. CASE p = o
      <4>1. s \in 1 .. Slots /\ with.auths[s].owner = o
        BY <1>1, <2>1, <3>1 DEF SlotsOf
      <4>2. Counted(o, with)
        BY <1>3, <2>1, <3>1
      <4> QED BY <1>1, <2>1, <4>1, <4>2 DEF Counted
    <3>2. CASE p # o
      <4>1. s \in SlotsOf(p) /\ http_auths'[s] = http_auths[s] /\ own'[p] = own[p]
        BY <1>3, <1>6, <2>1, <3>2
      <4>2. s \in 1 .. Slots /\ http_auths[s].owner = p
        BY <4>1 DEF SlotsOf
      <4>3. http_auths[s] \in Entry /\ Heard(http_auths[s].nonce, p, http_auths[s].realm)
        BY <4>2, TableAsItIs
      <4>4. <<http_auths[s].nonce, k>> \notin Sent(with)
        BY <1>7, <3>2, <4>3 DEF Entry
      <4>5. <<http_auths[s].nonce, k>> \in used
        BY <1>1, <2>1, <4>1, <4>4
      <4>6. Level(p)
        BY <2>1, <4>1 DEF AuthInv, CountsKept
      <4> QED BY <4>1, <4>5, <4>6 DEF Level
    <3> QED BY <3>1, <3>2
  <2> QED BY <2>1 DEF CountsKept, Level
<1>17. NoReplay'
  <2>1. ASSUME NEW p \in Owners, own'[p].method \in {"REGISTER", "INVITE"}, NEW c \in own'[p].creds PROVE ~c.again
    <3>1. CASE p = o
      BY <1>3, <2>1, <3>1 DEF Counted
    <3>2. CASE p # o
      BY <1>3, <2>1, <3>2 DEF AuthInv, NoReplay
    <3> QED BY <3>1, <3>2
  <2> QED BY <2>1 DEF NoReplay
<1> QED BY <1>8, <1>9, <1>10, <1>11, <1>12, <1>13, <1>14, <1>15, <1>16, <1>17 DEF AuthInv

\* The requests eXosip sends: each with credentials that fit.
LEMMA StartKeeps ==
    ASSUME AuthInv, NEW o \in Owners, Start(o)
    PROVE  AuthInv'
<1>1. own[o].phase = "idle" /\ own[o].met = {}
  BY DEF Start, AuthInv, PhaseFits
<1>2. SlotsOf(o) = {}
  BY <1>1 DEF AuthInv, RealmsMet
<1>3. Fits(o, Bare) /\ Counted(o, Bare)
  BY <1>2, BareFits DEF Level
<1> DEFINE method == IF o = "reg" THEN "REGISTER" ELSE "INVITE"
<1>4. Send(o, method, Bare, 0) /\ method \in {"REGISTER", "INVITE", "BYE"} /\ (o = "reg" => method = "REGISTER")
  BY DEF Start
<1> HIDE DEF method
<1> QED BY <1>1, <1>3, <1>4, SendKeeps

\* The answer to a challenge names a nonce that nothing was sent with yet.
LEMMA RetryKeeps ==
    ASSUME AuthInv, NEW o \in Owners, Retry(o)
    PROVE  AuthInv'
<1> DEFINE wa == own[o].challenge
           with == FromChallenge(o, wa)
<1>1. own[o] \in Owned
  BY DEF AuthInv, AuthTypes
<1>2. own[o].phase = "refused" /\ own[o].method # "BYE" /\ Send(o, own[o].method, with, own[o].retry + 1)
  BY DEF Retry
<1>3. wa # None /\ own[o].method # "none" /\ (o = "reg" => own[o].method = "REGISTER")
  BY <1>2 DEF AuthInv, PhaseFits
<1>4. own[o].method \in {"REGISTER", "INVITE"} /\ own[o].retry + 1 \in Nat /\ wa \in Wanted
  BY <1>1, <1>2, <1>3 DEF Owned
<1>5. Heard(wa.nonce, o, wa.realm)
  BY <1>3 DEF Heard
<1>6. Level(o) /\ \A k \in Nat : <<wa.nonce, k>> \notin used
  BY <1>3, <1>4 DEF AuthInv, CountsKept, ChallengeFresh
<1>7. Fits(o, with) /\ Counted(o, with)
  BY <1>4, <1>5, <1>6, FromChallengeFits
<1> HIDE DEF with, wa
<1> QED BY <1>2, <1>3, <1>4, <1>7, SendKeeps

\* A redirected INVITE takes its credentials from the table.
LEMMA RedirectKeeps ==
    ASSUME AuthInv, NEW o \in Owners, Redirect(o)
    PROVE  AuthInv'
<1> DEFINE with == FromTable(o, "INVITE")
<1>1. own[o].retry \in Nat
  BY DEF AuthInv, AuthTypes, Owned
<1>2. own[o].phase = "3xx" /\ Send(o, "INVITE", with, own[o].retry)
  BY DEF Redirect
<1>3. own[o].method = "INVITE" /\ o # "reg"
  BY <1>2 DEF AuthInv, PhaseFits
<1>4. Level(o)
  BY <1>3 DEF AuthInv, CountsKept
<1>5. Fits(o, with) /\ Counted(o, with)
  BY <1>4, FromTableFits
<1> HIDE DEF with
<1> QED BY <1>1, <1>2, <1>3, <1>5, SendKeeps

\* A BYE may repeat a count: it is no REGISTER and no INVITE, and NoReplay is about these.
LEMMA ByeKeeps ==
    ASSUME AuthInv, NEW o \in Owners, Bye(o)
    PROVE  AuthInv'
<1> DEFINE wa == own[o].response_auth
           with == IF wa # None THEN FromChallenge(o, wa) ELSE FromTable(o, "BYE")
<1>1. own[o] \in Owned /\ own[o].retry \in Nat
  BY DEF AuthInv, AuthTypes, Owned
<1>2. own[o].phase = "ok" /\ Send(o, "BYE", with, own[o].retry) /\ o # "reg"
  BY DigestAssumption DEF Bye
<1>3. Fits(o, with)
  <2>1. CASE wa # None
    <3>1. wa \in Wanted
      BY <1>1, <2>1 DEF Owned
    <3>2. Heard(wa.nonce, o, wa.realm)
      BY <2>1 DEF Heard
    <3> QED BY <2>1, <3>1, <3>2, FromChallengeFits
  <2>2. CASE wa = None
    BY <2>2, FromTableFits
  <2> QED BY <2>1, <2>2
<1> HIDE DEF with
<1> QED BY <1>1, <1>2, <1>3, SendKeeps

\* A REGISTER that is refreshed, in time or after failures.
LEMMA RefreshKeeps ==
    ASSUME AuthInv, eXosip_automatic_refresh
    PROVE  AuthInv'
<1> DEFINE wa == own["reg"].challenge
           with == RegisterCredentials
<1>1. "reg" \in Owners /\ own["reg"] \in Owned /\ own["reg"].retry \in Nat
  BY DEF AuthInv, AuthTypes, Owners, Owned
<1>2. own["reg"].phase \in {"ok", "5xx", "silence", "refused"} /\ Send("reg", "REGISTER", with, own["reg"].retry)
  BY DEF eXosip_automatic_refresh
<1>3. own["reg"].method = "REGISTER"
  BY <1>1, <1>2 DEF AuthInv, PhaseFits
<1>4. Level("reg")
  BY <1>1, <1>3 DEF AuthInv, CountsKept
<1>5. Fits("reg", with) /\ Counted("reg", with)
  <2>1. CASE own["reg"].phase = "refused"
    <3>1. with = FromChallenge("reg", wa)
      BY <2>1 DEF RegisterCredentials
    <3>2. wa # None
      BY <1>1, <2>1 DEF AuthInv, PhaseFits
    <3>3. wa \in Wanted
      BY <1>1, <3>2 DEF Owned
    <3>4. Heard(wa.nonce, "reg", wa.realm) /\ \A k \in Nat : <<wa.nonce, k>> \notin used
      BY <1>1, <3>2 DEF Heard, AuthInv, ChallengeFresh
    <3> HIDE DEF with
    <3> QED BY <1>1, <1>4, <3>1, <3>3, <3>4, FromChallengeFits
  <2>2. CASE own["reg"].phase \in {"ok", "5xx"}
    <3>1. with = FromTable("reg", "REGISTER")
      BY <2>2 DEF RegisterCredentials
    <3> HIDE DEF with
    <3> QED BY <1>1, <1>4, <3>1, FromTableFits
  <2>3. CASE own["reg"].phase = "silence"
    <3>1. with = Bare
      BY <2>3 DEF RegisterCredentials
    <3> HIDE DEF with
    <3> QED BY <1>1, <1>4, <3>1, BareFits
  <2> QED BY <1>2, <2>1, <2>2, <2>3
<1> HIDE DEF with
<1> QED BY <1>1, <1>2, <1>5, SendKeeps

---------------------------------------------------------------------------
(* An answer arrives, an owner ends *)

NetType == [guards : SUBSET Realms, qop : BOOLEAN, made : Nat, honoured : SUBSET Nat, trouble : Nat]

\* Owner o is told answer, and keeps the rest but perhaps its count of retries.
Settled(o, answer) ==
    /\ own' \in [Owners -> Owned] /\ own'[o].phase = answer
    /\ \A p \in Owners : /\ p # o => own'[p] = own[p]
                         /\ own'[p].method = own[p].method /\ own'[p].creds = own[p].creds
                         /\ own'[p].challenge = own[p].challenge
                         /\ own'[p].response_auth = own[p].response_auth /\ own'[p].met = own[p].met
    /\ http_auths' = http_auths /\ used' = used /\ net' \in NetType /\ net'.made = net.made

\* An answer that brings no challenge moves the phase only.
LEMMA SettledKeeps ==
    ASSUME AuthInv, NEW o \in Owners, own[o].phase = "sent", NEW answer \in {"ok", "5xx", "silence", "3xx"},
           answer = "3xx" => own[o].method = "INVITE", Settled(o, answer)
    PROVE  AuthInv'
<1>1. \A p \in Owners : p # o => own'[p] = own[p]
  BY DEF Settled
<1>2. own'[o].phase = answer /\ http_auths' = http_auths /\ used' = used /\ net'.made = net.made
  BY DEF Settled
<1>3. \A p \in Owners : /\ own'[p].method = own[p].method /\ own'[p].creds = own[p].creds
                        /\ own'[p].challenge = own[p].challenge
                        /\ own'[p].response_auth = own[p].response_auth /\ own'[p].met = own[p].met
  BY DEF Settled
<1>4. AuthTypes'
  BY DEF Settled, AuthInv, AuthTypes, NetType
<1>5. PhaseFits'
  <2>1. \A p \in Owners : p # o => own'[p].phase = own[p].phase
    BY <1>1
  <2>2. own[o].challenge = None /\ own[o].method # "none"
    BY DEF AuthInv, PhaseFits
  <2> QED BY <1>2, <1>3, <2>1, <2>2 DEF AuthInv, PhaseFits
<1>6. \A p \in Owners : SlotsOf(p)' = SlotsOf(p)
  BY <1>2 DEF SlotsOf
<1>7. \A n : \A p \in Owners : \A r : Heard(n, p, r)' <=> Heard(n, p, r)
  BY <1>2, <1>3 DEF Heard, InTable
<1>8. NonceFixed'
  BY <1>2, <1>7 DEF AuthInv, NonceFixed
<1>9. RealmsMet' /\ OnePerRealm'
  BY <1>2, <1>3, <1>6 DEF AuthInv, RealmsMet, OnePerRealm
<1>10. GoneGaveUp'
  <2>1. \A p \in Owners : own'[p].phase = "gone" => own[p].phase = "gone"
    BY <1>1, <1>2
  <2> QED BY <1>2, <1>3, <1>6, <2>1 DEF AuthInv, GoneGaveUp
<1>11. ChallengeFresh' /\ TableUsed' /\ CountsKept' /\ NoReplay'
  BY <1>2, <1>3, <1>6 DEF AuthInv, ChallengeFresh, TableUsed, CountsKept, Level, NoReplay
<1> QED BY <1>4, <1>5, <1>8, <1>9, <1>10, <1>11 DEF AuthInv

\* A 2xx changes neither the table nor what was counted.
LEMMA AcceptKeeps ==
    ASSUME AuthInv, NEW o \in Owners, Accept(o)
    PROVE  AuthInv'
<1>1. own \in [Owners -> Owned] /\ own[o] \in Owned /\ net \in NetType
  BY DEF AuthInv, AuthTypes, NetType
<1>2. own' = [own EXCEPT ![o] = [own[o] EXCEPT !.phase = "ok", !.retry = 0]]
  BY <1>1 DEF Accept, Owned
<1>3. own[o].phase = "sent" /\ http_auths' = http_auths /\ used' = used /\ net' = net
  BY DEF Accept
<1>4. Settled(o, "ok")
  <2>1. own'[o] = [own[o] EXCEPT !.phase = "ok", !.retry = 0] /\ \A p \in Owners : p # o => own'[p] = own[p]
    BY <1>1, <1>2
  <2>2. own'[o] \in Owned /\ own'[o].phase = "ok"
    <3> DEFINE x == [own[o] EXCEPT !.phase = "ok"]
    <3>1. x \in Owned /\ x.phase = "ok"
      BY <1>1 DEF Owned
    <3>2. own'[o] = [x EXCEPT !.retry = 0]
      BY <2>1
    <3> HIDE DEF x
    <3> QED BY <3>1, <3>2 DEF Owned
  <2>3. /\ own'[o].method = own[o].method /\ own'[o].creds = own[o].creds
        /\ own'[o].challenge = own[o].challenge
        /\ own'[o].response_auth = own[o].response_auth /\ own'[o].met = own[o].met
    BY <1>1, <2>1 DEF Owned
  <2>4. own' \in [Owners -> Owned]
    BY <1>1, <1>2, <2>1, <2>2
  <2> QED BY <1>1, <1>3, <2>1, <2>2, <2>3, <2>4 DEF Settled
<1> QED BY <1>3, <1>4, SettledKeeps

\* Nor does an answer that ends the attempt.
LEMMA FailKeeps ==
    ASSUME AuthInv, NEW o \in Owners, Fail(o)
    PROVE  AuthInv'
<1>1. own \in [Owners -> Owned] /\ own[o] \in Owned /\ net \in NetType
  BY DEF AuthInv, AuthTypes, NetType
<1>2. PICK answer \in {"5xx", "silence", "3xx"} :
        (answer = "3xx" => own[o].method = "INVITE") /\ own' = [own EXCEPT ![o].phase = answer]
  BY DEF Fail
<1>3. own[o].phase = "sent" /\ http_auths' = http_auths /\ used' = used
  BY DEF Fail
<1>4. net' \in NetType /\ net'.made = net.made
  BY <1>1 DEF Fail, NetType
<1>5. Settled(o, answer)
  <2>1. own'[o] = [own[o] EXCEPT !.phase = answer] /\ \A p \in Owners : p # o => own'[p] = own[p]
    BY <1>1, <1>2
  <2>2. /\ own'[o] \in Owned /\ own'[o].phase = answer /\ own'[o].method = own[o].method
        /\ own'[o].creds = own[o].creds /\ own'[o].challenge = own[o].challenge
        /\ own'[o].response_auth = own[o].response_auth /\ own'[o].met = own[o].met
    BY <1>1, <2>1 DEF Owned
  <2>3. own' \in [Owners -> Owned]
    BY <1>1, <1>2, <2>1, <2>2
  <2> QED BY <1>3, <1>4, <2>1, <2>2, <2>3 DEF Settled
<1>6. answer \in {"ok", "5xx", "silence", "3xx"} /\ (answer = "3xx" => own[o].method = "INVITE")
  BY <1>2
<1> QED BY <1>3, <1>5, <1>6, SettledKeeps

\* A challenge brings a nonce nobody has heard of.
LEMMA ChallengeKeeps ==
    ASSUME AuthInv, NEW o \in Owners, Challenge(o)
    PROVE  AuthInv'
<1>0. own \in [Owners -> Owned] /\ own[o] \in Owned /\ net \in NetType
  BY DEF AuthInv, AuthTypes, NetType
<1>1. PICK g \in Realms :
        /\ net' = [net EXCEPT !.made = @ + 1, !.honoured = @ \cup {net.made + 1}]
        /\ own' = [own EXCEPT ![o].phase = "refused",
                              ![o].challenge = [realm |-> g, nonce |-> net.made + 1, qop |-> net.qop],
                              ![o].met = @ \cup {g},
                              ![o].response_auth = IF o = "reg" THEN @
                                                   ELSE [realm |-> g, nonce |-> net.made + 1, qop |-> net.qop]]
  BY DEF Challenge
<1> DEFINE new == net.made + 1
           wa == [realm |-> g, nonce |-> new, qop |-> net.qop]
           ra == IF o = "reg" THEN own[o].response_auth ELSE wa
<1>2. net' \in NetType /\ net'.made = new /\ net.made \in Nat /\ new \in Nat /\ new > net.made
  <2>1. net.made \in Nat /\ new \in Nat /\ new > net.made /\ net.honoured \cup {new} \subseteq Nat
    BY <1>0 DEF NetType
  <2>2. net' = [net EXCEPT !.made = new, !.honoured = net.honoured \cup {new}]
    BY <1>0, <1>1 DEF NetType
  <2> HIDE DEF new
  <2> QED BY <1>0, <2>1, <2>2 DEF NetType
<1>3. wa \in Wanted /\ wa.nonce = new /\ wa.realm = g /\ wa # None
  <2>1. wa \in Wanted
    BY <1>0, <1>2 DEF Wanted, NetType
  <2>2. wa.realm # None.realm
    BY DEF None, Realms
  <2> QED BY <2>1, <2>2
<1>4. own' = [own EXCEPT ![o] = [own[o] EXCEPT !.phase = "refused", !.challenge = wa,
                                               !.met = own[o].met \cup {g}, !.response_auth = ra]]
  BY <1>0, <1>1 DEF Owned
<1>5. ra \in {None} \cup Wanted
  BY <1>0, <1>3 DEF Owned
<1>6. http_auths' = http_auths /\ used' = used /\ own[o].phase = "sent"
  BY DEF Challenge
<1>7. own[o].method # "none" /\ own[o].challenge = None
  BY <1>6 DEF AuthInv, PhaseFits
<1>8. ra = wa \/ ra = own[o].response_auth
  OBVIOUS
<1> HIDE DEF new, wa, ra
<1>9. /\ own'[o] = [own[o] EXCEPT !.phase = "refused", !.challenge = wa,
                                  !.met = own[o].met \cup {g}, !.response_auth = ra]
      /\ \A p \in Owners : p # o => own'[p] = own[p]
  BY <1>0, <1>4
<1>10. /\ own'[o].phase = "refused" /\ own'[o].challenge = wa /\ own'[o].met = own[o].met \cup {g}
       /\ own'[o].response_auth = ra /\ own'[o].method = own[o].method /\ own'[o].creds = own[o].creds
  BY <1>0, <1>9 DEF Owned
<1>11. own'[o] \in Owned
  <2>1. own[o].met \cup {g} \subseteq Realms
    BY <1>0 DEF Owned
  <2> QED BY <1>0, <1>3, <1>5, <1>9, <2>1 DEF Owned
<1>12. AuthTypes'
  BY <1>0, <1>2, <1>4, <1>6, <1>9, <1>11 DEF AuthInv, AuthTypes, NetType
<1>13. PhaseFits'
  <2>1. ASSUME NEW p \in Owners
        PROVE  /\ own'[p].phase = "refused" <=> own'[p].challenge # None
               /\ own'[p].phase \in {"idle", "gone"} <=> own'[p].method = "none"
               /\ own'[p].phase = "idle" => own'[p].met = {} /\ own'[p].response_auth = None
               /\ own'[p].phase = "3xx" => own'[p].method = "INVITE"
               /\ p = "reg" => own'[p].method \in {"none", "REGISTER"}
    <3>1. CASE p = o
      BY <1>3, <1>7, <1>10, <3>1 DEF AuthInv, PhaseFits
    <3>2. CASE p # o
      BY <1>9, <3>2 DEF AuthInv, PhaseFits
    <3> QED BY <3>1, <3>2
  <2> QED BY <2>1 DEF PhaseFits
<1>14. \A p \in Owners : SlotsOf(p)' = SlotsOf(p)
  BY <1>6 DEF SlotsOf
<1>15. ASSUME NEW n, NEW p \in Owners, NEW r, Heard(n, p, r)'
       PROVE  Heard(n, p, r) \/ (n = new /\ p = o /\ r = g)
  <2>1. CASE p # o
    BY <1>6, <1>9, <1>15, <2>1 DEF Heard, InTable
  <2>2. CASE p = o
    BY <1>3, <1>6, <1>8, <1>10, <1>15, <2>2 DEF Heard, InTable
  <2> QED BY <2>1, <2>2
<1>16. \A n \in Nat : \A p \in Owners : \A r \in Realms : Heard(n, p, r) => n <= net.made
  BY DEF AuthInv, NonceFixed
<1>17. NonceFixed'
  <2>1. ASSUME NEW n \in Nat, NEW p \in Owners, NEW q \in Owners, NEW r \in Realms, NEW t \in Realms,
               Heard(n, p, r)', Heard(n, q, t)'
        PROVE  p = q /\ r = t
    <3>1. CASE n = new
      <4>1. ~Heard(n, p, r) /\ ~Heard(n, q, t)
        BY <1>2, <1>16, <3>1
      <4> QED BY <1>15, <2>1, <4>1
    <3>2. CASE n # new
      <4>1. Heard(n, p, r) /\ Heard(n, q, t)
        BY <1>15, <2>1, <3>2
      <4> QED BY <4>1 DEF AuthInv, NonceFixed
    <3> QED BY <3>1, <3>2
  <2>2. ASSUME NEW n \in Nat, NEW p \in Owners, NEW r \in Realms, Heard(n, p, r)' PROVE n <= net'.made
    <3>1. Heard(n, p, r) \/ n = new
      BY <1>15, <2>2
    <3> QED BY <1>2, <1>16, <3>1
  <2>3. \A n, k \in Nat : <<n, k>> \in used' => n <= net'.made
    <3>1. \A n, k \in Nat : <<n, k>> \in used => n <= net.made
      BY DEF AuthInv, NonceFixed
    <3> QED BY <1>2, <1>6, <3>1
  <2> QED BY <2>1, <2>2, <2>3 DEF NonceFixed
<1>18. RealmsMet'
  <2>1. ASSUME NEW p \in Owners
        PROVE  /\ own'[p].challenge # None => own'[p].challenge.realm \in own'[p].met
               /\ own'[p].response_auth # None => own'[p].response_auth.realm \in own'[p].met
               /\ \A s \in SlotsOf(p) : http_auths[s].realm \in own'[p].met
    <3>1. CASE p # o
      BY <1>9, <3>1 DEF AuthInv, RealmsMet
    <3>2. CASE p = o
      BY <1>3, <1>8, <1>10, <3>2 DEF AuthInv, RealmsMet
    <3> QED BY <3>1, <3>2
  <2> QED BY <1>6, <1>14, <2>1 DEF RealmsMet
<1>19. OnePerRealm' /\ TableUsed'
  BY <1>6, <1>14 DEF AuthInv, OnePerRealm, TableUsed
<1>20. GoneGaveUp'
  <2>1. \A p \in Owners : own'[p].phase = "gone" => p # o
    BY <1>10
  <2> QED BY <1>6, <1>9, <1>14, <2>1 DEF AuthInv, GoneGaveUp
<1>21. ChallengeFresh'
  <2>1. ASSUME NEW p \in Owners, own'[p].challenge # None, NEW k \in Nat
        PROVE  <<own'[p].challenge.nonce, k>> \notin used
    <3>1. CASE p # o
      BY <1>9, <2>1, <3>1 DEF AuthInv, ChallengeFresh
    <3>2. CASE p = o
      <4>1. <<new, k>> \in used => new <= net.made
        BY <1>2 DEF AuthInv, NonceFixed
      <4> QED BY <1>2, <1>3, <1>10, <3>2, <4>1
    <3> QED BY <3>1, <3>2
  <2> QED BY <1>6, <2>1 DEF ChallengeFresh
<1>22. \A p \in Owners : own'[p].method = own[p].method /\ own'[p].creds = own[p].creds
  BY <1>9, <1>10
<1>23. CountsKept' /\ NoReplay'
  BY <1>6, <1>14, <1>22 DEF AuthInv, CountsKept, Level, NoReplay
<1> QED BY <1>12, <1>13, <1>17, <1>18, <1>19, <1>20, <1>21, <1>23 DEF AuthInv

\* A guard that forgets a nonce changes nothing eXosip keeps.
LEMMA ExpireKeeps ==
    ASSUME AuthInv, Expire
    PROVE  AuthInv'
<1>1. net \in NetType
  BY DEF AuthInv, AuthTypes, NetType
<1>2. PICK n : net' = [net EXCEPT !.honoured = @ \ {n}, !.trouble = @ + 1]
  BY DEF Expire
<1>3. net' \in NetType /\ net'.made = net.made
  <2>1. net.honoured \ {n} \subseteq Nat /\ net.trouble + 1 \in Nat
    BY <1>1 DEF NetType
  <2>2. net' = [net EXCEPT !.honoured = net.honoured \ {n}, !.trouble = net.trouble + 1]
    BY <1>1, <1>2 DEF NetType
  <2> QED BY <1>1, <2>1, <2>2 DEF NetType
<1>4. http_auths' = http_auths /\ own' = own /\ used' = used
  BY DEF Expire
<1>5. AuthTypes' /\ PhaseFits'
  BY <1>3, <1>4 DEF AuthInv, AuthTypes, PhaseFits, NetType
<1>6. \A v, p, r : Heard(v, p, r)' <=> Heard(v, p, r)
  BY <1>4 DEF Heard, InTable
<1>7. NonceFixed'
  BY <1>3, <1>4, <1>6 DEF AuthInv, NonceFixed
<1>8. \A p : SlotsOf(p)' = SlotsOf(p)
  BY <1>4 DEF SlotsOf
<1>9. RealmsMet' /\ OnePerRealm' /\ GoneGaveUp'
  BY <1>4, <1>8 DEF AuthInv, RealmsMet, OnePerRealm, GoneGaveUp
<1>10. ChallengeFresh' /\ TableUsed' /\ CountsKept' /\ NoReplay'
  BY <1>4, <1>8 DEF AuthInv, ChallengeFresh, TableUsed, CountsKept, Level, NoReplay
<1> QED BY <1>5, <1>7, <1>9, <1>10 DEF AuthInv

\* _eXosip_delete_nonce frees one entry of the Call-ID, when it has any.
LEMMA DeleteNonce ==
    ASSUME AuthInv, NEW o \in Owners
    PROVE  \/ SlotsOf(o) = {} /\ _eXosip_delete_nonce(o) = http_auths
           \/ \E k \in SlotsOf(o) : _eXosip_delete_nonce(o) = [http_auths EXCEPT ![k] = Free]
<1>1. CASE SlotsOf(o) = {}
  BY <1>1 DEF _eXosip_delete_nonce
<1>2. CASE SlotsOf(o) # {}
  <2>1. SlotsOf(o) \subseteq Nat
    BY DEF SlotsOf
  <2>2. Min(SlotsOf(o)) \in SlotsOf(o)
    BY <1>2, <2>1, MinIsIn
  <2> QED BY <1>2, <2>2 DEF _eXosip_delete_nonce
<1> QED BY <1>1, <1>2

\* A call that goes clears one entry of the table, which only forgets.
LEMMA ReleaseKeeps ==
    ASSUME AuthInv, NEW o \in Owners, Release(o)
    PROVE  AuthInv'
<1>0. own \in [Owners -> Owned] /\ own[o] \in Owned /\ http_auths \in [1 .. Slots -> {Free} \cup Entry]
  BY DEF AuthInv, AuthTypes
<1>1. http_auths' = _eXosip_delete_nonce(o) /\ used' = used /\ net' = net
  BY DEF Release
<1>2. own' = [own EXCEPT ![o] = [Unsent EXCEPT !.phase = "gone", !.met = own[o].met]]
  BY DEF Release
<1>3. /\ own'[o] = [Unsent EXCEPT !.phase = "gone", !.met = own[o].met]
      /\ \A p \in Owners : p # o => own'[p] = own[p]
  BY <1>0, <1>2
<1>4. /\ own'[o].phase = "gone" /\ own'[o].method = "none" /\ own'[o].creds = {} /\ own'[o].challenge = None
      /\ own'[o].response_auth = None /\ own'[o].met = own[o].met
  BY <1>3 DEF Unsent
<1>5. own'[o] \in Owned
  <2>1. own[o].met \subseteq Realms
    BY <1>0 DEF Owned
  <2>2. own'[o] = [phase |-> "gone", method |-> "none", creds |-> {}, challenge |-> None,
                   retry |-> 0, response_auth |-> None, met |-> own[o].met, refreshed |-> 0]
    BY <1>3 DEF Unsent
  <2> QED BY <2>1, <2>2 DEF Owned
<1>6. http_auths' \in [1 .. Slots -> {Free} \cup Entry]
  BY <1>0, <1>1, DeleteNonce DEF SlotsOf
<1>7. Free.owner = "free" /\ \A p \in Owners : p # "free"
  BY DigestAssumption DEF Free, Owners
<1>8. \A s \in 1 .. Slots : http_auths'[s] = http_auths[s] \/ (http_auths'[s] = Free /\ s \in SlotsOf(o))
  BY <1>0, <1>1, DeleteNonce DEF SlotsOf
<1>9. \A p \in Owners : \A s \in SlotsOf(p)' : s \in SlotsOf(p) /\ http_auths'[s] = http_auths[s]
  BY <1>7, <1>8 DEF SlotsOf
<1>10. AuthTypes'
  BY <1>0, <1>1, <1>2, <1>3, <1>5, <1>6 DEF AuthInv, AuthTypes
<1>11. PhaseFits'
  <2>1. ASSUME NEW p \in Owners
        PROVE  /\ own'[p].phase = "refused" <=> own'[p].challenge # None
               /\ own'[p].phase \in {"idle", "gone"} <=> own'[p].method = "none"
               /\ own'[p].phase = "idle" => own'[p].met = {} /\ own'[p].response_auth = None
               /\ own'[p].phase = "3xx" => own'[p].method = "INVITE"
               /\ p = "reg" => own'[p].method \in {"none", "REGISTER"}
    <3>1. CASE p = o
      BY <1>4, <3>1
    <3>2. CASE p # o
      BY <1>3, <3>2 DEF AuthInv, PhaseFits
    <3> QED BY <3>1, <3>2
  <2> QED BY <2>1 DEF PhaseFits
<1>12. ASSUME NEW n, NEW p \in Owners, NEW r, Heard(n, p, r)' PROVE Heard(n, p, r)
  <2>1. CASE InTable(n, p, r)'
    <3>1. PICK s \in 1 .. Slots : http_auths'[s].owner = p /\ http_auths'[s].nonce = n /\ http_auths'[s].realm = r
      BY <2>1 DEF InTable
    <3>2. http_auths'[s] = http_auths[s]
      BY <1>7, <1>8, <3>1
    <3> QED BY <3>1, <3>2 DEF Heard, InTable
  <2>2. CASE ~InTable(n, p, r)'
    <3>1. CASE p = o
      BY <1>4, <1>12, <2>2, <3>1 DEF Heard
    <3>2. CASE p # o
      BY <1>3, <1>12, <2>2, <3>2 DEF Heard
    <3> QED BY <3>1, <3>2
  <2> QED BY <2>1, <2>2
<1>13. NonceFixed'
  <2>1. ASSUME NEW n \in Nat, NEW p \in Owners, NEW q \in Owners, NEW r \in Realms, NEW t \in Realms,
               Heard(n, p, r)', Heard(n, q, t)'
        PROVE  p = q /\ r = t
    <3>1. Heard(n, p, r) /\ Heard(n, q, t)
      BY <1>12, <2>1
    <3> QED BY <3>1 DEF AuthInv, NonceFixed
  <2>2. ASSUME NEW n \in Nat, NEW p \in Owners, NEW r \in Realms, Heard(n, p, r)' PROVE n <= net'.made
    <3>1. Heard(n, p, r)
      BY <1>12, <2>2
    <3> QED BY <1>1, <3>1 DEF AuthInv, NonceFixed
  <2>3. \A n, k \in Nat : <<n, k>> \in used' => n <= net'.made
    BY <1>1 DEF AuthInv, NonceFixed
  <2> QED BY <2>1, <2>2, <2>3 DEF NonceFixed
<1>14. RealmsMet'
  <2>1. ASSUME NEW p \in Owners
        PROVE  /\ own'[p].challenge # None => own'[p].challenge.realm \in own'[p].met
               /\ own'[p].response_auth # None => own'[p].response_auth.realm \in own'[p].met
               /\ \A s \in SlotsOf(p) : http_auths[s].realm \in own'[p].met
    <3>1. CASE p # o
      BY <1>3, <3>1 DEF AuthInv, RealmsMet
    <3>2. CASE p = o
      BY <1>4, <3>2 DEF AuthInv, RealmsMet
    <3> QED BY <3>1, <3>2
  <2> QED BY <1>9, <2>1 DEF RealmsMet
<1>15. OnePerRealm' /\ TableUsed'
  BY <1>1, <1>9 DEF AuthInv, OnePerRealm, TableUsed
<1>16. GoneGaveUp'
  <2>1. ASSUME NEW p \in Owners, own'[p].phase = "gone"
        PROVE  SlotsOf(p)' = {} \/ \E r \in own'[p].met : \A s \in SlotsOf(p)' : http_auths'[s].realm # r
    <3>1. CASE p # o
      <4>1. own'[p] = own[p]
        BY <1>3, <3>1
      <4>2. SlotsOf(p) = {} \/ \E r \in own[p].met : \A s \in SlotsOf(p) : http_auths[s].realm # r
        BY <2>1, <4>1 DEF AuthInv, GoneGaveUp
      <4> QED BY <1>9, <4>1, <4>2
    <3>2. CASE p = o
      <4>1. CASE SlotsOf(o) = {}
        BY <1>9, <3>2, <4>1
      <4>2. CASE SlotsOf(o) # {}
        <5>1. PICK k \in SlotsOf(o) : http_auths' = [http_auths EXCEPT ![k] = Free]
          BY <1>1, <4>2, DeleteNonce
        <5>2. http_auths'[k] = Free /\ k \in 1 .. Slots
          BY <1>0, <5>1 DEF SlotsOf
        <5>3. http_auths[k].realm \in own[o].met
          BY <5>1 DEF AuthInv, RealmsMet
        <5>4. ASSUME NEW s \in SlotsOf(o)' PROVE http_auths'[s].realm # http_auths[k].realm
          <6>1. s \in SlotsOf(o) /\ http_auths'[s] = http_auths[s] /\ http_auths'[s].owner = o
            BY <1>9, <5>4 DEF SlotsOf
          <6>2. s # k
            BY <1>7, <5>2, <6>1
          <6> QED BY <5>1, <6>1, <6>2 DEF AuthInv, OnePerRealm
        <5> QED BY <1>4, <3>2, <5>3, <5>4
      <4> QED BY <4>1, <4>2
    <3> QED BY <3>1, <3>2
  <2> QED BY <2>1 DEF GoneGaveUp
<1>17. ChallengeFresh'
  BY <1>1, <1>3, <1>4 DEF AuthInv, ChallengeFresh
<1>18. CountsKept'
  <2>1. ASSUME NEW p \in Owners, own'[p].method \in {"REGISTER", "INVITE"}
        PROVE  Level(p)'
    <3>1. p # o /\ own'[p] = own[p]
      BY <1>3, <1>4, <2>1
    <3>2. Level(p)
      BY <2>1, <3>1 DEF AuthInv, CountsKept
    <3> QED BY <1>1, <1>9, <3>2 DEF Level
  <2> QED BY <2>1 DEF CountsKept
<1>19. NoReplay'
  <2>1. \A p \in Owners : own'[p].method \in {"REGISTER", "INVITE"} => own'[p] = own[p]
    BY <1>3, <1>4
  <2> QED BY <2>1 DEF AuthInv, NoReplay
<1> QED BY <1>10, <1>11, <1>13, <1>14, <1>15, <1>16, <1>17, <1>18, <1>19 DEF AuthInv

---------------------------------------------------------------------------
(* The theorems *)

\* Before anything is sent the table is free and no nonce is known.
LEMMA AuthInitially == Init => AuthInv
<1> SUFFICES ASSUME Init PROVE AuthInv
  OBVIOUS
<1>1. http_auths = [s \in 1 .. Slots |-> Free] /\ own = [o \in Owners |-> Unsent] /\ used = {}
  BY DEF Init
<1>2. PICK guards \in SUBSET Realms, qop \in BOOLEAN :
        net = [guards |-> guards, qop |-> qop, made |-> 0, honoured |-> {}, trouble |-> 0]
  BY DEF Init
<1>3. \A o \in Owners : SlotsOf(o) = {}
  <2>1. \A s \in 1 .. Slots : http_auths[s].owner = "free"
    BY <1>1 DEF Free
  <2>2. \A o \in Owners : o # "free"
    BY DigestAssumption DEF Owners
  <2> QED BY <2>1, <2>2 DEF SlotsOf
<1>4. \A o \in Owners : /\ own[o] = Unsent /\ own[o].phase = "idle" /\ own[o].method = "none" /\ own[o].creds = {}
                        /\ own[o].challenge = None /\ own[o].response_auth = None /\ own[o].met = {}
  BY <1>1 DEF Unsent
<1>5. AuthTypes
  <2>1. Unsent \in Owned
    BY DEF Unsent, Owned
  <2> QED BY <1>1, <1>2, <2>1 DEF AuthTypes
<1>6. \A n : \A o \in Owners : \A r : ~Heard(n, o, r)
  BY <1>3, <1>4 DEF Heard, InTable, SlotsOf
<1>7. NonceFixed
  BY <1>1, <1>6 DEF NonceFixed
<1>8. PhaseFits /\ NoReplay
  BY <1>4 DEF PhaseFits, NoReplay
<1>9. RealmsMet /\ OnePerRealm /\ GoneGaveUp /\ ChallengeFresh /\ TableUsed /\ CountsKept
  BY <1>3, <1>4 DEF RealmsMet, OnePerRealm, GoneGaveUp, ChallengeFresh, TableUsed, CountsKept, Level
<1> QED BY <1>5, <1>7, <1>8, <1>9 DEF AuthInv

\* Every step keeps the invariant.
LEMMA AuthStep == AuthInv /\ [Next]_vars => AuthInv'
<1>1. CASE UNCHANGED vars
  <2>1. http_auths' = http_auths /\ own' = own /\ used' = used /\ net' = net
    BY <1>1 DEF vars
  <2> QED BY <2>1 DEF AuthInv, AuthTypes, PhaseFits, NonceFixed, Heard, InTable, RealmsMet, OnePerRealm, GoneGaveUp,
                      ChallengeFresh, TableUsed, CountsKept, Level, NoReplay, SlotsOf
<1>2. CASE Next
  BY <1>2, StartKeeps, RetryKeeps, RedirectKeeps, ByeKeeps, ReleaseKeeps, ChallengeKeeps, AcceptKeeps, FailKeeps,
     RefreshKeeps, ExpireKeeps DEF Next
<1> QED BY <1>1, <1>2

\* What eXosip keeps of nonces is, in every state, as AuthInv says: each belongs to one
\* Call-ID and realm and the table never counts behind what a REGISTER or INVITE sent.
THEOREM AuthInvHolds == Spec => []AuthInv
BY AuthInitially, AuthStep, PTL DEF Spec

\* No REGISTER and no INVITE repeats a nonce with a count already sent, for any number of
\* calls, slots, challenges, lost answers and redirections.
THEOREM NothingIsReplayed == Spec => []NoReplay
<1>1. AuthInv => NoReplay
  BY DEF AuthInv
<1> QED BY <1>1, AuthInvHolds, PTL

\* The entries of a Call-ID are at most the realms it met, and one fewer once it ended.
LEMMA SlotsWithinRealms ==
    ASSUME AuthInv, NEW o \in Owners, NEW T, T \subseteq own[o].met,
           \A s \in SlotsOf(o) : http_auths[s].realm \in T
    PROVE  /\ IsFiniteSet(T) /\ IsFiniteSet(own[o].met)
           /\ Cardinality(SlotsOf(o)) <= Cardinality(T)
           /\ Cardinality(SlotsOf(o)) \in Nat
<1> DEFINE f == [s \in SlotsOf(o) |-> http_auths[s].realm]
<1>1. IsFiniteSet(Realms)
  <2>1. IsFiniteSet({"proxy"})
    BY FS_Singleton
  <2>2. Realms = {"proxy"} \cup {"uas"}
    BY DEF Realms
  <2> QED BY <2>1, <2>2, FS_AddElement
<1>2. own[o].met \subseteq Realms
  BY DEF AuthInv, AuthTypes, Owned
<1>3. IsFiniteSet(T) /\ IsFiniteSet(own[o].met)
  BY <1>1, <1>2, FS_Subset
<1>4. f \in [SlotsOf(o) -> T]
  OBVIOUS
<1>5. \A s, u \in SlotsOf(o) : f[s] = f[u] => s = u
  BY DEF AuthInv, OnePerRealm
<1>6. f \in Injection(SlotsOf(o), T)
  <2> HIDE DEF f
  <2> QED BY <1>4, <1>5 DEF Injection, IsInjective
<1> HIDE DEF f
<1>7. IsFiniteSet(SlotsOf(o)) /\ Cardinality(SlotsOf(o)) <= Cardinality(T)
  BY <1>3, <1>6, FS_Injection
<1> QED BY <1>3, <1>7, FS_CardinalityType

\* A Call-ID that has ended leaves at most one entry, and only when it met both realms;
\* a living one holds at most one for each realm it met.
THEOREM TableStaysBounded == Spec => []TableIsBounded
<1>1. ASSUME AuthInv PROVE TableIsBounded
  <2>1. ASSUME NEW o \in Owners, own[o].phase # "gone" PROVE Cardinality(SlotsOf(o)) <= Cardinality(own[o].met)
    <3>1. \A s \in SlotsOf(o) : http_auths[s].realm \in own[o].met
      BY <1>1 DEF AuthInv, RealmsMet
    <3> QED BY <1>1, <3>1, SlotsWithinRealms
  <2>2. ASSUME NEW o \in Owners, own[o].phase = "gone"
        PROVE  Cardinality(SlotsOf(o)) <= Max({1, Cardinality(own[o].met)}) - 1
    <3> DEFINE m == Cardinality(own[o].met)
    <3>1. \A s \in SlotsOf(o) : http_auths[s].realm \in own[o].met
      BY <1>1 DEF AuthInv, RealmsMet
    <3>2. IsFiniteSet(own[o].met)
      BY <1>1, <3>1, SlotsWithinRealms
    <3>3. m \in Nat
      BY <3>2, FS_CardinalityType
    <3> HIDE DEF m
    <3>4. Max({1, m}) \in Int /\ Max({1, m}) >= 1 /\ Max({1, m}) >= m
      <4>1. \E x \in {1, m} : \A y \in {1, m} : x >= y
        <5>1. CASE m >= 1
          BY <3>3, <5>1
        <5>2. CASE ~(m >= 1)
          BY <3>3, <5>2
        <5> QED BY <5>1, <5>2
      <4>2. Max({1, m}) \in {1, m} /\ \A y \in {1, m} : Max({1, m}) >= y
        BY <4>1 DEF Max
      <4> QED BY <3>3, <4>2
    <3>5. CASE SlotsOf(o) = {}
      BY <3>4, <3>5, FS_EmptySet DEF m
    <3>6. CASE SlotsOf(o) # {}
      <4>1. PICK r \in own[o].met : \A s \in SlotsOf(o) : http_auths[s].realm # r
        BY <1>1, <2>2, <3>6 DEF AuthInv, GoneGaveUp
      <4> DEFINE T == own[o].met \ {r}
      <4>2. T \subseteq own[o].met /\ \A s \in SlotsOf(o) : http_auths[s].realm \in T
        BY <3>1, <4>1
      <4>3. Cardinality(T) = m - 1
        BY <3>2, FS_RemoveElement DEF m
      <4> HIDE DEF T
      <4>4. Cardinality(SlotsOf(o)) <= Cardinality(T) /\ Cardinality(SlotsOf(o)) \in Nat
        BY <1>1, <4>2, SlotsWithinRealms
      <4>5. Cardinality(SlotsOf(o)) <= Max({1, m}) - 1
        BY <3>3, <3>4, <4>3, <4>4
      <4> QED BY <4>5 DEF m
    <3> QED BY <3>5, <3>6
  <2> QED BY <2>1, <2>2 DEF TableIsBounded
<1> QED BY <1>1, AuthInvHolds, PTL
=============================================================================
