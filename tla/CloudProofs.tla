---------------------------- MODULE CloudProofs ----------------------------
(* Proofs about what works on the account of a Cloud session.  Flows: the    *)
(* stored private key and Meta's public key, the URL an exchange is told to, *)
(* and how often.  CloudAccount: what a request for the account touches, and *)
(* what its answer says.                                                     *)
EXTENDS Flows, CloudAccount, TLAPS

ConfRec == [at : {"new", "register", "store", "done"}, clean : BOOLEAN, want : Row]
ExRec == [at : {"new", "sent", "forward", "answered", "done"}, account : Accounts \cup {None},
          key : Keys \cup {None}, ping : BOOLEAN, creds : Row, answer : Answers \cup {None}]

\* A request under way wants an account and a key.
WantsAreWhole ==
  \A c \in Configures :
    conf[c].at \in {"register", "store"} =>
      conf[c].want.account \in Accounts /\ conf[c].want.key \in Keys

\* A configure request that met no other and no new account is alone with the row.
CleanIsAlone ==
  \A c \in Configures :
    conf[c].clean =>
      /\ conf[c].at \in {"register", "store"}
      /\ row.account = conf[c].want.account
      /\ \A o \in Configures \ {c} : conf[o].at \in {"new", "done"}

\* What it is about to store is what Meta has.
CleanIsRegistered ==
  \A c \in Configures :
    conf[c].clean /\ conf[c].at = "store" =>
      registered[NumberOf[conf[c].want.account]] = conf[c].want.key

\* The keys agree, and there is an account for them to agree about.
SoundIsWhole == sound => row.account \in Accounts /\ KeysAgree

\* A stored key has been stored together with the stored URL, and what an exchange takes
\* along to its forward is such a pair.
PairsAreKept ==
  /\ row.key # None => <<row.key, row.url>> \in kept
  /\ \A e \in Exchanges :
       ex[e].at = "forward" =>
         ex[e].creds.url \in Urls /\ <<ex[e].key, ex[e].creds.url>> \in kept

\* An exchange that may still reach the handler has not reached it.
NotYetForwarded ==
  \A e \in Exchanges :
    (\/ ex[e].at \in {"new", "sent", "forward"}
     \/ ex[e].at = "answered" /\ ex[e].answer = "421")
      => times[e] = 0

\* Meta sends what it sends for an account.
SendersAreKnown == \A e \in Exchanges : ex[e].at # "new" => ex[e].account \in Accounts

FlowsInv ==
  /\ TypeOK
  /\ WantsAreWhole /\ CleanIsAlone /\ CleanIsRegistered /\ SoundIsWhole
  /\ PairsAreKept /\ CredentialsAreWhole
  /\ NotYetForwarded /\ ForwardedOnce /\ SendersAreKnown

-----------------------------------------------------------------------------
(* Types.                                                                  *)

LEMMA RecordsTyped ==
  /\ NoRow \in Row
  /\ NewConf \in ConfRec /\ NewConf.at = "new" /\ ~NewConf.clean
  /\ ConfDone \in ConfRec /\ ConfDone.at = "done" /\ ~ConfDone.clean
  /\ NewExchange \in ExRec /\ NewExchange.at = "new" /\ NewExchange.answer = None
<1>1. NoRow \in Row
  BY DEF NoRow, Row
<1>2. NewConf \in ConfRec /\ NewConf.at = "new" /\ ~NewConf.clean
  BY <1>1 DEF NewConf, ConfRec
<1>3. ConfDone \in ConfRec /\ ConfDone.at = "done" /\ ~ConfDone.clean
  BY <1>2 DEF ConfDone, ConfRec
<1>4. NewExchange \in ExRec /\ NewExchange.at = "new" /\ NewExchange.answer = None
  BY <1>1 DEF NewExchange, ExRec
<1> QED
  BY <1>1, <1>2, <1>3, <1>4

LEMMA TypeIs ==
  TypeOK <=>
    /\ row \in Row
    /\ registered \in [Numbers -> Keys \cup {None}] /\ cached \in [Numbers -> Keys \cup {None}]
    /\ conf \in [Configures -> ConfRec] /\ ex \in [Exchanges -> ExRec]
    /\ connects \in 0..MaxConnects /\ faults \in 0..MaxFaults
    /\ live \subseteq Accounts /\ kept \subseteq Keys \X (Urls \cup {None})
    /\ told \subseteq Keys \X Urls /\ times \in [Exchanges -> 0..2]
    /\ sound \in BOOLEAN
BY DEF TypeOK, ConfRec, ExRec

LEMMA TypeIsNext ==
  TypeOK' <=>
    /\ row' \in Row
    /\ registered' \in [Numbers -> Keys \cup {None}]
    /\ cached' \in [Numbers -> Keys \cup {None}]
    /\ conf' \in [Configures -> ConfRec] /\ ex' \in [Exchanges -> ExRec]
    /\ connects' \in 0..MaxConnects /\ faults' \in 0..MaxFaults
    /\ live' \subseteq Accounts /\ kept' \subseteq Keys \X (Urls \cup {None})
    /\ told' \subseteq Keys \X Urls /\ times' \in [Exchanges -> 0..2]
    /\ sound' \in BOOLEAN
BY DEF TypeOK, ConfRec, ExRec

LEMMA InitFlowsInv == Init => FlowsInv
<1> SUFFICES ASSUME Init PROVE FlowsInv
  OBVIOUS
<1> USE RecordsTyped DEF Init
<1>1. TypeOK
  <2>1. registered \in [Numbers -> Keys \cup {None}] /\ cached \in [Numbers -> Keys \cup {None}]
    OBVIOUS
  <2>2. conf \in [Configures -> ConfRec] /\ ex \in [Exchanges -> ExRec]
    OBVIOUS
  <2>3. connects \in 0..MaxConnects /\ faults \in 0..MaxFaults /\ times \in [Exchanges -> 0..2]
    BY FlowsAssumption
  <2> QED
    BY <2>1, <2>2, <2>3, TypeIs
<1>2. WantsAreWhole /\ CleanIsAlone /\ CleanIsRegistered
  BY DEF WantsAreWhole, CleanIsAlone, CleanIsRegistered
<1>3. SoundIsWhole /\ CredentialsAreWhole
  BY DEF SoundIsWhole, CredentialsAreWhole
<1>4. PairsAreKept
  BY DEF PairsAreKept, NoRow
<1>5. NotYetForwarded /\ ForwardedOnce /\ SendersAreKnown
  BY DEF NotYetForwarded, ForwardedOnce, SendersAreKnown
<1> QED
  BY <1>1, <1>2, <1>3, <1>4, <1>5 DEF FlowsInv

LEMMA FaultTyped == TypeOK /\ (Fault \/ NoFault) => faults' \in 0..MaxFaults
BY FlowsAssumption, TypeIs DEF Fault, NoFault

\* What an answer makes of an exchange.
LEMMA AnswerTyped ==
  ASSUME TypeOK, NEW e \in Exchanges, NEW a \in Answers, Answer(e, a)
  PROVE  /\ ex' \in [Exchanges -> ExRec]
         /\ ex'[e].at = "answered" /\ ex'[e].answer = a /\ ex'[e].account = ex[e].account
         /\ \A o \in Exchanges \ {e} : ex'[o] = ex[o]
<1>1. ex \in [Exchanges -> ExRec] /\ NoRow \in Row
  BY TypeIs, RecordsTyped
<1>2. ex' = [ex EXCEPT ![e] = [ex[e] EXCEPT !.at = "answered", !.creds = NoRow, !.answer = a]]
  BY <1>1 DEF Answer
<1>3. [ex[e] EXCEPT !.at = "answered", !.creds = NoRow, !.answer = a] \in ExRec
  BY <1>1 DEF ExRec
<1> QED
  BY <1>1, <1>2, <1>3

-----------------------------------------------------------------------------
(* One step.  The requests that configure and the exchanges share nothing   *)
(* but the row: each action leaves one half of the invariant alone.         *)

KeyHalf == WantsAreWhole /\ CleanIsAlone /\ CleanIsRegistered /\ SoundIsWhole
ToldHalf ==
  PairsAreKept /\ CredentialsAreWhole /\ NotYetForwarded /\ ForwardedOnce /\ SendersAreKnown

LEMMA KeyHalfStays ==
  KeyHalf /\ UNCHANGED <<row, registered, conf, sound>> => KeyHalf'
BY DEF KeyHalf, WantsAreWhole, CleanIsAlone, CleanIsRegistered, SoundIsWhole, KeysAgree

LEMMA ToldHalfStays ==
  ToldHalf /\ UNCHANGED <<ex, kept, told, times>> /\ row'.key = row.key /\ row'.url = row.url
    => ToldHalf'
BY DEF ToldHalf, PairsAreKept, CredentialsAreWhole, NotYetForwarded,
       ForwardedOnce, SendersAreKnown

LEMMA ConnectStep ==
  ASSUME TypeOK, KeyHalf, ToldHalf, NEW a \in Accounts, Connect(a)
  PROVE  TypeOK' /\ KeyHalf' /\ ToldHalf'
<1>1. /\ row' \in Row /\ row'.key = row.key /\ row'.url = row.url
      /\ connects' \in 0..MaxConnects
  BY FlowsAssumption, TypeIs DEF Connect, Row
<1>2. /\ conf' \in [Configures -> ConfRec]
      /\ \A c \in Configures :
           /\ conf'[c].at = conf[c].at /\ conf'[c].want = conf[c].want /\ ~conf'[c].clean
  <2>1. \A c \in Configures : conf[c] \in ConfRec
    BY TypeIs
  <2>2. \A c \in Configures :
          LET d == [conf[c] EXCEPT !.clean = FALSE]
          IN d \in ConfRec /\ d.at = conf[c].at /\ d.want = conf[c].want /\ ~d.clean
    BY <2>1 DEF ConfRec
  <2>3. conf' = [c \in Configures |-> [conf[c] EXCEPT !.clean = FALSE]]
    BY DEF Connect
  <2> QED
    BY <2>2, <2>3
<1>3. TypeOK'
  BY <1>1, <1>2, TypeIs, TypeIsNext DEF Connect, meta
<1>4. KeyHalf'
  BY <1>2 DEF KeyHalf, Connect, WantsAreWhole, CleanIsAlone, CleanIsRegistered, SoundIsWhole
<1>5. ToldHalf'
  BY <1>1, ToldHalfStays DEF Connect
<1> QED
  BY <1>3, <1>4, <1>5

LEMMA ConfigureStep ==
  ASSUME TypeOK, KeyHalf, ToldHalf,
         NEW c \in Configures, NEW k \in Keys, NEW u \in Urls \cup {None}, Configure(c, k, u)
  PROVE  TypeOK' /\ KeyHalf' /\ ToldHalf'
<1> DEFINE w == [account |-> row.account, key |-> k, url |-> u]
           alone == \A o \in Configures : conf[o].at \in {"new", "done"}
<1>1. w \in Row /\ w.key \in Keys /\ w.account = row.account /\ row.account \in Accounts
  BY TypeIs DEF Row, Configure
<1>2. \A o \in Configures : conf[o] \in ConfRec
  BY TypeIs
<1>3. /\ conf'[c] = [at |-> "register", clean |-> alone, want |-> w]
      /\ \A o \in Configures \ {c} : conf'[o] = [conf[o] EXCEPT !.clean = FALSE]
  BY DEF Configure
<1>4. conf'[c] \in ConfRec
  BY <1>1, <1>3 DEF ConfRec
<1>5. \A o \in Configures \ {c} :
        /\ conf'[o] \in ConfRec /\ ~conf'[o].clean
        /\ conf'[o].at = conf[o].at /\ conf'[o].want = conf[o].want
  BY <1>2, <1>3 DEF ConfRec
<1>6. conf' \in [Configures -> ConfRec]
  BY <1>4, <1>5 DEF Configure
<1>7. TypeOK'
  BY <1>6, TypeIs, TypeIsNext DEF Configure, meta, bounds, seen
<1>8. UNCHANGED <<row, meta, ex, live, bounds, seen>>
  BY DEF Configure
<1>9. WantsAreWhole'
  BY <1>1, <1>3, <1>5 DEF KeyHalf, WantsAreWhole
<1>10. CleanIsAlone' /\ CleanIsRegistered'
  BY <1>1, <1>3, <1>5, <1>8 DEF CleanIsAlone, CleanIsRegistered
<1>11. SoundIsWhole'
  BY <1>8 DEF KeyHalf, SoundIsWhole, KeysAgree, meta, seen
<1>12. ToldHalf'
  BY <1>8, ToldHalfStays DEF seen
<1> QED
  BY <1>7, <1>9, <1>10, <1>11, <1>12 DEF KeyHalf

\* What the end of a request, and its way to the UPDATE, make of the requests.
LEMMA ConfMoves ==
  ASSUME TypeOK, NEW c \in Configures
  PROVE  /\ ConfEnds(c) => /\ conf' \in [Configures -> ConfRec]
                           /\ conf'[c].at = "done" /\ ~conf'[c].clean
                           /\ \A o \in Configures \ {c} : conf'[o] = conf[o]
         /\ ConfStores(c) => /\ conf' \in [Configures -> ConfRec]
                             /\ conf'[c].at = "store" /\ conf'[c].clean = conf[c].clean
                             /\ conf'[c].want = conf[c].want
                             /\ \A o \in Configures \ {c} : conf'[o] = conf[o]
<1>1. conf \in [Configures -> ConfRec]
  BY TypeIs
<1>2. ASSUME ConfEnds(c)
      PROVE  /\ conf' \in [Configures -> ConfRec]
             /\ conf'[c].at = "done" /\ ~conf'[c].clean
             /\ \A o \in Configures \ {c} : conf'[o] = conf[o]
  BY <1>1, <1>2, RecordsTyped DEF ConfEnds
<1>3. ASSUME ConfStores(c)
      PROVE  /\ conf' \in [Configures -> ConfRec]
             /\ conf'[c].at = "store" /\ conf'[c].clean = conf[c].clean
             /\ conf'[c].want = conf[c].want
             /\ \A o \in Configures \ {c} : conf'[o] = conf[o]
  <2>1. [conf[c] EXCEPT !.at = "store"] \in ConfRec
    BY <1>1 DEF ConfRec
  <2> QED
    BY <1>1, <1>3, <2>1 DEF ConfStores, ConfRec
<1> QED
  BY <1>2, <1>3

LEMMA RegisterStep ==
  ASSUME TypeOK, KeyHalf, ToldHalf, NEW c \in Configures, Register(c)
  PROVE  TypeOK' /\ KeyHalf' /\ ToldHalf'
<1> DEFINE n == NumberOf[conf[c].want.account]
<1>1. /\ conf[c].at = "register" /\ conf[c] \in ConfRec
      /\ conf[c].want.account \in Accounts /\ conf[c].want.key \in Keys
      /\ n \in Numbers
  BY TypeIs DEF Register, KeyHalf, WantsAreWhole, Numbers
<1>2. UNCHANGED <<row, cached, ex, live, connects, kept, told, times>>
  BY DEF Register
<1>3. Registers(c) => /\ registered' \in [Numbers -> Keys \cup {None}]
                      /\ registered'[n] = conf[c].want.key
  BY <1>1, TypeIs DEF Registers
<1>4. /\ (Registers(c) /\ ConfStores(c)) \/ ConfEnds(c)
      /\ (Registers(c) /\ sound' = FALSE) \/ UNCHANGED <<registered, sound>>
      /\ Fault \/ NoFault
  BY DEF Register
<1>5. conf' \in [Configures -> ConfRec]
  BY <1>4, ConfMoves
<1>6. TypeOK'
  <2>1. registered' \in [Numbers -> Keys \cup {None}] /\ sound' \in BOOLEAN
    BY <1>3, <1>4, TypeIs
  <2>2. faults' \in 0..MaxFaults
    BY <1>4, FaultTyped
  <2> QED
    BY <1>2, <1>5, <2>1, <2>2, TypeIs, TypeIsNext
<1>7. WantsAreWhole'
  BY <1>1, <1>4, ConfMoves DEF KeyHalf, WantsAreWhole
<1>8. CleanIsAlone'
  BY <1>1, <1>2, <1>4, ConfMoves DEF KeyHalf, CleanIsAlone
<1>9. CleanIsRegistered'
  <2> SUFFICES ASSUME NEW o \in Configures, conf'[o].clean, conf'[o].at = "store"
               PROVE  registered'[NumberOf[conf'[o].want.account]] = conf'[o].want.key
    BY DEF CleanIsRegistered
  <2>1. CASE o = c
    BY <1>3, <1>4, <2>1, ConfMoves
  <2>2. CASE o # c
    <3>1. conf'[o] = conf[o]
      BY <1>4, <2>2, ConfMoves
    <3>2. conf[c].at \in {"new", "done"}
      BY <2>2, <3>1 DEF KeyHalf, CleanIsAlone
    <3> QED
      BY <1>1, <3>2
  <2> QED
    BY <2>1, <2>2
<1>10. SoundIsWhole'
  BY <1>2, <1>4 DEF KeyHalf, SoundIsWhole, KeysAgree
<1>11. ToldHalf'
  BY <1>2, ToldHalfStays
<1> QED
  BY <1>6, <1>7, <1>8, <1>9, <1>10, <1>11 DEF KeyHalf

LEMMA StoreStep ==
  ASSUME TypeOK, KeyHalf, ToldHalf, NEW c \in Configures, Store(c)
  PROVE  TypeOK' /\ KeyHalf' /\ ToldHalf'
<1> DEFINE w == conf[c].want
<1>1. /\ conf[c].at = "store" /\ conf[c] \in ConfRec /\ w \in Row
      /\ w.account \in Accounts /\ w.key \in Keys /\ w.url \in Urls \cup {None}
  BY TypeIs DEF Store, KeyHalf, WantsAreWhole, ConfRec, Row
<1>2. UNCHANGED <<registered, cached, ex, live, connects, told, times>> /\ ConfEnds(c)
      /\ (Fault \/ NoFault)
  BY DEF Store, meta
<1>3. /\ conf' \in [Configures -> ConfRec]
      /\ conf'[c].at = "done" /\ ~conf'[c].clean
      /\ \A o \in Configures \ {c} : conf'[o] = conf[o]
  BY <1>2, ConfMoves
<1>4. WantsAreWhole' /\ CleanIsRegistered'
  BY <1>2, <1>3 DEF KeyHalf, WantsAreWhole, CleanIsRegistered
<1>5. CASE UNCHANGED <<row, kept, sound>>
  <2>1. TypeOK'
    BY <1>2, <1>3, <1>5, TypeIs, TypeIsNext, FaultTyped
  <2>2. CleanIsAlone' /\ SoundIsWhole'
    BY <1>2, <1>3, <1>5 DEF KeyHalf, CleanIsAlone, SoundIsWhole, KeysAgree
  <2>3. ToldHalf'
    BY <1>2, <1>5, ToldHalfStays
  <2> QED
    BY <1>4, <2>1, <2>2, <2>3 DEF KeyHalf
<1>6. CASE /\ row' = [row EXCEPT !.key = w.key, !.url = w.url]
           /\ kept' = kept \cup {<<w.key, w.url>>}
           /\ sound' = conf[c].clean
  <2>1. /\ row' \in Row /\ row'.account = row.account
        /\ row'.key = w.key /\ row'.url = w.url
    BY <1>1, <1>6, TypeIs DEF Row
  <2>2. kept' \subseteq Keys \X (Urls \cup {None}) /\ sound' \in BOOLEAN
    BY <1>1, <1>6, TypeIs DEF ConfRec
  <2>3. TypeOK'
    BY <1>2, <1>3, <2>1, <2>2, TypeIs, TypeIsNext, FaultTyped
  <2>4. CleanIsAlone'
    BY <1>2, <1>3, <2>1 DEF KeyHalf, CleanIsAlone
  <2>5. SoundIsWhole'
    <3> SUFFICES ASSUME conf[c].clean
                 PROVE  /\ row'.account \in Accounts /\ row'.key # None
                        /\ registered'[NumberOf[row'.account]] = row'.key
      BY <1>6 DEF SoundIsWhole, KeysAgree
    <3>1. row.account = w.account /\ registered[NumberOf[w.account]] = w.key
      BY <1>1 DEF KeyHalf, CleanIsAlone, CleanIsRegistered
    <3> QED
      BY <1>1, <1>2, <2>1, <3>1, FlowsAssumption
  <2>6. PairsAreKept'
    BY <1>2, <1>6, <2>1 DEF ToldHalf, PairsAreKept
  <2>7. CredentialsAreWhole' /\ NotYetForwarded' /\ ForwardedOnce' /\ SendersAreKnown'
    BY <1>2, <1>6 DEF ToldHalf, CredentialsAreWhole, NotYetForwarded,
       ForwardedOnce, SendersAreKnown
  <2> QED
    BY <1>4, <2>3, <2>4, <2>5, <2>6, <2>7 DEF KeyHalf, ToldHalf
<1> QED
  BY <1>5, <1>6 DEF Store

LEMMA MetaSendsStep ==
  ASSUME TypeOK, KeyHalf, ToldHalf,
         NEW e \in Exchanges, NEW a \in Accounts, NEW ping \in BOOLEAN, MetaSends(e, a, ping)
  PROVE  TypeOK' /\ KeyHalf' /\ ToldHalf'
<1> DEFINE x == [ex[e] EXCEPT !.at = "sent", !.account = a, !.ping = ping,
                              !.key = cached[NumberOf[a]]]
<1>1. UNCHANGED <<row, meta, conf, live, bounds, seen>> /\ ex[e].at = "new"
      /\ ex' = [ex EXCEPT ![e] = x]
  BY DEF MetaSends
<1>2. x \in ExRec /\ x.at = "sent" /\ x.account = a
  <2>1. ex[e] \in ExRec /\ cached[NumberOf[a]] \in Keys \cup {None}
    BY TypeIs DEF Numbers
  <2> QED
    BY <2>1 DEF ExRec
<1>3. /\ ex' \in [Exchanges -> ExRec] /\ ex'[e].at = "sent" /\ ex'[e].account = a
      /\ \A o \in Exchanges \ {e} : ex'[o] = ex[o]
  BY <1>1, <1>2, TypeIs
<1>4. TypeOK'
  BY <1>1, <1>3, TypeIs, TypeIsNext DEF meta, bounds, seen
<1>5. KeyHalf'
  BY <1>1, KeyHalfStays DEF meta, seen
<1>6. ToldHalf'
  BY <1>1, <1>3 DEF ToldHalf, PairsAreKept, CredentialsAreWhole, NotYetForwarded,
                    ForwardedOnce, SendersAreKnown, seen
<1> QED
  BY <1>4, <1>5, <1>6

LEMMA MetaFetchesStep ==
  ASSUME TypeOK, KeyHalf, ToldHalf, NEW n \in Numbers, MetaFetches(n)
  PROVE  TypeOK' /\ KeyHalf' /\ ToldHalf'
<1>1. TypeOK'
  BY TypeIs, TypeIsNext DEF MetaFetches, bounds, seen
<1>2. KeyHalf' /\ ToldHalf'
  BY KeyHalfStays, ToldHalfStays DEF MetaFetches, seen
<1> QED
  BY <1>1, <1>2

LEMMA ExchangeStep ==
  ASSUME TypeOK, KeyHalf, ToldHalf, NEW e \in Exchanges, Exchange(e)
  PROVE  TypeOK' /\ KeyHalf' /\ ToldHalf'
<1>1. UNCHANGED <<row, meta, conf, live, connects, seen>> /\ ex[e].at = "sent"
      /\ (Fault \/ NoFault)
  BY DEF Exchange
<1>2. KeyHalf'
  BY <1>1, KeyHalfStays DEF meta, seen
<1>3. times[e] = 0
  BY <1>1 DEF ToldHalf, NotYetForwarded
<1>4. CASE \E a \in Answers : Answer(e, a)
  <2>1. PICK a \in Answers : Answer(e, a)
    BY <1>4
  <2>2. /\ ex' \in [Exchanges -> ExRec] /\ ex'[e].at = "answered"
        /\ ex'[e].account = ex[e].account
        /\ \A o \in Exchanges \ {e} : ex'[o] = ex[o]
    BY <2>1, AnswerTyped
  <2>3. TypeOK'
    BY <1>1, <2>2, TypeIs, TypeIsNext, FaultTyped DEF meta, seen
  <2>4. PairsAreKept' /\ CredentialsAreWhole'
    BY <1>1, <2>2 DEF ToldHalf, PairsAreKept, CredentialsAreWhole, seen
  <2>5. NotYetForwarded' /\ ForwardedOnce' /\ SendersAreKnown'
    BY <1>1, <1>3, <2>2 DEF ToldHalf, NotYetForwarded, ForwardedOnce, SendersAreKnown, seen
  <2> QED
    BY <1>2, <2>3, <2>4, <2>5 DEF ToldHalf
<1>5. CASE Refusal(e) = None /\ ex' = [ex EXCEPT ![e].at = "forward", ![e].creds = row]
  <2>1. row.key # None /\ ex[e].key = row.key /\ row.url # None
    BY <1>5 DEF Refusal, Decrypts, None
  <2>2. row \in Row /\ ex \in [Exchanges -> ExRec]
    BY TypeIs
  <2> DEFINE x == [ex[e] EXCEPT !.at = "forward", !.creds = row]
  <2>3. x \in ExRec /\ x.at = "forward" /\ x.creds = row /\ x.key = ex[e].key
        /\ x.account = ex[e].account
    BY <2>2 DEF ExRec
  <2>4. /\ ex' \in [Exchanges -> ExRec] /\ ex'[e] = x
        /\ \A o \in Exchanges \ {e} : ex'[o] = ex[o]
    BY <1>5, <2>2, <2>3
  <2>5. TypeOK'
    BY <1>1, <2>4, TypeIs, TypeIsNext, FaultTyped DEF meta, seen
  <2>6. PairsAreKept'
    <3>1. row.url \in Urls /\ <<ex[e].key, row.url>> \in kept
      BY <2>1, <2>2 DEF Row, ToldHalf, PairsAreKept
    <3> QED
      BY <1>1, <2>3, <2>4, <3>1 DEF ToldHalf, PairsAreKept, seen
  <2>7. CredentialsAreWhole' /\ NotYetForwarded' /\ ForwardedOnce' /\ SendersAreKnown'
    BY <1>1, <1>3, <2>3, <2>4 DEF ToldHalf, CredentialsAreWhole, NotYetForwarded,
                                  ForwardedOnce, SendersAreKnown, seen
  <2> QED
    BY <1>2, <2>5, <2>6, <2>7 DEF ToldHalf
<1> QED
  BY <1>4, <1>5 DEF Exchange, Answers, Refusal

\* What a forward tells the handler's URL, and that it has not been told before.
LEMMA ForwardStep ==
  ASSUME TypeOK, KeyHalf, ToldHalf, NEW e \in Exchanges, Forward(e)
  PROVE  TypeOK' /\ KeyHalf' /\ ToldHalf'
<1> DEFINE u == ex[e].creds.url
<1>1. UNCHANGED <<row, meta, conf, live, connects, kept, sound>> /\ ex[e].at = "forward"
      /\ (Fault \/ NoFault) /\ (Reaches(e, u) \/ UNCHANGED <<told, times>>)
  BY DEF Forward
<1>2. \E a \in {"200", "502"} : Answer(e, a)
  BY DEF Forward
<1>3. /\ ex' \in [Exchanges -> ExRec]
      /\ ex'[e].at = "answered" /\ ex'[e].answer # "421" /\ ex'[e].account = ex[e].account
      /\ \A o \in Exchanges \ {e} : ex'[o] = ex[o]
  BY <1>2, AnswerTyped DEF Answers
<1>4. times[e] = 0 /\ times \in [Exchanges -> 0..2]
  BY <1>1, TypeIs DEF ToldHalf, NotYetForwarded
<1>5. u \in Urls /\ <<ex[e].key, u>> \in kept /\ ex[e].key \in Keys
  <2>1. u \in Urls /\ <<ex[e].key, u>> \in kept
    BY <1>1 DEF ToldHalf, PairsAreKept
  <2> QED
    BY <2>1, TypeIs
<1>6. /\ told' \subseteq Keys \X Urls /\ told' \subseteq kept
      /\ times' \in [Exchanges -> 0..2] /\ times'[e] <= 1
      /\ \A o \in Exchanges \ {e} : times'[o] = times[o]
  <2>1. CASE UNCHANGED <<told, times>>
    BY <1>4, <2>1, TypeIs DEF ToldHalf, CredentialsAreWhole
  <2>2. CASE Reaches(e, u)
    BY <1>4, <1>5, <2>2, TypeIs DEF Reaches, ToldHalf, CredentialsAreWhole
  <2> QED
    BY <1>1, <2>1, <2>2
<1>7. TypeOK'
  BY <1>1, <1>3, <1>6, TypeIs, TypeIsNext, FaultTyped DEF meta
<1>8. KeyHalf'
  BY <1>1, KeyHalfStays DEF meta
<1>9. PairsAreKept' /\ CredentialsAreWhole'
  BY <1>1, <1>3, <1>6 DEF ToldHalf, PairsAreKept, CredentialsAreWhole
<1>10. NotYetForwarded' /\ ForwardedOnce' /\ SendersAreKnown'
  BY <1>1, <1>3, <1>6 DEF ToldHalf, NotYetForwarded, ForwardedOnce, SendersAreKnown
<1> QED
  BY <1>7, <1>8, <1>9, <1>10 DEF ToldHalf

LEMMA MetaHearsStep ==
  ASSUME TypeOK, KeyHalf, ToldHalf, NEW e \in Exchanges, MetaHears(e)
  PROVE  TypeOK' /\ KeyHalf' /\ ToldHalf'
<1> DEFINE n == NumberOf[ex[e].account]
           again == [ex[e] EXCEPT !.at = "sent", !.key = registered[n], !.answer = None]
           over == [ex[e] EXCEPT !.at = "done", !.key = None, !.ping = FALSE]
<1>1. UNCHANGED <<row, registered, conf, live, bounds, seen>> /\ ex[e].at = "answered"
  BY DEF MetaHears
<1>2. ex[e] \in ExRec /\ ex[e].account \in Accounts /\ n \in Numbers
  BY <1>1, TypeIs DEF ToldHalf, SendersAreKnown, Numbers
<1>3. KeyHalf'
  BY <1>1, KeyHalfStays DEF seen
<1>4. CASE ex[e].answer = "421"
  <2>1. again \in ExRec /\ again.at = "sent" /\ again.account = ex[e].account
    BY <1>2, TypeIs DEF ExRec
  <2>2. ex' = [ex EXCEPT ![e] = again] /\ cached' = [cached EXCEPT ![n] = registered[n]]
    BY <1>4 DEF MetaHears
  <2>3. /\ ex' \in [Exchanges -> ExRec] /\ ex'[e] = again
        /\ \A o \in Exchanges \ {e} : ex'[o] = ex[o]
    BY <2>1, <2>2, TypeIs
  <2>4. TypeOK'
    BY <1>1, <1>2, <2>2, <2>3, TypeIs, TypeIsNext DEF bounds, seen
  <2>5. times[e] = 0
    BY <1>1, <1>4 DEF ToldHalf, NotYetForwarded
  <2>6. ToldHalf'
    BY <1>1, <1>2, <2>1, <2>3, <2>5 DEF ToldHalf, PairsAreKept, CredentialsAreWhole,
      NotYetForwarded, ForwardedOnce, SendersAreKnown, seen
  <2> QED
    BY <1>3, <2>4, <2>6
<1>5. CASE ex[e].answer # "421"
  <2>1. over \in ExRec /\ over.at = "done" /\ over.account = ex[e].account
    BY <1>2 DEF ExRec
  <2>2. ex' = [ex EXCEPT ![e] = over] /\ UNCHANGED cached
    BY <1>5 DEF MetaHears
  <2>3. /\ ex' \in [Exchanges -> ExRec] /\ ex'[e] = over
        /\ \A o \in Exchanges \ {e} : ex'[o] = ex[o]
    BY <2>1, <2>2, TypeIs
  <2>4. TypeOK'
    BY <1>1, <2>2, <2>3, TypeIs, TypeIsNext DEF bounds, seen
  <2>5. ToldHalf'
    BY <1>1, <1>2, <2>1, <2>3 DEF ToldHalf, PairsAreKept, CredentialsAreWhole,
      NotYetForwarded, ForwardedOnce, SendersAreKnown, seen
  <2> QED
    BY <1>3, <2>4, <2>5
<1> QED
  BY <1>4, <1>5

LEMMA PassOnStep ==
  ASSUME TypeOK, KeyHalf, ToldHalf, PassOn
  PROVE  TypeOK' /\ KeyHalf' /\ ToldHalf'
<1>1. live' \subseteq Accounts
  <2>1. row.account \in Accounts
    BY TypeIs DEF PassOn, Row
  <2> QED
    BY <2>1, TypeIs DEF PassOn
<1>2. TypeOK'
  BY <1>1, TypeIs, TypeIsNext DEF PassOn, meta, bounds, seen
<1>3. KeyHalf' /\ ToldHalf'
  BY KeyHalfStays, ToldHalfStays DEF PassOn, meta, seen
<1> QED
  BY <1>2, <1>3

LEMMA CrashStep ==
  ASSUME TypeOK, KeyHalf, ToldHalf, Crash
  PROVE  TypeOK' /\ KeyHalf' /\ ToldHalf'
<1>1. UNCHANGED <<row, meta, live, connects, seen>> /\ Fault
  BY DEF Crash
<1>2. /\ conf' \in [Configures -> ConfRec]
      /\ \A c \in Configures : conf'[c].at \in {"new", "done"} /\ ~conf'[c].clean
  <2>1. \A c \in Configures : conf[c] \in ConfRec /\ (conf[c].at = "new" => ~conf[c].clean)
    BY TypeIs DEF KeyHalf, CleanIsAlone
  <2>2. conf' = [c \in Configures |-> IF conf[c].at = "new" THEN conf[c] ELSE ConfDone]
    BY DEF Crash
  <2> QED
    BY <2>1, <2>2, RecordsTyped
<1>3. /\ ex' \in [Exchanges -> ExRec]
      /\ \A e \in Exchanges :
           \/ ex'[e] = ex[e] /\ ex[e].at \notin {"sent", "forward"}
           \/ /\ ex[e].at # "new" /\ ex'[e].account = ex[e].account
              /\ ex'[e].at = "answered" /\ ex'[e].answer = "lost"
  <2>1. \A e \in Exchanges :
          LET x == [ex[e] EXCEPT !.at = "answered", !.creds = NoRow, !.answer = "lost"]
          IN /\ x \in ExRec /\ x.at = "answered" /\ x.answer = "lost"
             /\ x.account = ex[e].account
    <3>1. \A e \in Exchanges : ex[e] \in ExRec
      BY TypeIs
    <3> QED
      BY <3>1, RecordsTyped DEF ExRec, Answers
  <2>2. ex' = [e \in Exchanges |->
                IF ex[e].at \in {"sent", "forward"}
                THEN [ex[e] EXCEPT !.at = "answered", !.creds = NoRow, !.answer = "lost"]
                ELSE ex[e]]
    BY DEF Crash
  <2> QED
    BY <2>1, <2>2, TypeIs
<1>4. TypeOK'
  BY <1>1, <1>2, <1>3, TypeIs, TypeIsNext, FaultTyped DEF meta, seen
<1>5. KeyHalf'
  BY <1>1, <1>2 DEF KeyHalf, WantsAreWhole, CleanIsAlone, CleanIsRegistered, SoundIsWhole,
                    KeysAgree, meta, seen
<1>6. ToldHalf'
  BY <1>1, <1>3 DEF ToldHalf, PairsAreKept, CredentialsAreWhole, NotYetForwarded,
                    ForwardedOnce, SendersAreKnown, seen
<1> QED
  BY <1>4, <1>5, <1>6

LEMMA NextFlowsInv == FlowsInv /\ [Next]_vars => FlowsInv'
<1> SUFFICES ASSUME FlowsInv, [Next]_vars PROVE TypeOK' /\ KeyHalf' /\ ToldHalf'
  BY DEF FlowsInv, KeyHalf, ToldHalf
<1>1. TypeOK /\ KeyHalf /\ ToldHalf
  BY DEF FlowsInv, KeyHalf, ToldHalf
<1>2. ASSUME NEW a \in Accounts, Connect(a) PROVE TypeOK' /\ KeyHalf' /\ ToldHalf'
  BY <1>1, <1>2, ConnectStep
<1>3. ASSUME NEW c \in Configures, NEW k \in Keys, NEW u \in Urls \cup {None},
             Configure(c, k, u)
      PROVE  TypeOK' /\ KeyHalf' /\ ToldHalf'
  BY <1>1, <1>3, ConfigureStep
<1>4. ASSUME NEW e \in Exchanges, NEW a \in Accounts, NEW ping \in BOOLEAN,
             MetaSends(e, a, ping)
      PROVE  TypeOK' /\ KeyHalf' /\ ToldHalf'
  BY <1>1, <1>4, MetaSendsStep
<1>5. ASSUME NEW n \in Numbers, MetaFetches(n) PROVE TypeOK' /\ KeyHalf' /\ ToldHalf'
  BY <1>1, <1>5, MetaFetchesStep
<1>6. ASSUME NEW c \in Configures, Register(c) \/ Store(c)
      PROVE  TypeOK' /\ KeyHalf' /\ ToldHalf'
  BY <1>1, <1>6, RegisterStep, StoreStep
<1>7. ASSUME NEW e \in Exchanges, Exchange(e) \/ Forward(e) \/ MetaHears(e)
      PROVE  TypeOK' /\ KeyHalf' /\ ToldHalf'
  BY <1>1, <1>7, ExchangeStep, ForwardStep, MetaHearsStep
<1>8. CASE PassOn
  BY <1>1, <1>8, PassOnStep
<1>9. CASE Crash
  BY <1>1, <1>9, CrashStep
<1>10. CASE UNCHANGED vars
  <2>1. TypeOK'
    BY <1>1, <1>10, TypeIs, TypeIsNext DEF vars, meta, bounds, seen
  <2> QED
    BY <1>1, <1>10, <2>1, KeyHalfStays, ToldHalfStays DEF vars, meta, seen
<1> QED
  BY <1>2, <1>3, <1>4, <1>5, <1>6, <1>7, <1>8, <1>9, <1>10 DEF Next, Goes

\* The inductive invariant of the module holds of every behaviour.
THEOREM FlowsInvariant == Spec => []FlowsInv
<1> QED
  BY InitFlowsInv, NextFlowsInv, PTL DEF Spec

\* After a configure request that met no other, Meta encrypts with the key whose private
\* half is stored.
THEOREM KeysAgreeAlways == Spec => []KeysAgree
<1>1. FlowsInv => KeysAgree
  BY DEF FlowsInv, SoundIsWhole, KeysAgree
<1> QED
  BY <1>1, FlowsInvariant, PTL

\* No exchange is told to a URL that was not stored with the key it was decrypted with.
THEOREM CredentialsStayWhole == Spec => []CredentialsAreWhole
<1>1. FlowsInv => CredentialsAreWhole
  BY DEF FlowsInv
<1> QED
  BY <1>1, FlowsInvariant, PTL

\* No exchange reaches the handler twice, however often Meta asks again.
THEOREM StepsReachOnce == Spec => []ForwardedOnce
<1>1. FlowsInv => ForwardedOnce
  BY DEF FlowsInv
<1> QED
  BY <1>1, FlowsInvariant, PTL

-----------------------------------------------------------------------------
(* Cloud accounts.                                                          *)

\* A call of a handler, and the kind of one.
NamedFields == Fields \cup {"object"}
Calls == [touches : SUBSET NamedFields, writes : BOOLEAN]
Kind == [checked : {"never", "first", "late"},
         reads : {"both", "credentials", "thrice", "nothing"}, calls : Seq(Calls)]
CallsOf(k) == Len(k.calls)
GoodKind(k) ==
  /\ k \in Kind
  /\ Len(k.calls) \in 1..3
  /\ k.reads \in {"both", "thrice"} =>
       \A i \in 1..Len(k.calls) : k.calls[i].writes => i = Len(k.calls)

LEMMA OneCall ==
  ASSUME NEW c \in Calls
  PROVE  GoodKind(Admin(<<c>>)) /\ GoodKind(Plain(<<c>>))
<1>1. <<c>> \in Seq(Calls) /\ Len(<<c>>) = 1
  OBVIOUS
<1> QED BY <1>1 DEF GoodKind, Kind, Admin, Plain

LEMMA CallsAreCalls ==
  \A T \in SUBSET NamedFields : Ask(T) \in Calls /\ Change(T) \in Calls
  BY DEF Calls, Ask, Change

LEMMA CheckedIsGood ==
  ASSUME NEW k, GoodKind(k)
  PROVE  GoodKind(Checked(k)) /\ GoodKind(CheckedLate(k))
<1>1. k \in Kind
  BY DEF GoodKind
<1>2. Checked(k) \in Kind /\ CheckedLate(k) \in Kind
  BY <1>1 DEF Kind, Checked, CheckedLate
<1>3. /\ Checked(k).reads = k.reads /\ CheckedLate(k).reads = k.reads
      /\ Checked(k).calls = k.calls /\ CheckedLate(k).calls = k.calls
  BY <1>1 DEF Kind, Checked, CheckedLate
<1> QED BY <1>2, <1>3 DEF GoodKind

LEMMA ShapesAreGood ==
  ASSUME NEW f \in NamedFields
  PROVE  /\ GoodKind(Get(f)) /\ GoodKind(Post(f))
         /\ GoodKind(Fetch(f)) /\ GoodKind(Send(f))
         /\ GoodKind(Checked(Get(f))) /\ GoodKind(Checked(Post(f)))
         /\ GoodKind(Checked(Send(f))) /\ GoodKind(CheckedLate(Send(f)))
<1>1. Ask({f}) \in Calls /\ Change({f}) \in Calls
  BY CallsAreCalls
<1>2. /\ GoodKind(Get(f)) /\ GoodKind(Post(f))
      /\ GoodKind(Fetch(f)) /\ GoodKind(Send(f))
  BY <1>1, OneCall DEF Get, Post, Fetch, Send
<1> QED BY <1>2, CheckedIsGood

\* The handlers of one call, and those of more.
Shapes ==
  UNION {{Get(f), Post(f), Fetch(f), Send(f), Checked(Get(f)),
          Checked(Post(f)), Checked(Send(f)), CheckedLate(Send(f))} : f \in NamedFields}

\* The groups of handlers that make one call.
SingleCalls ==
  {AccountReads, Registration, Subscriptions, Templates, TemplateById, QrCodes,
   Blocking, Analytics, FlowAdmin, Orders, Commerce, Texts, Attachments,
   Interactives, FlowCalls}

LEMMA OneCallGroups ==
  ASSUME NEW k, NEW g \in SingleCalls,
         k \in Range(g)
  PROVE  GoodKind(k)
<1>1. Fields \subseteq NamedFields /\ "object" \in NamedFields
  BY DEF NamedFields
<1>2. \A h \in Shapes : GoodKind(h)
  BY ShapesAreGood DEF Shapes
<1>3. Range(AccountReads) \subseteq Shapes
  BY <1>1 DEF Range, AccountReads, Shapes, Fields
<1>4. Range(Registration) \subseteq Shapes
  BY <1>1 DEF Range, Registration, Shapes, Fields
<1>5. Range(Subscriptions) \subseteq Shapes
  BY <1>1 DEF Range, Subscriptions, Shapes, Fields
<1>6. Range(Templates) \subseteq Shapes
  BY <1>1 DEF Range, Templates, Shapes, Fields
<1>7. Range(TemplateById) \subseteq Shapes
  BY <1>1 DEF Range, TemplateById, Shapes, Fields
<1>8. Range(QrCodes) \subseteq Shapes
  BY <1>1 DEF Range, QrCodes, Shapes, Fields
<1>9. Range(Blocking) \subseteq Shapes
  BY <1>1 DEF Range, Blocking, Shapes, Fields
<1>10. Range(Analytics) \subseteq Shapes
  BY <1>1 DEF Range, Analytics, Shapes, Fields
<1>11. Range(FlowAdmin) \subseteq Shapes
  BY <1>1 DEF Range, FlowAdmin, Shapes, Fields
<1>12. Range(Orders) \subseteq Shapes
  BY <1>1 DEF Range, Orders, Shapes, Fields
<1>13. Range(Commerce) \subseteq Shapes
  BY <1>1 DEF Range, Commerce, Shapes, Fields
<1>14. Range(Texts) \subseteq Shapes
  BY <1>1 DEF Range, Texts, Shapes, Fields
<1>15. Range(Attachments) \subseteq Shapes
  BY <1>1 DEF Range, Attachments, Shapes, Fields
<1>16. Range(Interactives) \subseteq Shapes
  BY <1>1 DEF Range, Interactives, Shapes, Fields
<1>17. Range(FlowCalls) \subseteq Shapes
  BY <1>1 DEF Range, FlowCalls, Shapes, Fields
<1> QED BY <1>2, <1>3, <1>4, <1>5, <1>6, <1>7, <1>8, <1>9, <1>10, <1>11, <1>12, <1>13, <1>14,
           <1>15, <1>16, <1>17 DEF SingleCalls
LEMMA ThreeCalls ==
  ASSUME NEW a \in Calls, NEW b \in Calls, NEW c \in Calls, ~a.writes, ~b.writes
  PROVE  GoodKind(Admin(<<a, b>> \o <<c>>))
<1> DEFINE u == <<a, b>> \o <<c>>
<1>1. <<a, b>> \in Seq(Calls) /\ <<c>> \in Seq(Calls)
  OBVIOUS
<1>2. u \in Seq(Calls) /\ Len(u) = 3
  BY <1>1
<1>3. u[1] = a /\ u[2] = b
  BY <1>1
<1>4. \A i \in 1..3 : u[i].writes => i = 3
  <2>1. \A i \in 1..3 : i = 1 \/ i = 2 \/ i = 3
    OBVIOUS
  <2> HIDE DEF u
  <2> QED BY <1>3, <2>1
<1> HIDE DEF u
<1>5. GoodKind(Admin(u))
  <2>1. /\ Admin(u).calls = u
        /\ Admin(u) \in Kind
    BY <1>2 DEF Kind, Admin
  <2>2. \A i \in 1..Len(Admin(u).calls) :
          Admin(u).calls[i].writes => i = Len(Admin(u).calls)
    BY <1>2, <1>4, <2>1
  <2>3. Len(Admin(u).calls) \in 1..3
    BY <1>2, <2>1
  <2> QED BY <2>1, <2>2, <2>3 DEF GoodKind
<1> QED BY <1>5 DEF u

\* The photo of the profile is changed by the last of three calls.
LEMMA GoodProfile ==
  ASSUME NEW k \in Range(Profile)
  PROVE  GoodKind(k)
<1> DEFINE calls == Upload \o <<Change({"number"})>>
<1>1. "number" \in NamedFields /\ {"app"} \in SUBSET NamedFields /\ {} \in SUBSET NamedFields
  BY DEF NamedFields, Fields
<1>2. /\ Ask({"app"}) \in Calls /\ Ask({}) \in Calls /\ Change({"number"}) \in Calls
      /\ ~Ask({"app"}).writes /\ ~Ask({}).writes
  BY <1>1, CallsAreCalls DEF Ask
<1>6. GoodKind(Admin(calls))
  BY <1>2, ThreeCalls DEF Upload
<1>7. GoodKind(CheckedLate(Admin(calls)))
  BY <1>6, CheckedIsGood
<1>8. Range(Profile) \subseteq
        {Get("number"), Checked(Post("number")), CheckedLate(Admin(calls))}
  BY DEF Range, Profile
<1>9. /\ GoodKind(Get("number")) /\ GoodKind(Checked(Post("number")))
  BY <1>1, ShapesAreGood
<1> QED BY <1>7, <1>8, <1>9

\* Two questions in a row.
LEMMA TwoAsks ==
  ASSUME NEW T \in SUBSET NamedFields, NEW c \in Calls
  PROVE  GoodKind(Plain(<<Ask(T), c>>))
<1>1. <<Ask(T), c>> \in Seq(Calls) /\ Len(<<Ask(T), c>>) = 2
  BY CallsAreCalls
<1> QED BY <1>1 DEF GoodKind, Kind, Plain

LEMMA GoodMedia ==
  ASSUME NEW k \in Range(Media) \cup {MediaMessage}
  PROVE  GoodKind(k)
<1>1. "object" \in NamedFields /\ "number" \in NamedFields
  BY DEF NamedFields, Fields
<1>2. Ask({"object"}) \in Calls /\ Change({"number"}) \in Calls
  BY <1>1, CallsAreCalls
<1>3. /\ GoodKind(Plain(<<Ask({"object"}), Ask({"object"})>>))
      /\ GoodKind(Plain(<<Ask({"number"}), Change({"number"})>>))
  BY <1>1, <1>2, TwoAsks
<1>4. GoodKind(MediaMessage)
  BY <1>3, CheckedIsGood DEF MediaMessage
<1>5. Range(Media) \subseteq
        {CheckedLate(Send("number")), Fetch("object"), Send("object"),
         Plain(<<Ask({"object"}), Ask({"object"})>>)}
  BY DEF Range, Media
<1> QED BY <1>1, <1>3, <1>4, <1>5, ShapesAreGood

LEMMA GoodCredit ==
  ASSUME NEW k \in Range(Credit)
  PROVE  GoodKind(k)
<1>1. {"object", "business", "waba"} \subseteq NamedFields
  BY DEF NamedFields, Fields
<1>2. GoodKind(Checked(Admin(<<Change({"object", "waba"})>>)))
  BY <1>1, CallsAreCalls, OneCall, CheckedIsGood
<1>3. Range(Credit) \subseteq
        {Get("business"), Checked(Get("object")), Checked(Post("object")),
         Checked(Admin(<<Change({"object", "waba"})>>))}
  BY DEF Range, Credit
<1> QED BY <1>1, <1>2, <1>3, ShapesAreGood

LEMMA GoodUsers ==
  ASSUME NEW k \in Range(Users)
  PROVE  GoodKind(k)
<1>1. {"business", "waba"} \subseteq NamedFields
  BY DEF NamedFields, Fields
<1>2. GoodKind(Admin(<<Ask({"waba", "business"})>>))
  BY <1>1, CallsAreCalls, OneCall
<1>3. Range(Users) \subseteq
        {Admin(<<Ask({"waba", "business"})>>), Get("business"),
         Checked(Post("waba"))}
  BY DEF Range, Users
<1> QED BY <1>1, <1>2, <1>3, ShapesAreGood

LEMMA GoodTokenCheck ==
  ASSUME NEW k \in Range(TokenCheck)
  PROVE  GoodKind(k)
<1> DEFINE plain == Admin(<<Ask({})>>)
<1>1. GoodKind(plain)
  BY CallsAreCalls, OneCall
<1>2. k = [plain EXCEPT !.reads = "thrice"]
  BY DEF Range, TokenCheck
<1> HIDE DEF plain
<1>3. k \in Kind /\ k.calls = plain.calls /\ plain.reads = "both"
  <2>1. plain.reads = "both" 
    BY DEF plain, Admin
  <2> QED BY <1>1, <1>2, <2>1 DEF GoodKind, Kind
<1> QED BY <1>1, <1>3 DEF GoodKind

LEMMA GoodSignup == GoodKind(Signup)
<1>1. {"app"} \in SUBSET NamedFields /\ {"waba"} \in SUBSET NamedFields
  BY DEF NamedFields, Fields
<1>2. Ask({"app"}) \in Calls /\ Change({"waba"}) \in Calls /\ Ask({"waba"}) \in Calls
  BY <1>1, CallsAreCalls
<1>3. SignupCalls \in Seq(Calls) /\ Len(SignupCalls) = 3
  BY <1>2 DEF SignupCalls
<1> QED BY <1>3 DEF GoodKind, Kind, Signup

\* Every handler makes one to three calls; one that may blame its caller for a refusal
\* changes nothing before its last call.
LEMMA KindsAreGood ==
  ASSUME NEW k \in Kinds
  PROVE  GoodKind(k)
<1> DEFINE others == {TokenCheck, Profile, Credit, Users, Media}
<1>1. CASE \E g \in SingleCalls : k \in Range(g)
  BY <1>1, OneCallGroups
<1>2. CASE \E g \in others : k \in Range(g)
  BY <1>2, GoodTokenCheck, GoodProfile, GoodCredit, GoodUsers, GoodMedia
<1>3. CASE k \in {MediaMessage, Signup}
  BY <1>3, GoodMedia, GoodSignup
<1>4. \/ \E g \in SingleCalls \cup others : k \in Range(g)
      \/ k \in {MediaMessage, Signup}
  <2> DEFINE all == {AccountReads, Registration, TokenCheck, Profile, Subscriptions,
                     Templates, TemplateById, QrCodes, Blocking, Analytics,
                     Credit, Users, FlowAdmin, Orders, Commerce, Media, Texts,
                     Attachments, Interactives, FlowCalls}
             more == UNION {Range(g) : g \in all}
             rest == {MediaMessage, Signup}
  <2>1. Kinds = more \cup rest
    BY DEF Kinds
  <2>2. k \in more \/ k \in rest
    <3> HIDE DEF more, rest
    <3> QED BY <2>1
  <2>3. all = SingleCalls \cup others
    BY DEF SingleCalls
  <2> HIDE DEF others, all
  <2>4. ASSUME k \in more
        PROVE  \E g \in all : k \in Range(g)
    <3>1. PICK S \in {Range(g) : g \in all} : k \in S
      BY <2>4
    <3> QED BY <3>1
  <2> QED BY <2>2, <2>3, <2>4
<1> QED BY <1>1, <1>2, <1>3, <1>4
-----------------------------------------------------------------------------
(* Cloud accounts: one request.                                            *)

IdOrNone == Ids \cup {NoId}
AReq == [at : Steps, kind : Kinds \cup {NoKind}, object : IdOrNone,
         token : Accounts \cup {None}, ids : Accounts \cup {None}, step : Nat,
         calls : SUBSET Logged, changed : SUBSET (1..3), answer : Replies \cup {None}]

\* What a call touches belongs to its account, unless the request saw another one.
OwnCalls(q, D) ==
  \A c \in q.calls :
    /\ c.token = q.token /\ c.token \in D
    /\ D = {c.token} => c.touched \subseteq IdsOf(c.token) \cup {q.object}

\* What request q, during which the session had the accounts D, is at each of its steps:
\* at a call it has made all the changes of the calls before, and nothing else.
FitsWith(q, D) ==
  /\ q \in AReq /\ D \subseteq Accounts
  /\ q.step \in 0..CallsOf(q.kind)
  /\ q.at \notin {"new", "done"} => q.kind \in Kinds /\ q.answer = None
  /\ q.at = "new" => q = NewRequest
  /\ q.at \in {"credentials", "ids", "again"} =>
       q.step = 0 /\ q.calls = {} /\ q.changed = {}
  /\ q.at \in {"ids", "again", "call"} => q.token \in D /\ q.ids \in D
  /\ q.at = "call" =>
       /\ q.step < CallsOf(q.kind)
       /\ q.changed = {i \in 1..q.step : q.kind.calls[i].writes}
  /\ OwnCalls(q, D)
  /\ q.answer \in {"400", "404"} => q.changed = {}
  /\ q.answer = "200" => q.changed = Writes(q.kind)

AccountInv ==
  /\ attached \in Accounts \cup {"web", "gone"}
  /\ req \in [Requests -> AReq] /\ during \in [Requests -> SUBSET Accounts]
  /\ connects \in 0..MaxConnects /\ faults \in 0..MaxFaults
  /\ \A r \in Requests : FitsWith(req[r], during[r])
  /\ \A r \in Requests : Running(r) /\ attached \in Accounts => attached \in during[r]

LEMMA NoKindIsKind == NoKind \in Kind /\ NoKind.calls = <<>>
<1>1. <<>> \in Seq(Calls)
  OBVIOUS
<1> QED BY <1>1 DEF NoKind, Kind

LEMMA NewRequestTyped ==
  /\ NewRequest \in AReq
  /\ NewRequest.at = "new" /\ NewRequest.step = 0 /\ NewRequest.calls = {}
  /\ NewRequest.changed = {} /\ NewRequest.answer = None
  /\ NewRequest.kind = NoKind
  BY DEF AReq, NewRequest, IdOrNone, Steps

LEMMA AccountInvInit == AccountInit => AccountInv
<1> SUFFICES ASSUME AccountInit
             PROVE  AccountInv
  OBVIOUS
<1>1. \A r \in Requests : req[r] = NewRequest /\ during[r] = {}
  BY DEF AccountInit
<1>2. \A r \in Requests : FitsWith(req[r], during[r])
  <2>1. NewRequest.answer \notin {"200", "400", "404"}
    BY NewRequestTyped DEF None
  <2>2. 0 \in 0..CallsOf(NewRequest.kind)
    BY NewRequestTyped, NoKindIsKind DEF CallsOf
  <2>3. OwnCalls(NewRequest, {})
    BY NewRequestTyped DEF OwnCalls
  <2> QED BY <1>1, <2>1, <2>2, <2>3, NewRequestTyped DEF FitsWith
<1>3. \A r \in Requests : ~Running(r)
  BY <1>1, NewRequestTyped DEF Running
<1>4. req \in [Requests -> AReq] /\ during \in [Requests -> SUBSET Accounts]
  BY NewRequestTyped DEF AccountInit
<1> QED BY <1>2, <1>3, <1>4, CloudAssumption DEF AccountInv, AccountInit

\* An account that was attached while the request runs changes nothing for it.
LEMMA MoreAccounts ==
  ASSUME NEW q, NEW D, NEW a \in Accounts, FitsWith(q, D)
  PROVE  FitsWith(q, D \cup {a})
<1>1. OwnCalls(q, D \cup {a})
  <2> SUFFICES ASSUME NEW c \in q.calls
               PROVE  /\ c.token = q.token /\ c.token \in D \cup {a}
                      /\ D \cup {a} = {c.token} =>
                           c.touched \subseteq IdsOf(c.token) \cup {q.object}
    BY DEF OwnCalls
  <2>1. /\ c.token = q.token /\ c.token \in D
        /\ D = {c.token} => c.touched \subseteq IdsOf(c.token) \cup {q.object}
    BY DEF FitsWith, OwnCalls
  <2>2. D \cup {a} = {c.token} => D = {c.token}
    BY <2>1
  <2> QED BY <2>1, <2>2
<1> QED BY <1>1 DEF FitsWith

LEMMA AttachStep ==
  ASSUME AccountInv, NEW a \in Accounts, Attach(a)
  PROVE  AccountInv'
<1>1. \A r \in Requests : during'[r] = IF Running(r) THEN during[r] \cup {a} ELSE during[r]
  BY DEF Attach, AccountInv
<1>2. \A r \in Requests : FitsWith(req[r], during'[r])
  <2> SUFFICES ASSUME NEW r \in Requests
               PROVE  FitsWith(req[r], during'[r])
    OBVIOUS
  <2>1. FitsWith(req[r], during[r])
    BY DEF AccountInv
  <2>2. FitsWith(req[r], during[r] \cup {a})
    BY <2>1, MoreAccounts
  <2> QED BY <1>1, <2>1, <2>2
<1>3. UNCHANGED req /\ attached' = a /\ UNCHANGED faults
  BY DEF Attach
<1>4. \A r \in Requests : FitsWith(req[r], during[r])'
  BY <1>2, <1>3
<1>5. \A r \in Requests : Running(r)' => attached' \in during'[r]
  BY <1>1, <1>3 DEF Running
<1>6. during' \in [Requests -> SUBSET Accounts]
  BY DEF Attach, AccountInv
<1>7. connects' \in 0..MaxConnects
  BY CloudAssumption DEF Attach, AccountInv
<1> QED BY <1>3, <1>4, <1>5, <1>6, <1>7 DEF AccountInv

\* A step of one request.
LEMMA OneStep ==
  ASSUME AccountInv, NEW r \in Requests, NEW q \in AReq,
         NEW D \in SUBSET Accounts,
         req' = [req EXCEPT ![r] = q], during' = [during EXCEPT ![r] = D],
         FitsWith(q, D),
         q.at \notin {"new", "done"} /\ attached \in Accounts => attached \in D,
         UNCHANGED <<attached, connects>>, faults' \in 0..MaxFaults
  PROVE  AccountInv'
<1>1. req' \in [Requests -> AReq] /\ during' \in [Requests -> SUBSET Accounts]
  BY DEF AccountInv
<1>2. \A o \in Requests : FitsWith(req'[o], during'[o])
  BY DEF AccountInv
<1>3. \A o \in Requests : req'[o].at \notin {"new", "done"} /\ attached \in Accounts =>
                            attached \in during'[o]
  BY DEF AccountInv, Running
<1> QED BY <1>1, <1>2, <1>3 DEF AccountInv, Running
LEMMA ReceiveStep ==
  ASSUME AccountInv, NEW r \in Requests, NEW kind \in Kinds,
         NEW o \in IdOrNone, NEW a \in Accounts \cup {None}, Receive(r, kind, o, a)
  PROVE  AccountInv'
<1> DEFINE begun == [NewRequest EXCEPT !.kind = kind, !.object = o, !.token = a, !.ids = a]
           D == (({attached} \cap Accounts) \cup {a}) \ {None}
<1>1. /\ begun \in AReq /\ begun.kind = kind /\ begun.token = a /\ begun.ids = a
      /\ begun.calls = {} /\ begun.changed = {} /\ begun.step = 0 /\ begun.answer = None
      /\ begun.object = o
  BY NewRequestTyped DEF AReq
<1>2. kind.reads = "nothing" => a \in Accounts /\ a \in D
  BY CloudAssumption DEF Receive
<1>3. D \in SUBSET Accounts /\ (attached \in Accounts => attached \in D)
  BY CloudAssumption
<1>4. during' = [during EXCEPT ![r] = D]
  BY DEF Receive
<1>5. UNCHANGED <<attached, connects>> /\ faults' \in 0..MaxFaults
  BY DEF Receive, AccountInv
<1>6. GoodKind(kind)
  BY KindsAreGood
<1>7. /\ kind \in Kind /\ CallsOf(kind) \in 1..3
  BY <1>6 DEF GoodKind, CallsOf
<1>a. kind.calls \in Seq(Calls)
  BY <1>7 DEF Kind
<1> DEFINE goes == [begun EXCEPT
                      !.at = IF kind.reads = "nothing" THEN "call" ELSE "credentials"]
           ends == [begun EXCEPT !.at = "done", !.answer = "400"]
<1>8. CASE req' = [req EXCEPT ![r] = goes]
  <2>1. /\ goes \in AReq /\ goes.kind = kind /\ goes.token = a /\ goes.ids = a
        /\ goes.calls = {} /\ goes.changed = {} /\ goes.step = 0 /\ goes.answer = None
        /\ goes.at = IF kind.reads = "nothing" THEN "call" ELSE "credentials"
    <3> HIDE DEF begun
    <3> QED BY <1>1 DEF AReq, Steps
  <2> HIDE DEF goes, D
  <2>2. goes.changed = {i \in 1..goes.step : goes.kind.calls[i].writes}
    BY <2>1
  <2>3. OwnCalls(goes, D)
    BY <2>1 DEF OwnCalls
  <2>4. goes.at \in {"call", "credentials"} /\ (goes.at = "call" => kind.reads = "nothing")
    BY <2>1
  <2>5. /\ goes.step \in 0..CallsOf(goes.kind) /\ goes.step < CallsOf(goes.kind)
        /\ goes.answer \notin {"200", "400", "404"}
    BY <1>7, <2>1 DEF None
  <2>6. goes.at = "call" => goes.token \in D /\ goes.ids \in D
    BY <1>2, <2>1, <2>4
  <2>7. FitsWith(goes, D)
    BY <1>3, <2>1, <2>2, <2>3, <2>4, <2>5, <2>6 DEF FitsWith
  <2> QED BY <1>3, <1>4, <1>5, <1>8, <2>1, <2>4, <2>7, OneStep
<1>9. CASE req' = [req EXCEPT ![r] = ends]
  <2>1. /\ ends \in AReq /\ ends.kind = kind
        /\ ends.calls = {} /\ ends.changed = {} /\ ends.step = 0 /\ ends.answer = "400"
        /\ ends.at = "done"
    <3> HIDE DEF begun
    <3> QED BY <1>1 DEF AReq, Steps, Replies
  <2> HIDE DEF ends, D
  <2>2. OwnCalls(ends, D)
    BY <2>1 DEF OwnCalls
  <2>3. FitsWith(ends, D)
    BY <1>3, <1>7, <1>a, <2>1, <2>2 DEF FitsWith, None
  <2> QED BY <1>3, <1>4, <1>5, <1>9, <2>1, <2>3, OneStep
<1> QED BY <1>8, <1>9 DEF Receive

\* What is known of a request under way.
LEMMA Underway ==
  ASSUME AccountInv, NEW r \in Requests, Running(r)
  PROVE  /\ req[r] \in AReq /\ during[r] \in SUBSET Accounts
         /\ FitsWith(req[r], during[r])
         /\ attached \in Accounts => attached \in during[r]
         /\ req[r].kind \in Kinds /\ GoodKind(req[r].kind)
         /\ CallsOf(req[r].kind) \in 1..3
         /\ req[r].kind.calls \in Seq(Calls)
         /\ during = [during EXCEPT ![r] = during[r]]
         /\ req[r].answer = None
<1>1. FitsWith(req[r], during[r])
  BY DEF AccountInv
<1>2. req[r].kind \in Kinds /\ req[r].answer = None
  BY <1>1 DEF FitsWith, Running
<1>3. GoodKind(req[r].kind)
  BY <1>2, KindsAreGood
<1>4. req[r].kind.calls \in Seq(Calls) /\ CallsOf(req[r].kind) \in 1..3
  BY <1>3 DEF GoodKind, Kind, CallsOf
<1>5. during = [during EXCEPT ![r] = during[r]]
  BY DEF AccountInv
<1> QED BY <1>1, <1>2, <1>3, <1>4, <1>5 DEF AccountInv

\* A refusal before the first call, or a failure that may be one of waxum's own.
LEMMA AnswerStep ==
  ASSUME AccountInv, NEW r \in Requests, Running(r),
         NEW a \in {"400", "404", "500"}, Reply(r, a),
         a \in {"400", "404"} => req[r].changed = {},
         UNCHANGED <<attached, connects, during>>, faults' \in 0..MaxFaults
  PROVE  AccountInv'
<1> DEFINE q == [req[r] EXCEPT !.at = "done", !.answer = a]
           D == during[r]
<1>1. req' = [req EXCEPT ![r] = q] /\ during' = [during EXCEPT ![r] = D]
  BY Underway DEF Reply, AccountInv
<1>2. /\ q \in AReq /\ q.at = "done" /\ q.answer = a
      /\ q.kind = req[r].kind /\ q.step = req[r].step /\ q.calls = req[r].calls
      /\ q.changed = req[r].changed /\ q.token = req[r].token /\ q.object = req[r].object
  BY Underway DEF AReq, Steps, Replies
<1> HIDE DEF q
<1>3. OwnCalls(q, D)
  BY <1>2, Underway DEF OwnCalls, FitsWith
<1>4. FitsWith(q, D)
  BY <1>2, <1>3, Underway DEF FitsWith
<1> QED BY <1>1, <1>2, <1>4, Underway, OneStep

\* The answer to a failed statement.
LEMMA FailuresTyped ==
  ASSUME AccountInv, Fault \/ NoFault
  PROVE  faults' \in 0..MaxFaults
  BY CloudAssumption DEF AccountInv, Fault, NoFault

\* A read that goes on with another account, or the same.
LEMMA ReadStep ==
  ASSUME AccountInv, NEW r \in Requests,
         req[r].at \in {"credentials", "ids", "again"}, NEW q \in AReq,
         q.kind = req[r].kind, q.step = req[r].step, q.calls = req[r].calls,
         q.changed = req[r].changed, q.answer = req[r].answer,
         q.at \in {"ids", "again", "call"}, q.token \in during[r], q.ids \in during[r],
         req' = [req EXCEPT ![r] = q],
         UNCHANGED <<attached, connects, during>>, faults' \in 0..MaxFaults
  PROVE  AccountInv'
<1>1. Running(r)
  BY DEF Running
<1>2. req[r].step = 0 /\ req[r].calls = {} /\ req[r].changed = {}
  BY <1>1, Underway DEF FitsWith
<1>3. OwnCalls(q, during[r])
  BY <1>2 DEF OwnCalls
<1>4. q.step < CallsOf(q.kind)
  <2>1. CallsOf(req[r].kind) \in 1..3
    BY <1>1, Underway
  <2> QED BY <1>2, <2>1
<1>5. q.changed = {i \in 1..q.step : q.kind.calls[i].writes}
  BY <1>2
<1>6. FitsWith(q, during[r])
  BY <1>1, <1>2, <1>3, <1>4, <1>5, Underway DEF FitsWith, None
<1> QED BY <1>1, <1>6, Underway, OneStep
\* What a call touches: ids of the account it acts for, if that is all the request saw.
LEMMA TouchedIds ==
  ASSUME AccountInv, NEW r \in Requests, req[r].at = "call",
         NEW f \in NamedFields
  PROVE  /\ IdFor(r, f) \in IdOrNone
         /\ during[r] = {req[r].token} =>
              IdFor(r, f) \in IdsOf(req[r].token) \cup {req[r].object}
<1>1. Running(r)
  BY DEF Running
<1>2. /\ req[r].token \in during[r] /\ req[r].ids \in during[r]
      /\ during[r] \subseteq Accounts /\ req[r] \in AReq
  BY <1>1, Underway DEF FitsWith
<1>3. req[r].object \in IdOrNone
  BY <1>2 DEF AReq
<1>4. \A a \in Accounts, g \in Fields : IdOf[a][g] \in IdOrNone
  BY DEF IdOrNone, Ids
<1>5. CASE f = "object"
  BY <1>3, <1>5 DEF IdFor
<1>6. CASE f = "number"
  <2>1. IdFor(r, f) = IdOf[req[r].token]["number"] /\ "number" \in Fields
    BY <1>6 DEF IdFor, Fields
  <2>2. IdFor(r, f) \in IdsOf(req[r].token)
    BY <2>1 DEF IdsOf
  <2> QED BY <1>2, <1>4, <2>1, <2>2
<1>7. CASE f \notin {"object", "number"}
  <2>1. IdFor(r, f) = IdOf[req[r].ids][f] /\ f \in Fields
    BY <1>7 DEF IdFor, NamedFields
  <2>2. IdFor(r, f) \in IdsOf(req[r].ids)
    BY <2>1 DEF IdsOf
  <2>3. during[r] = {req[r].token} => req[r].ids = req[r].token
    BY <1>2
  <2> QED BY <1>2, <1>4, <2>1, <2>2, <2>3
<1> QED BY <1>5, <1>6, <1>7

LEMMA NextCall ==
  ASSUME AccountInv, NEW r \in Requests, req[r].at = "call"
  PROVE  LET kind == req[r].kind
             n == req[r].step + 1
             touched == {IdFor(r, f) : f \in kind.calls[n].touches}
             calls == Log(r, req[r].token, touched)
         IN /\ n \in 1..CallsOf(kind) /\ n \in 1..3
            /\ kind.calls[n].writes \in BOOLEAN
            /\ calls \subseteq Logged
            /\ \A c \in calls :
                 /\ c.token = req[r].token /\ c.token \in during[r]
                 /\ during[r] = {c.token} =>
                      c.touched \subseteq IdsOf(c.token) \cup {req[r].object}
<1> DEFINE kind == req[r].kind
           n == req[r].step + 1
           touched == {IdFor(r, f) : f \in kind.calls[n].touches}
           new == [token |-> req[r].token, touched |-> touched]
<1>1. Running(r)
  BY DEF Running
<1>2. /\ req[r] \in AReq /\ kind.calls \in Seq(Calls) /\ CallsOf(kind) \in 1..3
      /\ req[r].step < CallsOf(kind)
      /\ req[r].token \in during[r] /\ during[r] \subseteq Accounts
      /\ OwnCalls(req[r], during[r])
  BY <1>1, Underway DEF FitsWith
<1>3. n \in 1..CallsOf(kind) /\ n \in 1..3
  BY <1>2 DEF AReq
<1>4. kind.calls[n] \in Calls
  <2> HIDE DEF kind, n
  <2> QED BY <1>2, <1>3 DEF CallsOf
<1>5. kind.calls[n].touches \subseteq NamedFields /\ kind.calls[n].writes \in BOOLEAN
  <2> HIDE DEF kind, n
  <2> QED BY <1>4 DEF Calls
<1>6. /\ touched \subseteq IdOrNone
      /\ during[r] = {req[r].token} =>
           touched \subseteq IdsOf(req[r].token) \cup {req[r].object}
  <2> HIDE DEF kind, n
  <2> QED BY <1>5, TouchedIds
<1> HIDE DEF touched, kind, n
<1>7. new \in Logged /\ new.token = req[r].token /\ new.touched = touched
  BY <1>2, <1>6 DEF Logged, IdOrNone
<1>8. req[r].calls \subseteq Logged
  BY <1>2 DEF AReq
<1>9. Log(r, req[r].token, touched) = req[r].calls \cup {new}
  BY DEF Log
<1> HIDE DEF new
<1>10. \A c \in req[r].calls \cup {new} :
         /\ c.token = req[r].token /\ c.token \in during[r]
         /\ during[r] = {c.token} =>
              c.touched \subseteq IdsOf(c.token) \cup {req[r].object}
  BY <1>2, <1>6, <1>7 DEF OwnCalls
<1> QED BY <1>3, <1>5, <1>7, <1>8, <1>9, <1>10 DEF touched, kind, n

\* A call after which the request goes on, or ends well.
LEMMA CallStep ==
  ASSUME AccountInv, NEW r \in Requests, Call(r)
  PROVE  AccountInv'
<1> DEFINE kind == req[r].kind
           n == req[r].step + 1
           touched == {IdFor(r, f) : f \in kind.calls[n].touches}
           calls == Log(r, req[r].token, touched)
           logged == [req[r] EXCEPT !.step = n, !.calls = calls]
           done == IF kind.calls[n].writes THEN req[r].changed \cup {n} ELSE req[r].changed
           last == n = CallsOf(kind)
           D == during[r]
<1>1. req[r].at = "call" /\ Running(r)
  BY DEF Call, Running
<1>2. /\ n \in 1..CallsOf(kind) /\ n \in 1..3 /\ n = req[r].step + 1
      /\ calls \subseteq Logged
      /\ \A c \in calls :
           /\ c.token = req[r].token /\ c.token \in D
           /\ D = {c.token} => c.touched \subseteq IdsOf(c.token) \cup {req[r].object}
  BY <1>1, NextCall
<1>3. /\ req[r] \in AReq /\ D \in SUBSET Accounts /\ kind \in Kinds /\ GoodKind(kind)
      /\ during = [during EXCEPT ![r] = D] /\ (attached \in Accounts => attached \in D)
      /\ req[r].token \in D /\ req[r].ids \in D /\ req[r].answer = None
      /\ req[r].step \in Nat
      /\ req[r].changed = {i \in 1..req[r].step : kind.calls[i].writes}
      /\ CallsOf(kind) \in 1..3
  BY <1>1, Underway DEF FitsWith, AReq
<1>4. done = {i \in 1..n : kind.calls[i].writes} /\ done \subseteq 1..3
  <2> HIDE DEF kind
  <2>1. 1..n = (1..req[r].step) \cup {n}
    BY <1>3
  <2>2. done = {i \in 1..n : kind.calls[i].writes}
    BY <1>3, <2>1
  <2> QED BY <1>2, <2>2
<1>5. UNCHANGED <<attached, connects, during>> /\ faults' \in 0..MaxFaults
  BY FailuresTyped DEF Call
<1> DEFINE Done(to, answer, changed) ==
             [logged EXCEPT !.changed = changed, !.at = to, !.answer = answer]
<1>6. ASSUME NEW to \in {"call", "done"}, NEW answer \in {"200", "400", "500", None},
             NEW changed \in SUBSET (1..3),
             req' = [req EXCEPT ![r] = Done(to, answer, changed)],
             to = "call" => ~last /\ answer = None /\ changed = done,
             answer = "400" => changed = {},
             answer = "200" => last /\ changed = done
      PROVE  AccountInv'
  <2> DEFINE q == Done(to, answer, changed)
  <2> HIDE DEF kind, n, calls, done
  <2>0. /\ logged \in AReq /\ logged.step = n /\ logged.calls = calls
        /\ logged.kind = req[r].kind /\ logged.token = req[r].token
        /\ logged.ids = req[r].ids /\ logged.object = req[r].object
    <3>1. n \in Nat /\ calls \in SUBSET Logged /\ req[r] \in AReq
      BY <1>2, <1>3
    <3> QED BY <3>1 DEF AReq
  <2> HIDE DEF logged
  <2>1. /\ q \in AReq /\ q.at = to /\ q.answer = answer /\ q.changed = changed
        /\ q.step = n /\ q.calls = calls /\ q.kind = req[r].kind /\ q.token = req[r].token
        /\ q.ids = req[r].ids /\ q.object = req[r].object
    BY <1>6, <2>0 DEF AReq, Steps, Replies
  <2> HIDE DEF q
  <2>2. OwnCalls(q, D)
    BY <1>2, <2>1 DEF OwnCalls
  <2>3. q.step \in 0..CallsOf(q.kind) /\ (q.at = "call" => q.step < CallsOf(q.kind))
    BY <1>2, <1>3, <1>6, <2>1 DEF kind
  <2>4. q.answer = "200" => q.changed = Writes(q.kind)
    <3>1. SUFFICES ASSUME answer = "200"
                   PROVE  done = Writes(kind)
      BY <1>6, <2>1 DEF kind
    <3>2. n = Len(kind.calls) /\ kind.calls \in Seq(Calls)
      BY <1>1, <1>6, <3>1, Underway DEF CallsOf, kind
    <3>3. DOMAIN kind.calls = 1..n
      BY <3>2
    <3> QED BY <1>4, <3>3 DEF Writes
  <2>5. q.at = "call" => q.changed = {i \in 1..q.step : q.kind.calls[i].writes}
    BY <1>4, <1>6, <2>1 DEF kind
  <2>6. q.answer \in {"400", "404"} => q.changed = {}
    BY <1>6, <2>1 DEF None
  <2>7. FitsWith(q, D)
    BY <1>3, <1>6, <2>1, <2>2, <2>3, <2>4, <2>5, <2>6 DEF FitsWith, kind
  <2>8. q.at \notin {"new", "done"} /\ attached \in Accounts => attached \in D
    BY <1>3
  <2>9. req' = [req EXCEPT ![r] = q] /\ during' = [during EXCEPT ![r] = D]
    BY <1>3, <1>5, <1>6 DEF q
  <2> QED BY <1>3, <1>5, <2>1, <2>7, <2>8, <2>9, OneStep
\* Only the last call of a handler of the first kind can have changed anything.
<1>7. kind.reads \in {"both", "thrice"} => req[r].changed = {}
  <2> SUFFICES ASSUME kind.reads \in {"both", "thrice"}, NEW i \in req[r].changed
               PROVE  FALSE
    BY <1>3
  <2> HIDE DEF kind, n
  <2>1. i \in 1..req[r].step /\ kind.calls[i].writes
    BY <1>3
  <2>2. i \in 1..CallsOf(kind) /\ i # CallsOf(kind)
    BY <1>2, <1>3, <2>1
  <2> QED BY <1>3, <2>1, <2>2 DEF GoodKind, CallsOf
<1>8. \A outcome \in {"refused", "5xx", "lost"} :
        /\ Failure(r, outcome) \in {"400", "500"}
        /\ Failure(r, outcome) = "400" =>
             outcome = "refused" /\ kind.reads \in {"both", "thrice"}
  BY DEF Failure
<1>9. req[r].changed \subseteq 1..3
  BY <1>3 DEF AReq
<1> DEFINE Fails(outcome) == [logged EXCEPT !.at = "done", !.answer = Failure(r, outcome)]
<1>10. ASSUME NEW outcome \in {"refused", "5xx", "lost"}
       PROVE  Fails(outcome) = Done("done", Failure(r, outcome), req[r].changed)
  <2>1. logged = [logged EXCEPT !.changed = req[r].changed]
    <3> HIDE DEF n, calls
    <3> QED BY <1>3 DEF AReq
  <2> HIDE DEF logged
  <2> QED BY <2>1
<1>11. [Fails("lost") EXCEPT !.changed = done] = Done("done", Failure(r, "lost"), done)
  <2> HIDE DEF n, calls, done
  <2> QED BY <1>3 DEF AReq
<1>12. \/ req' = [req EXCEPT ![r] = Done(IF last THEN "done" ELSE "call",
                                         IF last THEN "200" ELSE None, done)]
       \/ \E outcome \in {"refused", "5xx"} : req' = [req EXCEPT ![r] = Fails(outcome)]
       \/ req' = [req EXCEPT ![r] = [Fails("lost") EXCEPT !.changed = done]]
  BY DEF Call, CallsOf
<1>13. CASE req' = [req EXCEPT ![r] = Done(IF last THEN "done" ELSE "call",
                                           IF last THEN "200" ELSE None, done)]
  <2> HIDE DEF Done, done, last
  <2> QED BY <1>4, <1>6, <1>13 DEF None
<1>14. ASSUME NEW outcome \in {"refused", "5xx"}, req' = [req EXCEPT ![r] = Fails(outcome)]
       PROVE  AccountInv'
  <2> HIDE DEF Done, done, last, Fails, kind
  <2> QED BY <1>6, <1>7, <1>8, <1>9, <1>10, <1>14
<1>15. CASE req' = [req EXCEPT ![r] = [Fails("lost") EXCEPT !.changed = done]]
  <2> HIDE DEF Done, done, last, Fails, kind
  <2> QED BY <1>4, <1>6, <1>8, <1>11, <1>15
<1> QED BY <1>12, <1>13, <1>14, <1>15

LEMMA AccountInvNext == AccountInv /\ [AccountNext]_accountVars => AccountInv'
<1> SUFFICES ASSUME AccountInv, [AccountNext]_accountVars
             PROVE  AccountInv'
  OBVIOUS
<1>1. CASE UNCHANGED accountVars
  BY <1>1 DEF AccountInv, accountVars, Running
<1>2. ASSUME NEW a \in Accounts, Attach(a)
      PROVE  AccountInv'
  BY <1>2, AttachStep
<1>3. CASE Delete
  <2>1. attached' \notin Accounts
    BY <1>3, CloudAssumption DEF Delete
  <2> QED BY <1>3, <2>1 DEF Delete, AccountInv, Running
<1>4. ASSUME NEW r \in Requests, NEW kind \in Kinds, NEW o \in Ids \cup {NoId},
             NEW a \in Accounts \cup {None}, Receive(r, kind, o, a)
      PROVE  AccountInv'
  BY <1>4, ReceiveStep DEF IdOrNone
<1>5. ASSUME NEW r \in Requests, ReadCredentials(r)
      PROVE  AccountInv'
  <2>1. Running(r) /\ req[r].at = "credentials" /\ req[r].changed = {}
    BY <1>5, Underway DEF Running, ReadCredentials, FitsWith
  <2>2. UNCHANGED <<attached, connects, during>> /\ faults' \in 0..MaxFaults
    BY <1>5, FailuresTyped DEF ReadCredentials
  <2>3. CASE Reply(r, "400") \/ Reply(r, "500")
    BY <2>1, <2>2, <2>3, AnswerStep
  <2> DEFINE q == [req[r] EXCEPT !.token = attached, !.ids = attached,
                     !.at = IF req[r].kind.reads = "credentials" THEN "call" ELSE "ids"]
  <2>4. CASE attached \in Accounts /\ req' = [req EXCEPT ![r] = q]
    <3>1. /\ q \in AReq /\ q.kind = req[r].kind /\ q.step = req[r].step
          /\ q.calls = req[r].calls /\ q.changed = req[r].changed
          /\ q.answer = req[r].answer /\ q.at \in {"ids", "again", "call"}
          /\ q.token = attached /\ q.ids = attached
      BY <2>1, <2>4, Underway DEF AReq, Steps
    <3>2. attached \in during[r]
      BY <2>1, <2>4, Underway
    <3> HIDE DEF q
    <3> QED BY <2>1, <2>2, <2>4, <3>1, <3>2, ReadStep
  <2> QED BY <1>5, <2>3, <2>4 DEF ReadCredentials
<1>6. ASSUME NEW r \in Requests, ReadIds(r)
      PROVE  AccountInv'
  <2>1. Running(r) /\ req[r].at = "ids" /\ req[r].changed = {} /\ req[r].token \in during[r]
    BY <1>6, Underway DEF Running, ReadIds, FitsWith
  <2>2. UNCHANGED <<attached, connects, during>> /\ faults' \in 0..MaxFaults
    BY <1>6, FailuresTyped DEF ReadIds
  <2>3. CASE Reply(r, "400") \/ Reply(r, "404") \/ Reply(r, "500")
    BY <2>1, <2>2, <2>3, AnswerStep
  <2> DEFINE q == [req[r] EXCEPT !.ids = attached,
                     !.at = IF req[r].kind.reads = "thrice" THEN "again" ELSE "call"]
  <2>4. CASE attached \in Accounts /\ req' = [req EXCEPT ![r] = q]
    <3>1. /\ q \in AReq /\ q.kind = req[r].kind /\ q.step = req[r].step
          /\ q.calls = req[r].calls /\ q.changed = req[r].changed
          /\ q.answer = req[r].answer /\ q.at \in {"ids", "again", "call"}
          /\ q.token = req[r].token /\ q.ids = attached
      BY <2>1, <2>4, Underway DEF AReq, Steps
    <3>2. attached \in during[r]
      BY <2>1, <2>4, Underway
    <3> HIDE DEF q
    <3> QED BY <2>1, <2>2, <2>4, <3>1, <3>2, ReadStep
  <2> QED BY <1>6, <2>3, <2>4 DEF ReadIds
<1>7. ASSUME NEW r \in Requests, ReadAgain(r)
      PROVE  AccountInv'
  <2>1. /\ Running(r) /\ req[r].at = "again" /\ req[r].changed = {}
        /\ req[r].token \in during[r] /\ req[r].ids \in during[r]
    BY <1>7, Underway DEF Running, ReadAgain, FitsWith
  <2>2. UNCHANGED <<attached, connects, during>> /\ faults' \in 0..MaxFaults
    BY <1>7, FailuresTyped DEF ReadAgain
  <2>3. CASE Reply(r, "500")
    BY <2>1, <2>2, <2>3, AnswerStep
  <2> DEFINE q == [req[r] EXCEPT !.at = "call"]
  <2>4. CASE MovesTo(r, "call")
    <3>1. /\ q \in AReq /\ q.kind = req[r].kind /\ q.step = req[r].step
          /\ q.calls = req[r].calls /\ q.changed = req[r].changed
          /\ q.answer = req[r].answer /\ q.at \in {"ids", "again", "call"}
          /\ q.token = req[r].token /\ q.ids = req[r].ids
      BY <2>1, <2>4, Underway DEF AReq, Steps
    <3>2. req' = [req EXCEPT ![r] = q]
      BY <2>4, Underway DEF MovesTo, AccountInv
    <3> HIDE DEF q
    <3> QED BY <2>1, <2>2, <3>1, <3>2, ReadStep
  <2> QED BY <1>7, <2>3, <2>4 DEF ReadAgain
<1>8. ASSUME NEW r \in Requests, CheckLate(r)
      PROVE  AccountInv'
  <2>1. Running(r) /\ req[r].step = 0 /\ req[r].at = "call"
    BY <1>8 DEF Running, CheckLate
  <2>2. req[r].changed = {}
    BY <2>1, Underway DEF FitsWith
  <2> QED BY <1>8, <2>1, <2>2, AnswerStep, FailuresTyped DEF CheckLate, NoFault
<1> QED BY <1>1, <1>2, <1>3, <1>4, <1>5, <1>6, <1>7, <1>8, CallStep DEF AccountNext

\* The invariant of requests for a Cloud account.
THEOREM AccountInvariant == AccountSpec => []AccountInv
<1>1. AccountInit => AccountInv
  BY AccountInvInit, CloudAssumption
<1>2. AccountInv /\ [AccountNext]_accountVars => AccountInv'
  BY AccountInvNext, CloudAssumption
<1> QED BY <1>1, <1>2, PTL DEF AccountSpec

\* Every call of a request is made with one token, of an account that the session had while
\* the request ran, and touches another account only if the session changed it meanwhile.
THEOREM OneAccountPerRequest == AccountSpec => []ActsForOneAccount
<1>1. ASSUME AccountInv
      PROVE  ActsForOneAccount
  <2> SUFFICES ASSUME NEW r \in Requests
               PROVE  /\ \A c, d \in req[r].calls : c.token = d.token
                      /\ \A c \in req[r].calls :
                           /\ c.token \in during[r]
                           /\ during[r] = {c.token} =>
                                c.touched \subseteq IdsOf(c.token) \cup {req[r].object}
    BY DEF ActsForOneAccount
  <2>1. OwnCalls(req[r], during[r])
    BY <1>1 DEF AccountInv, FitsWith
  <2> QED BY <2>1 DEF OwnCalls
<1> QED BY <1>1, AccountInvariant, PTL

\* A 400 or a 404 means that Meta changed nothing, a 200 that every change was made, whichever
\* of several calls failed and how.
THEOREM AnswersAreSo == AccountSpec => []AnswersAreTrue
<1>1. AccountInv => AnswersAreTrue
  BY DEF AccountInv, FitsWith, AnswersAreTrue
<1> QED BY <1>1, AccountInvariant, PTL

\* The types of CloudAccount.
THEOREM AccountTypes == AccountSpec => []AccountTypeOK
<1>1. AccountInv => AccountTypeOK
  BY DEF AccountInv, FitsWith, AReq, IdOrNone, CallsOf, AccountTypeOK
<1> QED BY <1>1, AccountInvariant, PTL
=============================================================================
