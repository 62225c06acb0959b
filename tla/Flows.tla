------------------------------- MODULE Flows -------------------------------
(***************************************************************************)
(* WhatsApp Flows of one Cloud session (api/cloud/flows/handlers.rs): the  *)
(* key pair and the URL that configure_flow_endpoint sets up between Meta  *)
(* and the session's row, the data exchanges that Meta encrypts and sends  *)
(* while a user is in a Flow, while connect_cloud attaches the session to   *)
(* other accounts.                                                         *)
(*                                                                         *)
(* A key pair is its name: what is encrypted with its public half is read  *)
(* with its private half only.  Left out: requests Meta did not make,      *)
(* envelopes it did not fill, the management of Flows at Meta.              *)
(***************************************************************************)
EXTENDS Cloud, FiniteSets

CONSTANTS
  NumberOf, AppOf,
  Keys,         \* key pairs
  Urls,         \* URLs of the business's handler
  Configures,   \* configure requests of this instance, numbered as they come
  Exchanges     \* steps of users in a Flow, and health checks

Numbers == {NumberOf[a] : a \in Accounts}
Apps == {AppOf[a] : a \in Accounts}

ASSUME FlowsAssumption ==
  /\ None \notin Accounts \cup Keys \cup Urls
  /\ Configures \subseteq Nat
  /\ DOMAIN NumberOf = Accounts /\ DOMAIN AppOf = Accounts
  /\ MaxConnects \in Nat /\ MaxFaults \in Nat

VARIABLES
  row,               \* the session's row: the account, the private key, the URL
  registered,        \* Meta: the public key of a number
  cached,            \* Meta: the one it encrypts with
  conf,              \* configure requests
  ex,                \* exchanges
  live,              \* Meta: accounts with a Flow that has this session's endpoint
  kept,              \* observation: keys and URLs that were stored together
  told,              \* observation: what reached which URL, under which key
  times,             \* observation: how often an exchange reached a handler
  sound              \* observation: the last configure request was answered, and met no other

meta == <<registered, cached>>
bounds == <<connects, faults>>
seen == <<kept, told, times, sound>>
vars == <<row, meta, conf, ex, live, bounds, seen>>

Row == [account : Accounts \cup {None}, key : Keys \cup {None}, url : Urls \cup {None}]
NoRow == [account |-> None, key |-> None, url |-> None]

NewConf == [at |-> "new", clean |-> FALSE, want |-> NoRow]
NewExchange == [at |-> "new", account |-> None, key |-> None, ping |-> FALSE,
                creds |-> NoRow, answer |-> None]
ConfDone == [NewConf EXCEPT !.at = "done"]

\* Answers of the endpoint; "lost" when the connection broke.
Answers == {"200", "404", "421", "432", "502", "503", "lost"}

TypeOK ==
  /\ row \in Row
  /\ registered \in [Numbers -> Keys \cup {None}] /\ cached \in [Numbers -> Keys \cup {None}]
  /\ conf \in [Configures -> [at : {"new", "register", "store", "done"}, clean : BOOLEAN,
                              want : Row]]
  /\ ex \in [Exchanges -> [at : {"new", "sent", "forward", "answered", "done"},
                           account : Accounts \cup {None}, key : Keys \cup {None},
                           ping : BOOLEAN, creds : Row, answer : Answers \cup {None}]]
  /\ connects \in 0..MaxConnects /\ faults \in 0..MaxFaults
  /\ live \subseteq Accounts /\ kept \subseteq Keys \X (Urls \cup {None})
  /\ told \subseteq Keys \X Urls /\ times \in [Exchanges -> 0..2]
  /\ sound \in BOOLEAN

Init ==
  /\ row = NoRow
  /\ registered = [n \in Numbers |-> None] /\ cached = registered
  /\ conf = [c \in Configures |-> NewConf]
  /\ ex = [e \in Exchanges |-> NewExchange]
  /\ connects = 0 /\ faults = 0
  /\ live = {} /\ kept = {} /\ told = {} /\ times = [e \in Exchanges |-> 0]
  /\ sound = FALSE

-----------------------------------------------------------------------------
(* The row.                                                                *)

\* connect_cloud: one UPDATE of the account; key and URL stay.
Connect(a) ==
  /\ connects < MaxConnects
  /\ connects' = connects + 1
  /\ row' = [row EXCEPT !.account = a]
  /\ conf' = [c \in Configures |-> [conf[c] EXCEPT !.clean = FALSE]]
  /\ sound' = FALSE
  /\ UNCHANGED <<meta, ex, live, faults, kept, told, times>>

\* configure_flow_endpoint: the account is read, the URL and the key of the request are
\* valid, or a key is made.
Configure(c, k, u) ==
  LET alone == \A o \in Configures : conf[o].at \in {"new", "done"}
  IN /\ conf[c].at = "new"
     /\ \A o \in Configures : o < c => conf[o].at # "new"
     /\ row.account # None
     /\ conf' = [o \in Configures |->
                  IF o = c
                  THEN [at |-> "register", clean |-> alone,
                        want |-> [account |-> row.account, key |-> k, url |-> u]]
                  ELSE [conf[o] EXCEPT !.clean = FALSE]]
     /\ UNCHANGED <<row, meta, ex, live, bounds, seen>>

ConfStores(c) == conf' = [conf EXCEPT ![c].at = "store"]
ConfEnds(c) == conf' = [conf EXCEPT ![c] = ConfDone]

Registers(c) == registered' = [registered EXCEPT ![NumberOf[conf[c].want.account]] = conf[c].want.key]

\* Mutant: a refusal of Meta does not end the request.
Register_Refused(c) ==
  /\ conf[c].at = "register"
  /\ Registers(c) \/ UNCHANGED registered
  /\ ConfStores(c)
  /\ sound' = FALSE
  /\ UNCHANGED <<row, cached, ex, live, bounds, kept, told, times>>

\* The public key goes to Meta first, which takes or refuses it; an answer that is lost is
\* a failure too.
Register(c) ==
  /\ conf[c].at = "register"
  /\ \/ Registers(c) /\ ConfStores(c) /\ sound' = FALSE /\ NoFault
     \/ UNCHANGED <<registered, sound>> /\ ConfEnds(c) /\ NoFault
     \/ Registers(c) /\ ConfEnds(c) /\ sound' = FALSE /\ Fault
  /\ UNCHANGED <<row, cached, ex, live, connects, kept, told, times>>

\* Then set_flow_endpoint, one UPDATE: the private key and the URL, or none.
Store(c) ==
  LET w == conf[c].want
  IN /\ conf[c].at = "store"
     /\ \/ /\ row' = [row EXCEPT !.key = w.key, !.url = w.url]
           /\ kept' = kept \cup {<<w.key, w.url>>}
           /\ sound' = conf[c].clean
           /\ NoFault
        \/ UNCHANGED <<row, kept, sound>> /\ Fault
     /\ ConfEnds(c)
     /\ UNCHANGED <<meta, ex, live, connects, told, times>>

-----------------------------------------------------------------------------
(* Exchanges.                                                              *)

\* Meta: a step of a user, or a health check, under the key it has of the number.
MetaSends(e, a, ping) ==
  /\ ex[e].at = "new"
  /\ a \in live
  /\ cached[NumberOf[a]] # None
  /\ ex' = [ex EXCEPT ![e].at = "sent", ![e].account = a, ![e].ping = ping,
                      ![e].key = cached[NumberOf[a]]]
  /\ UNCHANGED <<row, meta, conf, live, bounds, seen>>

\* Meta: takes the registered key into use.
MetaFetches(n) ==
  /\ cached[n] # registered[n]
  /\ cached' = [cached EXCEPT ![n] = registered[n]]
  /\ UNCHANGED <<row, registered, conf, ex, live, bounds, seen>>

Answer(e, a) ==
  ex' = [ex EXCEPT ![e].at = "answered", ![e].creds = NoRow, ![e].answer = a]

\* What the private key of the row makes of a request.
Decrypts(e) == ex[e].key = row.key

\* Mutant: a request that cannot be decrypted is malformed.
Refusal_Malformed(e) ==
  IF row.account = None \/ row.key = None THEN "404"
  ELSE IF AppOf[row.account] # AppOf[ex[e].account] THEN "432"
  ELSE IF ~Decrypts(e) THEN "404"
  ELSE IF ex[e].ping THEN "200"
  ELSE IF row.url = None THEN "503" ELSE None

\* What flow_data_exchange answers by itself, in the order of its checks; None: it forwards.
Refusal(e) ==
  IF row.account = None \/ row.key = None THEN "404"
  ELSE IF AppOf[row.account] # AppOf[ex[e].account] THEN "432"
  ELSE IF ~Decrypts(e) THEN "421"
  ELSE IF ex[e].ping THEN "200"
  ELSE IF row.url = None THEN "503" ELSE None

\* flow_data_exchange reads the row once; a failed read is an unknown session.
Exchange(e) ==
  /\ ex[e].at = "sent"
  /\ \/ Refusal(e) # None /\ Answer(e, Refusal(e)) /\ NoFault
     \/ /\ Refusal(e) = None
        /\ ex' = [ex EXCEPT ![e].at = "forward", ![e].creds = row]
        /\ NoFault
     \/ Answer(e, "404") /\ Fault
  /\ UNCHANGED <<row, meta, conf, live, connects, seen>>

\* What the URL gets.
Reaches(e, u) ==
  /\ told' = told \cup {<<ex[e].key, u>>}
  /\ times' = [times EXCEPT ![e] = @ + 1]

\* Mutant: the URL is read again.
Forward_Rereads(e) ==
  /\ ex[e].at = "forward"
  /\ IF row.url = None THEN UNCHANGED <<told, times>> ELSE Reaches(e, row.url)
  /\ Answer(e, "200")
  /\ UNCHANGED <<row, meta, conf, live, bounds, kept, sound>>

\* Mutant: a handler that fails is answered like a wrong key.
Forward_Again(e) ==
  /\ ex[e].at = "forward"
  /\ times[e] < 2
  /\ Reaches(e, ex[e].creds.url)
  /\ \/ Answer(e, "200") /\ NoFault
     \/ Answer(e, "421") /\ Fault
  /\ UNCHANGED <<row, meta, conf, live, connects, kept, sound>>

\* forward: the handler replies, or it fails, reached or not.
Forward(e) ==
  /\ ex[e].at = "forward"
  /\ \/ Reaches(e, ex[e].creds.url) /\ Answer(e, "200") /\ NoFault
     \/ Reaches(e, ex[e].creds.url) /\ Answer(e, "502") /\ Fault
     \/ UNCHANGED <<told, times>> /\ Answer(e, "502") /\ Fault
  /\ UNCHANGED <<row, meta, conf, live, connects, kept, sound>>

\* Meta: at a 421 it fetches the key and asks again; any other answer is final.
MetaHears(e) ==
  LET n == NumberOf[ex[e].account]
  IN /\ ex[e].at = "answered"
     /\ IF ex[e].answer = "421"
        THEN /\ cached' = [cached EXCEPT ![n] = registered[n]]
             /\ ex' = [ex EXCEPT ![e].at = "sent", ![e].key = registered[n],
                                 ![e].answer = None]
        ELSE /\ ex' = [ex EXCEPT ![e].at = "done", ![e].key = None, ![e].ping = FALSE]
             /\ UNCHANGED cached
     /\ UNCHANGED <<row, registered, conf, live, bounds, seen>>

-----------------------------------------------------------------------------
(* The Graph API.                                                          *)

\* create_flow to deprecate_flow, and send_flow: a valid request reads the account and is
\* passed on with its number and token; Meta refuses it, or the account has a Flow that is
\* live.  Reading and passing on are one step: an account that is attached in between
\* changes neither.
PassOn ==
  /\ row.account # None
  /\ live' = live \cup {row.account}
  /\ UNCHANGED <<row, meta, conf, ex, bounds, seen>>

-----------------------------------------------------------------------------
\* The process dies with what is under way in it.
Crash ==
  /\ Fault
  /\ conf' = [c \in Configures |-> IF conf[c].at = "new" THEN conf[c] ELSE ConfDone]
  /\ ex' = [e \in Exchanges |->
             IF ex[e].at \in {"sent", "forward"}
             THEN [ex[e] EXCEPT !.at = "answered", !.creds = NoRow, !.answer = "lost"]
             ELSE ex[e]]
  /\ UNCHANGED <<row, meta, live, connects, seen>>

\* What goes on by itself once it has begun.
Goes ==
  \/ \E c \in Configures : Register(c) \/ Store(c)
  \/ \E e \in Exchanges : Exchange(e) \/ Forward(e) \/ MetaHears(e)

Next ==
  \/ \E a \in Accounts : Connect(a)
  \/ \E c \in Configures, k \in Keys, u \in Urls \cup {None} : Configure(c, k, u)
  \/ \E e \in Exchanges, a \in Accounts, ping \in BOOLEAN : MetaSends(e, a, ping)
  \/ \E n \in Numbers : MetaFetches(n)
  \/ PassOn
  \/ Goes
  \/ Crash

Spec == Init /\ [][Next]_vars

\* Handlers that run go on, and Meta asks again after a 421, as the module's docs say.
FairSpec ==
  /\ Spec
  /\ \A c \in Configures : WF_vars(Register(c) \/ Store(c))
  /\ \A e \in Exchanges : WF_vars(Exchange(e) \/ Forward(e) \/ MetaHears(e))

-----------------------------------------------------------------------------
(* Properties.                                                             *)

\* The stored private key is that of the public key Meta has of the session's number, from
\* the answer to a configure request that met no other and no new account, until the next
\* change: failures before it and refusals after it do no harm.
KeysAgree ==
  sound =>
    /\ row.key # None
    /\ registered[NumberOf[row.account]] = row.key

\* What is decrypted is told to the URL that was stored with the key, whatever is configured
\* meanwhile.
CredentialsAreWhole == told \subseteq kept

\* A step of a user reaches the business once, though Meta asks again after a 421.
ForwardedOnce == \A e \in Exchanges : times[e] <= 1

Fits(e) ==
  /\ ex[e].account # None /\ row.account # None /\ row.key # None
  /\ NumberOf[row.account] = NumberOf[ex[e].account]
  /\ AppOf[row.account] = AppOf[ex[e].account]
  /\ row.key = registered[NumberOf[row.account]]

\* An exchange under a key that was replaced is answered in the end, by the handler, while
\* the keys agree: the 421 brings Meta the new one.
ExchangesHeal ==
  \A e \in Exchanges :
    ex[e].at = "sent" /\ Fits(e) /\ faults = 0
      ~> ~Fits(e) \/ faults > 0 \/ ex[e].answer \in {"200", "503"}
=============================================================================
