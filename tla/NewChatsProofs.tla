--------------------------- MODULE NewChatsProofs ---------------------------
(***************************************************************************)
(* Proofs about NewChats: what admission, rollback and limit keep, for any *)
(* chats, sends, operators and limits, with any number of failures.        *)
(***************************************************************************)
EXTENDS NewChats, Sequences, FiniteSetTheorems, WellFoundedInduction, TLAPS

-----------------------------------------------------------------------------
(* The row that frees a slot.                                              *)

\* A set of natural numbers has a least element.
LEMMA Least ==
  ASSUME NEW T \in SUBSET Nat, T # {}
  PROVE  \E x \in T : \A y \in T : x <= y
<1> DEFINE R == OpToRel(<, Nat)
<1>1. IsWellFoundedOn(R, Nat)
  BY NatLessThanWellFounded
<1>2. \A x, y \in Nat : <<y, x>> \in R <=> y < x
  BY DEF OpToRel
<1> HIDE DEF R
<1>3. PICK x \in T : \A y \in T : ~(<<y, x>> \in R)
  BY <1>1, WFMin
<1>4. ASSUME NEW y \in T
      PROVE  x <= y
  <2>1. ~(y < x)
    BY <1>2, <1>3
  <2>2. x \in Nat /\ y \in Nat
    OBVIOUS
  <2>3. QED
    BY <2>1, <2>2
<1>5. QED
  BY <1>4

Newer(C, at, t) == {d \in C : at[d] > t}
AtLeastAsNew(C, at, t) == {d \in C : at[d] >= t}

\* Among the n or more rows of a window there is an n-th newest.
LEMMA NthNewest ==
  ASSUME NEW C, IsFiniteSet(C), NEW top \in Nat, NEW at, \A c \in C : at[c] \in 0..top,
         NEW n \in Nat \ {0}, n <= Cardinality(C)
  PROVE  /\ FreesSlot(C, at, n) \in C
         /\ Cardinality(Newer(C, at, at[FreesSlot(C, at, n)])) < n
         /\ n <= Cardinality(AtLeastAsNew(C, at, at[FreesSlot(C, at, n)]))
<1> DEFINE Behind(k) == Cardinality(AtLeastAsNew(C, at, top - k))
           T == {k \in Nat : n <= Behind(k)}
<1>1. \A k \in Int : /\ IsFiniteSet(AtLeastAsNew(C, at, top - k))
                     /\ Behind(k) \in Nat
  BY FS_Subset, FS_CardinalityType DEF AtLeastAsNew
<1>2. top \in T
  <2>1. AtLeastAsNew(C, at, top - top) = C
    BY DEF AtLeastAsNew
  <2>2. QED
    BY <2>1
<1>3. PICK k \in T : \A j \in T : k <= j
  BY <1>2, Least
<1>4. Behind(k - 1) < n
  <2>1. CASE k = 0
    <3>1. top - (k - 1) = top + 1
      BY <2>1
    <3>2. \A c \in C : ~(at[c] >= top + 1)
      OBVIOUS
    <3>3. AtLeastAsNew(C, at, top - (k - 1)) = {}
      BY <3>1, <3>2 DEF AtLeastAsNew
    <3>4. Behind(k - 1) = 0
      BY <3>3, FS_EmptySet
    <3>5. QED
      BY <3>4
  <2>2. CASE k # 0
    <3>1. k - 1 \in Nat /\ k - 1 \notin T
      BY <1>3, <2>2
    <3>2. QED
      BY <1>1, <3>1
  <2>3. QED
    BY <2>1, <2>2
<1>5. Newer(C, at, top - k) = AtLeastAsNew(C, at, top - (k - 1))
  BY <1>3 DEF Newer, AtLeastAsNew
<1>6. PICK c \in C : at[c] = top - k
  <2>1. SUFFICES ASSUME \A c \in C : at[c] # top - k
                 PROVE  FALSE
    OBVIOUS
  <2>2. AtLeastAsNew(C, at, top - k) = Newer(C, at, top - k)
    BY <1>3, <2>1 DEF Newer, AtLeastAsNew
  <2>3. QED
    BY <1>1, <1>3, <1>4, <1>5, <2>2
<1>7. /\ Cardinality({d \in C : at[d] > at[c]}) < n
      /\ n <= Cardinality({d \in C : at[d] >= at[c]})
  BY <1>3, <1>4, <1>5, <1>6 DEF Newer, AtLeastAsNew
<1>8. QED
  BY <1>7 DEF FreesSlot, Newer, AtLeastAsNew

-----------------------------------------------------------------------------
(* Types.                                                                  *)

LEMMA WindowIsFinite ==
  ASSUME TypeOK, NEW t, NEW w
  PROVE  /\ IsFiniteSet(InWindow(t, w))
         /\ Cardinality(InWindow(t, w)) \in Nat
<1>1. InWindow(t, w) \in SUBSET Chats
  BY DEF TypeOK, InWindow
<1>2. QED
  BY <1>1, NewChatsAssumption, FS_Subset, FS_CardinalityType

\* What a refusal answers: the row that frees a slot leaves the window then.
LEMMA RefusalFacts ==
  ASSUME TypeOK, NEW s \in Sends, quota[s] \in Limits,
         ~(Cardinality(InWindow(now[s], quota[s].window)) < quota[s].max)
  PROVE  LET C == InWindow(now[s], quota[s].window)
             at == startedAt[FreesSlot(C, startedAt, quota[s].max)]
             after1 == RetryAfter(C, quota[s], now[s])
         IN /\ at \in Nat /\ at > now[s] - quota[s].window
            /\ after1 \in Nat /\ now[s] + after1 = at + quota[s].window
            /\ Cardinality(Newer(C, startedAt, at)) < quota[s].max
            /\ quota[s].max <= Cardinality(AtLeastAsNew(C, startedAt, at))
<1> DEFINE C == InWindow(now[s], quota[s].window)
           n == quota[s].max
           w == quota[s].window
           f == FreesSlot(C, startedAt, n)
<1>1. n \in Nat \ {0} /\ w \in Nat \ {0} /\ now[s] \in 0..MaxClock
  BY NewChatsAssumption DEF TypeOK
<1>2. IsFiniteSet(C) /\ Cardinality(C) \in Nat /\ n <= Cardinality(C)
  BY <1>1, WindowIsFinite
<1>3. /\ C \subseteq Chats
      /\ \A c \in C : startedAt[c] \in 0..MaxClock /\ startedAt[c] > now[s] - w
  BY DEF TypeOK, InWindow
<1> HIDE DEF C
<1>4. /\ f \in C
      /\ Cardinality(Newer(C, startedAt, startedAt[f])) < n
      /\ n <= Cardinality(AtLeastAsNew(C, startedAt, startedAt[f]))
  BY <1>1, <1>2, <1>3, NewChatsAssumption, NthNewest
<1>5. startedAt[f] \in Nat /\ startedAt[f] > now[s] - w
  BY <1>3, <1>4
<1>6. RetryAfter(C, quota[s], now[s]) = startedAt[f] + w - now[s]
  <2>1. RetryAfter(C, quota[s], now[s]) = AtLeast1(startedAt[f] + w - now[s])
    BY DEF RetryAfter
  <2> HIDE DEF f, w
  <2>2. QED
    BY <1>1, <1>5, <2>1 DEF AtLeast1
<1> HIDE DEF f, w, n
<1>7. startedAt[f] + w - now[s] \in Nat /\ now[s] + (startedAt[f] + w - now[s]) = startedAt[f] + w
  BY <1>1, <1>5
<1>8. QED
  BY <1>4, <1>5, <1>6, <1>7 DEF C, f, w, n

LEMMA InitTypeOK == Init => TypeOK
BY NewChatsAssumption DEF Init, TypeOK, SendPC

LEMMA InsertTyped ==
  ASSUME TypeOK, NEW s \in Sends, to[s] \in Chats, Insert(s)
  PROVE  started' \in SUBSET Chats /\ startedAt' \in [Chats -> 0..MaxClock]
BY DEF TypeOK, Insert

LEMMA ReturnTyped ==
  ASSUME TypeOK, NEW s \in Sends, NEW p \in SendPC, Return(s, p)
  PROVE  /\ pc' \in [Sends -> SendPC] /\ lock' \in Sends \cup {Free}
         /\ now' \in [Sends -> 0..MaxClock]
         /\ quota' \in [Sends -> Limits \cup {NoLimit}]
BY NewChatsAssumption DEF TypeOK, Return, Goto

LEMMA TypeStep == TypeOK /\ SendsAreFresh /\ [Next]_vars => TypeOK'
<1> SUFFICES ASSUME TypeOK, SendsAreFresh, [Next]_vars
             PROVE  TypeOK'
  OBVIOUS
<1> USE DEF tables, limitVars, sendVars
<1>f. Fault => faults' \in 0..MaxFaults
  BY NewChatsAssumption DEF TypeOK, Fault
<1>n. NoFault => faults' \in 0..MaxFaults
  BY DEF TypeOK, NoFault
<1>1. ASSUME NEW s \in Sends, NEW c \in Chats, NEW b \in BOOLEAN, Lock(s, c, b)
      PROVE  TypeOK'
  BY <1>1 DEF TypeOK, Lock, Goto, SendPC, Locked
<1>2. ASSUME NEW s \in Sends, Lookup(s)
      PROVE  TypeOK'
  <2>1. CASE ~Known(to[s]) /\ NoFault /\ now' = [now EXCEPT ![s] = clock]
             /\ Goto(s, "limit") /\ UNCHANGED <<lock, quota>>
    BY <1>2, <2>1, <1>n DEF TypeOK, Lookup, Goto, SendPC, Locked
  <2>2. CASE ((Known(to[s]) /\ NoFault) \/ Fault) /\ Return(s, "send")
    <3>1. "send" \in SendPC
      BY DEF SendPC
    <3>2. faults' \in 0..MaxFaults
      BY <2>2, <1>f, <1>n
    <3>3. QED
      BY <1>2, <2>2, <3>1, <3>2, ReturnTyped DEF TypeOK, Lookup
  <2>3. QED
    BY <1>2, <2>1, <2>2 DEF Lookup
<1>3. ASSUME NEW s \in Sends, ReadLimit(s)
      PROVE  TypeOK'
  <2>1. faults' \in 0..MaxFaults /\ quota' \in [Sends -> Limits \cup {NoLimit}]
    BY <1>3, <1>f, <1>n DEF TypeOK, ReadLimit
  <2>2. pc' \in [Sends -> SendPC]
    BY <1>3 DEF TypeOK, ReadLimit, Goto, SendPC, Locked
  <2>3. QED
    BY <1>3, <2>1, <2>2 DEF TypeOK, ReadLimit
<1>4. ASSUME NEW s \in Sends, Count(s)
      PROVE  TypeOK'
  <2> DEFINE C == InWindow(now[s], quota[s].window)
  <2>0. quota[s] \in Limits
    BY <1>4 DEF TypeOK, SendsAreFresh, Fresh, Count
  <2>1. CASE NoFault /\ Goto(s, "record") /\ UNCHANGED <<lock, now, quota, after>>
    BY <1>4, <2>1, <1>n DEF TypeOK, Count, Goto, SendPC, Locked
  <2>2. CASE /\ ~(Cardinality(C) < quota[s].max) /\ NoFault
             /\ after' = [after EXCEPT ![s] = RetryAfter(C, quota[s], now[s])]
             /\ Return(s, "refused")
    <3>1. RetryAfter(C, quota[s], now[s]) \in Nat
      BY <2>0, <2>2, RefusalFacts
    <3>2. after' \in [Sends -> Nat]
      BY <2>2, <3>1 DEF TypeOK
    <3>3. "refused" \in SendPC
      BY DEF SendPC, Ended
    <3>4. QED
      BY <1>4, <2>2, <3>2, <3>3, <1>n, ReturnTyped DEF TypeOK, Count
  <2>3. CASE Fault /\ quota' = [quota EXCEPT ![s] = NoLimit] /\ Goto(s, "record")
             /\ UNCHANGED <<lock, now, after>>
    BY <1>4, <2>3, <1>f DEF TypeOK, Count, Goto, SendPC, Locked
  <2>4. QED
    BY <1>4, <2>1, <2>2, <2>3 DEF Count
<1>5. ASSUME NEW s \in Sends, Record(s)
      PROVE  TypeOK'
  <2>1. "send" \in SendPC /\ to[s] \in Chats
    BY <1>5 DEF SendPC, Record, SendsAreFresh, Fresh
  <2>2. /\ faults' \in 0..MaxFaults /\ recorded' \in [Sends -> BOOLEAN]
        /\ started' \in SUBSET Chats /\ startedAt' \in [Chats -> 0..MaxClock]
    <3>1. CASE NoFault /\ Insert(s) /\ recorded' = [recorded EXCEPT ![s] = TRUE]
      BY <2>1, <3>1, <1>n, InsertTyped DEF TypeOK
    <3>2. CASE Fault /\ UNCHANGED <<started, startedAt, recorded>>
      BY <3>2, <1>f DEF TypeOK
    <3>3. QED
      BY <1>5, <3>1, <3>2 DEF Record
  <2>3. QED
    BY <1>5, <2>1, <2>2, ReturnTyped DEF TypeOK, Record
<1>6. ASSUME NEW s \in Sends, Deliver(s)
      PROVE  TypeOK'
  <2>1. faults' \in 0..MaxFaults
    BY <1>6, <1>f, <1>n DEF Deliver
  <2>2. reached' \in SUBSET Chats /\ pc' \in [Sends -> SendPC]
    BY <1>6 DEF TypeOK, SendsAreFresh, Fresh, Deliver, Reach, Goto, SendPC
  <2>3. QED
    BY <1>6, <2>1, <2>2 DEF TypeOK, Deliver
<1>7. ASSUME NEW s \in Sends, Store(s)
      PROVE  TypeOK'
  <2>1. faults' \in 0..MaxFaults
    BY <1>7, <1>f, <1>n DEF Store
  <2>2. messaged' \in SUBSET Chats /\ pc' \in [Sends -> SendPC]
    BY <1>7 DEF TypeOK, SendsAreFresh, Fresh, Store, Goto, SendPC, Ended
  <2>3. QED
    BY <1>7, <2>1, <2>2 DEF TypeOK, Store
<1>8. ASSUME NEW s \in Sends, Undo(s)
      PROVE  TypeOK'
  <2>1. faults' \in 0..MaxFaults
    BY <1>8, <1>f, <1>n DEF Undo
  <2>2. /\ started' \in SUBSET Chats /\ startedAt' \in [Chats -> 0..MaxClock]
        /\ pc' \in [Sends -> SendPC]
    BY <1>8, NewChatsAssumption DEF TypeOK, Undo, Goto, SendPC, Ended
  <2>3. QED
    BY <1>8, <2>1, <2>2 DEF TypeOK, Undo
<1>9. ASSUME NEW s \in Sends, Drop(s)
      PROVE  TypeOK'
  <2>1. faults' \in 0..MaxFaults
    BY <1>9, <1>f DEF Drop
  <2>2. "dropped" \in SendPC /\ to[s] \in Chats
    BY <1>9 DEF SendPC, Ended, Drop, SendsAreFresh, Fresh
  <2>3. /\ pc' \in [Sends -> SendPC] /\ lock' \in Sends \cup {Free}
        /\ now' \in [Sends -> 0..MaxClock]
        /\ quota' \in [Sends -> Limits \cup {NoLimit}]
    <3>1. CASE Return(s, "dropped")
      BY <2>2, <3>1, ReturnTyped
    <3>2. CASE Goto(s, "dropped") /\ UNCHANGED <<lock, now, quota>>
      BY <2>2, <3>2 DEF TypeOK, Goto
    <3>3. QED
      BY <1>9, <3>1, <3>2 DEF Drop
  <2>4. /\ started' \in SUBSET Chats /\ startedAt' \in [Chats -> 0..MaxClock]
        /\ messaged' \in SUBSET Chats /\ recorded' \in [Sends -> BOOLEAN]
    <3>1. CASE UNCHANGED <<tables, recorded>>
      BY <3>1 DEF TypeOK
    <3>2. CASE Insert(s) /\ recorded' = [recorded EXCEPT ![s] = TRUE] /\ UNCHANGED messaged
      BY <2>2, <3>2, InsertTyped DEF TypeOK
    <3>3. QED
      BY <1>9, <3>1, <3>2 DEF Drop
  <2>5. QED
    BY <1>9, <2>1, <2>3, <2>4 DEF TypeOK, Drop
<1>10. ASSUME NEW c \in Chats, Incoming(c)
       PROVE  TypeOK'
  BY <1>10 DEF TypeOK, Incoming
<1>11. ASSUME NEW o \in Operators, NEW l \in Limits \cup {NoLimit}, DeleteLimit(o, l)
       PROVE  TypeOK'
  BY <1>11 DEF TypeOK, DeleteLimit
<1>12. ASSUME NEW o \in Operators, InsertLimit(o)
       PROVE  TypeOK'
  <2>1. faults' \in 0..MaxFaults
    BY <1>12, <1>f, <1>n DEF InsertLimit
  <2>2. QED
    BY <1>12, <2>1 DEF TypeOK, InsertLimit
<1>13. CASE Second
  BY <1>13, NewChatsAssumption DEF TypeOK, Second
<1>14. CASE UNCHANGED vars
  BY <1>14 DEF TypeOK, vars
<1>15. QED
  BY <1>1, <1>2, <1>3, <1>4, <1>5, <1>6, <1>7, <1>8, <1>9, <1>10, <1>11, <1>12, <1>13,
     <1>14 DEF Next, Step

-----------------------------------------------------------------------------
(* What the holder of the lock found out.                                  *)

\* A step of one send leaves the others where they are.
Others(s) ==
  \A r \in Sends \ {s} :
    /\ pc'[r] = pc[r] /\ to'[r] = to[r] /\ scoped'[r] = scoped[r]
    /\ now'[r] = now[r] /\ quota'[r] = quota[r] /\ recorded'[r] = recorded[r]

LEMMA OthersStay ==
  ASSUME TypeOK, NEW s \in Sends, Step(s) \/ Drop(s)
  PROVE  Others(s)
<1> USE DEF Others, sendVars, tables, limitVars
<1>1. ASSUME NEW c \in Chats, NEW b \in BOOLEAN, Lock(s, c, b)
      PROVE  Others(s)
  BY <1>1 DEF TypeOK, Lock, Goto
<1>2. CASE Lookup(s)
  BY <1>2 DEF TypeOK, Lookup, Return, Goto
<1>3. CASE ReadLimit(s)
  BY <1>3 DEF TypeOK, ReadLimit, Goto
<1>4. CASE Count(s)
  BY <1>4 DEF TypeOK, Count, Return, Goto
<1>5. CASE Record(s)
  BY <1>5 DEF TypeOK, Record, Return, Goto
<1>6. CASE Deliver(s)
  BY <1>6 DEF TypeOK, Deliver, Goto
<1>7. CASE Store(s)
  BY <1>7 DEF TypeOK, Store, Goto
<1>8. CASE Undo(s)
  BY <1>8 DEF TypeOK, Undo, Goto
<1>9. CASE Drop(s)
  BY <1>9 DEF TypeOK, Drop, Return, Goto
<1>10. QED
  BY <1>1, <1>2, <1>3, <1>4, <1>5, <1>6, <1>7, <1>8, <1>9 DEF Step

\* No row is added or moved.
NothingAdded == \A c \in started' : c \in started /\ startedAt'[c] = startedAt[c]

\* A finding survives a step of somebody else that adds no row.
LEMMA FindingKept ==
  ASSUME TypeOK, NEW r \in Sends, Finding(r),
         pc'[r] = pc[r], to'[r] = to[r], now'[r] = now[r], quota'[r] = quota[r],
         pc[r] \in Locked => NothingAdded
  PROVE  Finding(r)'
<1>1. CASE pc[r] \in Locked
  <2> DEFINE q == quota[r].window
  <2>1. InWindow(now[r], q)' \subseteq InWindow(now[r], q)
    BY <1>1 DEF InWindow, NothingAdded
  <2>2. /\ Cardinality(InWindow(now[r], q)') <= Cardinality(InWindow(now[r], q))
        /\ Cardinality(InWindow(now[r], q)') \in Nat
    BY <2>1, WindowIsFinite, FS_Subset, FS_CardinalityType
  <2>3. ASSUME pc[r] = "record", quota[r] # NoLimit
        PROVE  Cardinality(InWindow(now[r], q)') < quota[r].max
    <3>1. quota[r].max \in Nat
      BY <2>3, NewChatsAssumption DEF TypeOK
    <3>2. Cardinality(InWindow(now[r], q)) < quota[r].max
      BY <2>3 DEF Finding
    <3>3. QED
      BY <2>2, <3>1, <3>2, WindowIsFinite
  <2>4. pc[r] # "lookup" => to[r] \notin started'
    BY <1>1 DEF Finding, NothingAdded
  <2>5. QED
    BY <2>3, <2>4 DEF Finding
<1>2. CASE pc[r] \notin Locked
  BY <1>2 DEF Finding, Locked
<1>3. QED
  BY <1>1, <1>2

\* What a step of s has to keep to itself: it moves the lock only between itself and
\* nobody, and adds a row only while it holds the lock.
LEMMA OwnStep ==
  ASSUME TypeOK, AdmitInv, NEW s \in Sends, Others(s),
         pc'[s] \in Locked <=> lock' = s,
         lock' = lock \/ (lock \in {Free, s} /\ lock' \in {Free, s}),
         Fresh(s)', Finding(s)',
         pc[s] \in Locked \/ NothingAdded
  PROVE  AdmitInv'
<1>1. LockInv'
  BY NewChatsAssumption DEF AdmitInv, LockInv, Others
<1>2. SendsAreFresh'
  BY DEF AdmitInv, SendsAreFresh, Fresh, Others
<1>3. ASSUME NEW r \in Sends, r # s
      PROVE  Finding(r)'
  <2>1. pc[r] \in Locked => NothingAdded
    BY <1>3 DEF AdmitInv, LockInv
  <2>2. QED
    BY <1>3, <2>1, FindingKept DEF AdmitInv, FindingsHold, Others
<1>4. QED
  BY <1>1, <1>2, <1>3 DEF AdmitInv, FindingsHold

\* A send that ends, or goes on, outside admit finds nothing.
LEMMA OutsideStep ==
  ASSUME TypeOK, AdmitInv, NEW s \in Sends, Others(s),
         pc'[s] \notin Locked \cup {"wait", "refused"}, to'[s] \in Chats,
         \/ lock' = Free /\ lock = s
         \/ lock' = lock /\ pc[s] \notin Locked,
         pc[s] \in Locked \/ NothingAdded
  PROVE  AdmitInv'
<1>1. pc'[s] \in Locked <=> lock' = s
  BY NewChatsAssumption DEF AdmitInv, LockInv
<1>2. Fresh(s)' /\ Finding(s)'
  BY DEF Fresh, Finding, Locked
<1>3. QED
  BY <1>1, <1>2, OwnStep

\* A statement that moves neither a send nor a row.
LEMMA AdmitStays ==
  ASSUME TypeOK, AdmitInv, UNCHANGED <<started, startedAt, lock, pc, sendVars>>
  PROVE  AdmitInv'
BY DEF AdmitInv, LockInv, SendsAreFresh, Fresh, FindingsHold, Finding, InWindow, sendVars

LEMMA InitAdmit == Init => AdmitInv
BY NewChatsAssumption
DEF Init, AdmitInv, LockInv, SendsAreFresh, Fresh, FindingsHold, Finding, Locked

LEMMA AdmitStep == TypeOK /\ AdmitInv /\ [Next]_vars => AdmitInv'
<1> SUFFICES ASSUME TypeOK, AdmitInv, [Next]_vars
             PROVE  AdmitInv'
  OBVIOUS
<1> USE DEF tables, limitVars, sendVars
<1>0. ASSUME NEW s \in Sends
      PROVE  /\ Fresh(s) /\ Finding(s)
             /\ pc[s] \in Locked <=> lock = s
             /\ pc[s] # "wait" => to[s] \in Chats
  BY DEF AdmitInv, LockInv, SendsAreFresh, FindingsHold, Fresh
<1>1. ASSUME NEW s \in Sends, NEW c \in Chats, NEW b \in BOOLEAN, Lock(s, c, b)
      PROVE  AdmitInv'
  <2>1. Others(s)
    BY <1>1, OthersStay DEF Step
  <2>2. /\ pc[s] = "wait" /\ lock = Free /\ lock' = s
        /\ pc'[s] = "lookup" /\ to'[s] = c /\ recorded' = recorded
        /\ started' = started /\ startedAt' = startedAt
    BY <1>1 DEF TypeOK, Lock, LockFree, Goto
  <2>3. Fresh(s)' /\ Finding(s)' /\ pc'[s] \in Locked /\ NothingAdded
    BY <1>0, <2>2 DEF Fresh, Finding, Locked, NothingAdded
  <2>4. QED
    BY <2>1, <2>2, <2>3, OwnStep
<1>2. ASSUME NEW s \in Sends, Lookup(s)
      PROVE  AdmitInv'
  <2>1. Others(s) /\ NothingAdded
    BY <1>2, OthersStay DEF Step, NothingAdded, Lookup
  <2>2. pc[s] = "lookup" /\ lock = s /\ to[s] \in Chats
    BY <1>0, <1>2 DEF Lookup, Locked
  <2>3. CASE ~Known(to[s]) /\ NoFault /\ now' = [now EXCEPT ![s] = clock]
             /\ Goto(s, "limit") /\ UNCHANGED <<lock, quota>>
    <3>1. /\ pc'[s] = "limit" /\ to[s] \notin started /\ lock' = lock
          /\ UNCHANGED <<to, recorded, started>>
      BY <1>2, <2>3 DEF TypeOK, Lookup, Goto, Known
    <3>2. Fresh(s)' /\ Finding(s)' /\ pc'[s] \in Locked
      BY <1>0, <2>2, <3>1 DEF Fresh, Finding, Locked
    <3>3. QED
      BY <2>1, <2>2, <3>1, <3>2, OwnStep
  <2>4. CASE Return(s, "send")
    <3>1. pc'[s] = "send" /\ lock' = Free /\ to' = to
      BY <1>2, <2>4 DEF TypeOK, Lookup, Return, Goto
    <3>2. QED
      BY <2>1, <2>2, <3>1, OutsideStep DEF Locked
  <2>5. QED
    BY <1>2, <2>3, <2>4 DEF Lookup
<1>3. ASSUME NEW s \in Sends, ReadLimit(s)
      PROVE  AdmitInv'
  <2>1. Others(s) /\ NothingAdded
    BY <1>3, OthersStay DEF Step, NothingAdded, ReadLimit
  <2>2. /\ pc[s] = "limit" /\ lock = s /\ to[s] \notin started
    BY <1>0, <1>3 DEF ReadLimit, Locked, Finding
  <2>3. /\ pc'[s] = IF quota'[s] = NoLimit THEN "record" ELSE "count"
        /\ lock' = lock /\ UNCHANGED <<to, recorded, started>>
    BY <1>3 DEF TypeOK, ReadLimit, Goto
  <2>4. Fresh(s)' /\ Finding(s)' /\ pc'[s] \in Locked
    BY <1>0, <2>2, <2>3 DEF Fresh, Finding, Locked
  <2>5. QED
    BY <2>1, <2>2, <2>3, <2>4, OwnStep
<1>4. ASSUME NEW s \in Sends, Count(s)
      PROVE  AdmitInv'
  <2> DEFINE q == quota[s]
             C == InWindow(now[s], q.window)
  <2>1. Others(s) /\ NothingAdded
    BY <1>4, OthersStay DEF Step, NothingAdded, Count
  <2>2. /\ pc[s] = "count" /\ lock = s /\ to[s] \notin started /\ to[s] \in Chats
        /\ ~recorded[s] /\ UNCHANGED <<to, recorded, started, startedAt>>
    BY <1>0, <1>4 DEF Count, Locked, Finding, Fresh
  <2>3. CASE Cardinality(C) < q.max /\ Goto(s, "record") /\ UNCHANGED <<lock, now, quota>>
    <3>1. pc'[s] = "record" /\ lock' = lock
      BY <2>3 DEF TypeOK, Goto
    <3>2. InWindow(now[s], q.window)' = C
      BY <2>2, <2>3 DEF InWindow
    <3>3. Fresh(s)' /\ Finding(s)' /\ pc'[s] \in Locked
      BY <2>2, <2>3, <3>1, <3>2 DEF Fresh, Finding, Locked
    <3>4. QED
      BY <2>1, <2>2, <3>1, <3>3, OwnStep
  <2>4. CASE Return(s, "refused")
    <3>1. pc'[s] = "refused" /\ lock' = Free
      BY <2>4 DEF TypeOK, Return, Goto
    <3>2. Fresh(s)' /\ Finding(s)' /\ pc'[s] \notin Locked
      BY <2>2, <3>1 DEF Fresh, Finding, Locked
    <3>3. QED
      BY <2>1, <2>2, <3>1, <3>2, NewChatsAssumption, OwnStep
  <2>5. CASE quota' = [quota EXCEPT ![s] = NoLimit] /\ Goto(s, "record")
             /\ UNCHANGED <<lock, now>>
    <3>1. pc'[s] = "record" /\ lock' = lock /\ quota'[s] = NoLimit
      BY <2>5 DEF TypeOK, Goto
    <3>2. Fresh(s)' /\ Finding(s)' /\ pc'[s] \in Locked
      BY <2>2, <3>1 DEF Fresh, Finding, Locked
    <3>3. QED
      BY <2>1, <2>2, <3>1, <3>2, OwnStep
  <2>6. QED
    BY <1>4, <2>3, <2>4, <2>5 DEF Count
<1>5. ASSUME NEW s \in Sends, Record(s)
      PROVE  AdmitInv'
  <2>1. Others(s)
    BY <1>5, OthersStay DEF Step
  <2>2. /\ pc[s] = "record" /\ lock = s /\ to[s] \in Chats
        /\ pc'[s] = "send" /\ lock' = Free /\ to' = to
    BY <1>0, <1>5 DEF TypeOK, Record, Return, Goto, Locked
  <2>3. QED
    BY <2>1, <2>2, OutsideStep DEF Locked
<1>6. ASSUME NEW s \in Sends, Deliver(s)
      PROVE  AdmitInv'
  <2>1. Others(s) /\ NothingAdded
    BY <1>6, OthersStay DEF Step, NothingAdded, Deliver
  <2>2. /\ pc[s] = "send" /\ to[s] \in Chats /\ pc'[s] \in {"store", "undo"}
        /\ lock' = lock /\ to' = to
    BY <1>0, <1>6 DEF TypeOK, Deliver, Goto
  <2>3. QED
    BY <2>1, <2>2, OutsideStep DEF Locked
<1>7. ASSUME NEW s \in Sends, Store(s)
      PROVE  AdmitInv'
  <2>1. Others(s) /\ NothingAdded
    BY <1>7, OthersStay DEF Step, NothingAdded, Store
  <2>2. /\ pc[s] = "store" /\ to[s] \in Chats /\ pc'[s] = "ok"
        /\ lock' = lock /\ to' = to
    BY <1>0, <1>7 DEF TypeOK, Store, Goto
  <2>3. QED
    BY <2>1, <2>2, OutsideStep DEF Locked
<1>8. ASSUME NEW s \in Sends, Undo(s)
      PROVE  AdmitInv'
  <2>1. Others(s) /\ NothingAdded
    BY <1>8, OthersStay DEF Step, NothingAdded, Undo, TypeOK
  <2>2. /\ pc[s] = "undo" /\ to[s] \in Chats /\ pc'[s] \in {"forgot", "failed"}
        /\ lock' = lock /\ to' = to
    BY <1>0, <1>8 DEF TypeOK, Undo, Goto
  <2>3. QED
    BY <2>1, <2>2, OutsideStep DEF Locked
<1>9. ASSUME NEW s \in Sends, Drop(s)
      PROVE  AdmitInv'
  <2>1. Others(s)
    BY <1>9, OthersStay
  <2>2. /\ to[s] \in Chats /\ pc'[s] = "dropped" /\ to' = to
        /\ (lock = s /\ lock' = Free) \/ (lock # s /\ lock' = lock)
    BY <1>0, <1>9 DEF TypeOK, Drop, Return, Goto
  <2>3. pc[s] \in Locked \/ NothingAdded
    BY <1>9 DEF Drop, NothingAdded, Locked
  <2>4. QED
    BY <1>0, <2>1, <2>2, <2>3, OutsideStep DEF Locked
<1>10. ASSUME NEW c \in Chats, Incoming(c)
       PROVE  AdmitInv'
  BY <1>10, AdmitStays DEF Incoming
<1>11. ASSUME NEW o \in Operators, NEW l \in Limits \cup {NoLimit}, DeleteLimit(o, l)
       PROVE  AdmitInv'
  BY <1>11, AdmitStays DEF DeleteLimit
<1>12. ASSUME NEW o \in Operators, InsertLimit(o)
       PROVE  AdmitInv'
  BY <1>12, AdmitStays DEF InsertLimit
<1>13. CASE Second
  BY <1>13, AdmitStays DEF Second
<1>14. CASE UNCHANGED vars
  BY <1>14, AdmitStays DEF vars
<1>15. QED
  BY <1>1, <1>2, <1>3, <1>4, <1>5, <1>6, <1>7, <1>8, <1>9, <1>10, <1>11, <1>12, <1>13,
     <1>14 DEF Next, Step

\* Admission is a critical section, and what its holder found out about its chat and
\* about the window is still so when it acts on it (admit, SESSION_LOCKS).
THEOREM AdmitSafety == Spec => [](TypeOK /\ AdmitInv)
<1>1. Init => TypeOK /\ AdmitInv
  BY InitTypeOK, InitAdmit
<1>2. TypeOK /\ AdmitInv /\ [Next]_vars => (TypeOK /\ AdmitInv)'
  BY TypeStep, AdmitStep DEF AdmitInv
<1>3. QED
  BY <1>1, <1>2, PTL DEF Spec

-----------------------------------------------------------------------------
(* Nobody slips past the limit; a refusal names the right moment.          *)

\* Recording a chat against a limit leaves no more rows in its window than it allows,
\* however many sends are admitted at once (admit, under SESSION_LOCKS).
THEOREM RecordingKeepsTheLimit == Spec => NeverPastTheLimit
<1>1. ASSUME TypeOK, AdmitInv, [Next]_vars,
             NEW s \in Sends, pc[s] = "record", recorded'[s], ~recorded[s],
             quota[s] # NoLimit
      PROVE  Cardinality({c \in started' : startedAt'[c] > now[s] - quota[s].window})
               <= quota[s].max
  <2> DEFINE q == quota[s]
             C == InWindow(now[s], q.window)
             window == {c \in started' : startedAt'[c] > now[s] - q.window}
  <2>1. Step(s) \/ Drop(s)
    <3>1. CASE UNCHANGED recorded
      BY <1>1, <3>1
    <3>2. ASSUME NEW r \in Sends, r # s, Step(r) \/ Drop(r)
          PROVE  FALSE
      BY <1>1, <3>2, OthersStay DEF Others
    <3>3. (\E r \in Sends : Step(r) \/ Drop(r)) \/ UNCHANGED recorded
      BY <1>1 DEF Next, Incoming, DeleteLimit, InsertLimit, Second, vars, sendVars
    <3>4. QED
      BY <3>1, <3>2, <3>3
  <2>2. Insert(s)
    BY <1>1, <2>1
    DEF Step, Lock, Lookup, ReadLimit, Count, Record, Deliver, Store, Undo, Drop
  <2>3. window \subseteq C \cup {to[s]}
    BY <1>1, <2>2 DEF Insert, InWindow, TypeOK
  <2>4. /\ IsFiniteSet(C) /\ Cardinality(C) \in Nat
        /\ Cardinality(C) < q.max /\ q.max \in Nat
    BY <1>1, WindowIsFinite, NewChatsAssumption DEF AdmitInv, FindingsHold, Finding, TypeOK
  <2> HIDE DEF C, window
  <2>5. /\ IsFiniteSet(C \cup {to[s]})
        /\ Cardinality(C \cup {to[s]}) \in Nat
        /\ Cardinality(C \cup {to[s]}) <= Cardinality(C) + 1
    <3>1. /\ IsFiniteSet(C \cup {to[s]})
          /\ \/ Cardinality(C \cup {to[s]}) = Cardinality(C)
             \/ Cardinality(C \cup {to[s]}) = Cardinality(C) + 1
      BY <2>4, FS_AddElement
    <3>2. QED
      BY <2>4, <3>1
  <2>6. /\ Cardinality(window) <= Cardinality(C \cup {to[s]})
        /\ Cardinality(window) \in Nat
    BY <2>3, <2>5, FS_Subset, FS_CardinalityType
  <2>7. Cardinality(window) <= q.max
    <3> HIDE DEF q
    <3>1. QED
      BY <2>4, <2>5, <2>6
  <2>8. QED
    BY <2>7 DEF window
<1>2. TypeOK /\ AdmitInv /\ [Next]_vars =>
        [\A s \in Sends :
           pc[s] = "record" /\ recorded'[s] /\ ~recorded[s] /\ quota[s] # NoLimit =>
             LET window == {c \in started' : startedAt'[c] > now[s] - quota[s].window}
             IN Cardinality(window) <= quota[s].max]_vars
  BY <1>1
<1>3. QED
  BY <1>2, AdmitSafety, PTL DEF Spec, NeverPastTheLimit

\* The retry_after of a refusal is the first second at which the rows it counted leave
\* room for one more (retry_after and its in_window[len - max]).
THEOREM RetryAfterIsRight == Spec => RetryAfterIsExact
<1>1. ASSUME TypeOK, AdmitInv, [Next]_vars,
             NEW s \in Sends, pc[s] = "count", pc'[s] = "refused"
      PROVE  LET Fits(t) == Cardinality(InWindow(t, quota[s].window)) < quota[s].max
             IN Fits(now[s] + after'[s]) /\ ~Fits(now[s] + after'[s] - 1)
  <2> DEFINE q == quota[s]
             C == InWindow(now[s], q.window)
             at == startedAt[FreesSlot(C, startedAt, q.max)]
             a == RetryAfter(C, q, now[s])
  <2>1. Count(s)
    <3>1. CASE pc' = pc
      BY <1>1, <3>1
    <3>2. ASSUME NEW r \in Sends, r # s, Step(r) \/ Drop(r)
          PROVE  FALSE
      BY <1>1, <3>2, OthersStay DEF Others
    <3>3. ASSUME Step(s) \/ Drop(s)
          PROVE  Count(s)
      <4>1. ~Drop(s)
        BY <1>1 DEF Drop, Return, Goto, TypeOK
      <4>2. QED
        BY <1>1, <3>3, <4>1
        DEF Step, Lock, Lookup, ReadLimit, Record, Deliver, Store, Undo
    <3>4. (\E r \in Sends : Step(r) \/ Drop(r)) \/ pc' = pc
          \/ \E o \in Operators : InsertLimit(o) \/ \E l \in Limits \cup {NoLimit} : DeleteLimit(o, l)
      BY <1>1 DEF Next, Incoming, Second, vars
    <3>5. ASSUME NEW o \in Operators,
                 InsertLimit(o) \/ \E l \in Limits \cup {NoLimit} : DeleteLimit(o, l)
          PROVE  pc' = pc
      BY <3>5 DEF InsertLimit, DeleteLimit
    <3>6. QED
      BY <3>1, <3>2, <3>3, <3>4, <3>5
  <2>2. /\ ~(Cardinality(C) < q.max)
        /\ after' = [after EXCEPT ![s] = a]
    BY <1>1, <2>1 DEF Count, Goto, TypeOK
  <2>3. q \in Limits
    BY <1>1 DEF AdmitInv, SendsAreFresh, Fresh, TypeOK
  <2>4. /\ at \in Nat /\ at > now[s] - q.window
        /\ a \in Nat /\ now[s] + a = at + q.window
        /\ Cardinality(Newer(C, startedAt, at)) < q.max
        /\ q.max <= Cardinality(AtLeastAsNew(C, startedAt, at))
    BY <1>1, <2>2, <2>3, RefusalFacts
  <2>5. /\ after'[s] = a /\ now[s] \in Nat /\ q.window \in Nat /\ q.max \in Nat
        /\ \A c \in started : startedAt[c] \in Nat
    BY <1>1, <2>2, <2>3, NewChatsAssumption DEF TypeOK
  <2> HIDE DEF a, at
  <2>6. InWindow(now[s] + after'[s], q.window) = Newer(C, startedAt, at)
    BY <2>4, <2>5 DEF InWindow, Newer
  <2>7. InWindow(now[s] + after'[s] - 1, q.window) = AtLeastAsNew(C, startedAt, at)
    BY <2>4, <2>5 DEF InWindow, AtLeastAsNew
  <2>8. Cardinality(AtLeastAsNew(C, startedAt, at)) \in Nat
    BY <1>1, <2>7, WindowIsFinite
  <2>9. /\ Cardinality(InWindow(now[s] + after'[s], q.window)) < q.max
        /\ ~(Cardinality(InWindow(now[s] + after'[s] - 1, q.window)) < q.max)
    BY <2>4, <2>5, <2>6, <2>7, <2>8
  <2>10. QED
    BY <2>9
<1>2. TypeOK /\ AdmitInv /\ [Next]_vars =>
        [\A s \in Sends :
           pc[s] = "count" /\ pc'[s] = "refused" =>
             LET Fits(t) == Cardinality(InWindow(t, quota[s].window)) < quota[s].max
             IN Fits(now[s] + after'[s]) /\ ~Fits(now[s] + after'[s] - 1)]_vars
  BY <1>1
<1>3. QED
  BY <1>2, AdmitSafety, PTL DEF Spec, RetryAfterIsExact

-----------------------------------------------------------------------------
(* Rows are earned, and started chats are known.                           *)

\* What a step does to the rows: nothing; one is added by the send that was let
\* through; or the failed send that recorded it takes it back.
NoRow(s) == started' = started /\ recorded' = recorded

AddsRow(s) ==
  /\ pc[s] = "record" /\ pc'[s] \in {"send", "dropped"}
  /\ started' = started \cup {to[s]} /\ recorded' = [recorded EXCEPT ![s] = TRUE]

TakesBack(s) ==
  /\ pc[s] = "undo" /\ pc'[s] = "forgot" /\ recorded[s] /\ scoped[s]
  /\ started' = started \ {to[s]} /\ recorded' = recorded

\* A step of a send, seen from its row and its chat.
LEMMA RowSteps ==
  ASSUME TypeOK, AdmitInv, NEW s \in Sends, Step(s) \/ Drop(s)
  PROVE  /\ NoRow(s) \/ AddsRow(s) \/ TakesBack(s)
         /\ pc[s] \notin {"ok", "failed", "forgot", "refused", "dropped"}
         /\ \/ pc[s] = "wait" /\ pc'[s] = "lookup" /\ NoRow(s)
            \/ pc[s] # "wait" /\ to'[s] = to[s] /\ scoped'[s] = scoped[s]
         /\ pc'[s] = "forgot" => TakesBack(s)
         /\ pc'[s] = "failed" =>
              pc[s] = "undo" /\ ((scoped[s] /\ recorded[s]) => Fault)
         /\ reached \subseteq reached'
         /\ Fault \/ NoFault
<1> USE DEF tables, limitVars, sendVars, NoRow, AddsRow, TakesBack
<1>1. ASSUME NEW c \in Chats, NEW b \in BOOLEAN, Lock(s, c, b)
      PROVE  /\ NoRow(s) /\ pc[s] = "wait" /\ pc'[s] = "lookup"
             /\ UNCHANGED reached /\ NoFault
  BY <1>1 DEF TypeOK, Lock, Goto, NoFault
<1>2. CASE Lookup(s)
  <2>1. NoRow(s) /\ pc[s] = "lookup" /\ pc'[s] \in {"limit", "send"}
    BY <1>2 DEF TypeOK, Lookup, Goto, Return
  <2>2. QED
    BY <1>2, <2>1 DEF Lookup
<1>3. CASE ReadLimit(s)
  <2>1. NoRow(s) /\ pc[s] = "limit" /\ pc'[s] \in {"record", "count"}
    BY <1>3 DEF TypeOK, ReadLimit, Goto
  <2>2. QED
    BY <1>3, <2>1 DEF ReadLimit
<1>4. CASE Count(s)
  <2>1. NoRow(s) /\ pc[s] = "count" /\ pc'[s] \in {"record", "refused"}
    BY <1>4 DEF TypeOK, Count, Goto, Return
  <2>2. QED
    BY <1>4, <2>1 DEF Count
<1>5. CASE Record(s)
  <2>1. (NoRow(s) \/ AddsRow(s)) /\ pc[s] = "record" /\ pc'[s] = "send"
    BY <1>5 DEF TypeOK, Record, Insert, Goto, Return
  <2>2. QED
    BY <1>5, <2>1 DEF Record
<1>6. CASE Deliver(s)
  <2>1. NoRow(s) /\ pc[s] = "send" /\ pc'[s] \in {"store", "undo"}
    BY <1>6 DEF TypeOK, Deliver, Goto
  <2>2. QED
    BY <1>6, <2>1 DEF Deliver, Reach
<1>7. CASE Store(s)
  <2>1. NoRow(s) /\ pc[s] = "store" /\ pc'[s] = "ok"
    BY <1>7 DEF TypeOK, Store, Goto
  <2>2. QED
    BY <1>7, <2>1 DEF Store
<1>8. CASE Undo(s)
  <2>1. \/ TakesBack(s) /\ NoFault
        \/ /\ NoRow(s) /\ pc[s] = "undo" /\ pc'[s] = "failed"
           /\ (~(scoped[s] /\ recorded[s]) /\ NoFault) \/ Fault
    BY <1>8 DEF TypeOK, Undo, MustForget, Goto
  <2>2. QED
    BY <1>8, <2>1 DEF Undo
<1>9. CASE Drop(s)
  <2>1. /\ NoRow(s) \/ AddsRow(s)
        /\ pc[s] \notin Ended \cup {"wait"} /\ pc'[s] = "dropped"
    BY <1>9 DEF TypeOK, Drop, Insert, Goto, Return
  <2>2. QED
    BY <1>9, <2>1 DEF Drop, Ended
<1>10. QED
  BY <1>1, <1>2, <1>3, <1>4, <1>5, <1>6, <1>7, <1>8, <1>9 DEF Step

LEMMA EarnedStep ==
  TypeOK /\ AdmitInv /\ RowsAreEarned /\ [Next]_vars => RowsAreEarned'
<1> SUFFICES ASSUME TypeOK, AdmitInv, RowsAreEarned, [Next]_vars
             PROVE  RowsAreEarned'
  OBVIOUS
<1>1. ASSUME NEW s \in Sends, Step(s) \/ Drop(s)
      PROVE  RowsAreEarned'
  <2>1. Others(s)
    BY <1>1, OthersStay
  <2>2. /\ NoRow(s) \/ AddsRow(s) \/ TakesBack(s)
        /\ pc[s] \notin {"ok", "failed", "forgot", "refused", "dropped"}
        /\ \/ pc[s] = "wait" /\ pc'[s] = "lookup" /\ NoRow(s)
           \/ pc[s] # "wait" /\ to'[s] = to[s] /\ scoped'[s] = scoped[s]
        /\ pc'[s] = "forgot" => TakesBack(s)
        /\ pc'[s] = "failed" => pc[s] = "undo" /\ ((scoped[s] /\ recorded[s]) => Fault)
        /\ reached \subseteq reached'
        /\ Fault \/ NoFault
    BY <1>1, RowSteps
  <2>3. /\ \A r \in Sends \ {s} : Counts(r)' <=> Counts(r)
        /\ pc[s] = "wait" => ~recorded[s]
        /\ pc[s] \in Locked => ~recorded[s]
        /\ pc[s] = "record" => to[s] \notin started
    BY <2>1
    DEF Others, Counts, AdmitInv, SendsAreFresh, Fresh, FindingsHold, Finding, Locked
  <2>4. CASE NoRow(s)
    <3>1. (Counts(s)' <=> Counts(s)) /\ (Counts(s) => to'[s] = to[s])
      <4>1. Counts(s) => to[s] \in started
        BY DEF RowsAreEarned
      <4>2. Counts(s) => pc'[s] # "forgot"
        BY <2>2, <2>4, <4>1 DEF NoRow, TakesBack
      <4>3. QED
        BY <2>2, <2>3, <2>4, <4>2 DEF NoRow, Counts
    <3>2. \A r \in Sends : (Counts(r)' <=> Counts(r)) /\ (Counts(r) => to'[r] = to[r])
      BY <2>1, <2>3, <3>1 DEF Others
    <3>3. /\ \A c \in started' : c \in reached' \/ \E r \in Sends : Counts(r)' /\ to'[r] = c
          /\ \A r, q \in Sends : Counts(r)' /\ Counts(q)' /\ to'[r] = to'[q] => r = q
          /\ \A r \in Sends : Counts(r)' => to'[r] \in started'
      BY <2>2, <2>4, <3>2 DEF NoRow, RowsAreEarned
    <3>4. ASSUME NEW r \in Sends, pc'[r] = "failed", scoped'[r], faults' = 0
          PROVE  ~recorded'[r]
      <4>1. faults = 0 /\ ~Fault
        BY <2>2, <3>4 DEF TypeOK, Fault, NoFault
      <4>2. QED
        BY <2>1, <2>2, <2>4, <3>4, <4>1 DEF Others, NoRow, RowsAreEarned
    <3>5. QED
      BY <3>3, <3>4 DEF RowsAreEarned
  <2>5. CASE AddsRow(s)
    <3>1. /\ Counts(s)' /\ to'[s] = to[s] /\ pc'[s] # "failed" /\ to[s] \notin started
          /\ started' = started \cup {to[s]}
      BY <2>2, <2>3, <2>5 DEF AddsRow, Counts, TypeOK, NoRow
    <3>2. \A r \in Sends \ {s} : to'[r] = to[r] /\ (Counts(r)' <=> Counts(r))
      BY <2>1, <2>3 DEF Others
    <3>3. /\ \A c \in started' : c \in reached' \/ \E r \in Sends : Counts(r)' /\ to'[r] = c
          /\ \A r, q \in Sends : Counts(r)' /\ Counts(q)' /\ to'[r] = to'[q] => r = q
          /\ \A r \in Sends : Counts(r)' => to'[r] \in started'
      <4>0. ~Counts(s)
        BY <2>3, <2>5 DEF AddsRow, Counts, Locked
      <4>1. \A r \in Sends \ {s} : Counts(r) => to[r] \in started
        BY DEF RowsAreEarned
      <4>2. ASSUME NEW c \in started', c \notin reached'
            PROVE  \E r \in Sends : Counts(r)' /\ to'[r] = c
        <5>1. CASE c = to[s]
          BY <3>1, <5>1
        <5>2. CASE c \in started
          <6>1. PICK r \in Sends : Counts(r) /\ to[r] = c
            BY <2>2, <4>2, <5>2 DEF RowsAreEarned
          <6>2. QED
            BY <3>2, <4>0, <6>1
        <5>3. QED
          BY <3>1, <4>2, <5>1, <5>2
      <4>3. \A r, q \in Sends : Counts(r)' /\ Counts(q)' /\ to'[r] = to'[q] => r = q
        BY <3>1, <3>2, <4>1 DEF RowsAreEarned
      <4>4. QED
        BY <3>1, <3>2, <4>1, <4>2, <4>3
    <3>4. ASSUME NEW r \in Sends, pc'[r] = "failed", scoped'[r], faults' = 0
          PROVE  ~recorded'[r]
      <4>1. r # s /\ faults = 0
        BY <2>2, <3>1, <3>4 DEF TypeOK, Fault, NoFault
      <4>2. QED
        BY <2>1, <3>4, <4>1 DEF Others, RowsAreEarned
    <3>5. QED
      BY <3>3, <3>4 DEF RowsAreEarned
  <2>6. CASE TakesBack(s)
    <3>1. /\ Counts(s) /\ ~Counts(s)' /\ to'[s] = to[s] /\ pc'[s] # "failed"
          /\ started' = started \ {to[s]}
      BY <2>2, <2>6 DEF TakesBack, Counts
    <3>2. \A r \in Sends \ {s} :
            to'[r] = to[r] /\ (Counts(r)' <=> Counts(r)) /\ (Counts(r) => to[r] # to[s])
      BY <2>1, <2>3, <3>1 DEF Others, RowsAreEarned
    <3>3. /\ \A c \in started' : c \in reached' \/ \E r \in Sends : Counts(r)' /\ to'[r] = c
          /\ \A r, q \in Sends : Counts(r)' /\ Counts(q)' /\ to'[r] = to'[q] => r = q
          /\ \A r \in Sends : Counts(r)' => to'[r] \in started'
      <4>1. ASSUME NEW c \in started', c \notin reached'
            PROVE  \E r \in Sends : Counts(r)' /\ to'[r] = c
        <5>1. PICK r \in Sends : Counts(r) /\ to[r] = c
          BY <2>2, <3>1, <4>1 DEF RowsAreEarned
        <5>2. QED
          BY <3>1, <3>2, <4>1, <5>1
      <4>2. \A r, q \in Sends : Counts(r)' /\ Counts(q)' /\ to'[r] = to'[q] => r = q
        BY <3>1, <3>2 DEF RowsAreEarned
      <4>3. \A r \in Sends : Counts(r)' => to'[r] \in started'
        BY <3>1, <3>2 DEF RowsAreEarned
      <4>4. QED
        BY <4>1, <4>2, <4>3
    <3>4. ASSUME NEW r \in Sends, pc'[r] = "failed", scoped'[r], faults' = 0
          PROVE  ~recorded'[r]
      <4>1. r # s /\ faults = 0
        BY <2>2, <3>1, <3>4 DEF TypeOK, Fault, NoFault
      <4>2. QED
        BY <2>1, <3>4, <4>1 DEF Others, RowsAreEarned
    <3>5. QED
      BY <3>3, <3>4 DEF RowsAreEarned
  <2>7. QED
    BY <2>2, <2>4, <2>5, <2>6
<1>2. ASSUME UNCHANGED <<started, pc, to, scoped, recorded, reached>>,
             faults' = 0 => faults = 0
      PROVE  RowsAreEarned'
  BY <1>2 DEF RowsAreEarned, Counts
<1>3. (~ \E s \in Sends : Step(s) \/ Drop(s)) =>
        UNCHANGED <<started, pc, to, scoped, recorded, reached>> /\ (faults' = 0 => faults = 0)
  <2> USE DEF tables, sendVars, limitVars
  <2>1. ASSUME NEW o \in Operators, InsertLimit(o)
        PROVE  faults' = 0 => faults = 0
    BY <2>1 DEF InsertLimit, Fault, NoFault, TypeOK
  <2>2. QED
    BY <2>1 DEF Next, Incoming, DeleteLimit, InsertLimit, Second, vars
<1>4. QED
  BY <1>1, <1>2, <1>3

\* Every chat that counts was started or belongs to the one send that recorded it and
\* has not been rolled back (record, rollback_failed_sends, INSERT OR IGNORE).
THEOREM RowsAreEarnedAlways == Spec => []RowsAreEarned
<1>1. Init => RowsAreEarned
  BY DEF Init, RowsAreEarned, Counts
<1>2. QED
  BY <1>1, AdmitSafety, EarnedStep, PTL DEF Spec

LEMMA AccountedStep ==
  /\ TypeOK /\ AdmitInv
  /\ ReachedIsKnown /\ SendsAreAccounted
  /\ [Next]_vars
  => ReachedIsKnown' /\ SendsAreAccounted'
<1> SUFFICES ASSUME TypeOK, AdmitInv, ReachedIsKnown, SendsAreAccounted, [Next]_vars,
                    faults' = 0
             PROVE  /\ \A c \in reached' : Accounted(c)'
                    /\ \A s \in Sends : pc'[s] = "send" => Accounted(to[s])'
  BY DEF ReachedIsKnown, SendsAreAccounted
<1> USE DEF tables, limitVars, sendVars
<1>0. ~Fault
  BY DEF TypeOK, Fault
<1>1. ASSUME NEW s \in Sends, Step(s) \/ Drop(s)
      PROVE  /\ faults = 0 /\ Others(s)
             /\ \A c \in Chats : Accounted(c) => Accounted(c)'
  <2>1. faults = 0 /\ Others(s)
    BY <1>0, <1>1, RowSteps, OthersStay DEF NoFault
  <2>2. /\ NoRow(s) \/ AddsRow(s) \/ TakesBack(s)
        /\ pc[s] \notin {"ok", "failed", "forgot", "refused", "dropped"}
        /\ pc[s] = "wait" \/ to'[s] = to[s]
    BY <1>1, RowSteps
  <2>3. messaged \subseteq messaged'
    BY <1>1
    DEF Step, Lock, Lookup, ReadLimit, Count, Record, Deliver, Store, Undo, Drop
  <2>4. ASSUME NEW c \in Chats, Accounted(c)
        PROVE  Accounted(c)'
    <3>1. CASE \E r \in Sends : to[r] = c /\ recorded[r] /\ pc[r] = "forgot"
      BY <2>1, <2>2, <3>1 DEF Accounted, Others
    <3>2. CASE c \in messaged
      BY <2>3, <3>2 DEF Accounted, Known
    <3>3. CASE c \in started /\ c \in started'
      BY <3>3 DEF Accounted, Known
    <3>4. CASE c \in started /\ c \notin started'
      <4>1. TakesBack(s) /\ c = to[s]
        BY <2>2, <3>4 DEF NoRow, AddsRow, TakesBack
      <4>2. to'[s] = c /\ recorded'[s] /\ pc'[s] = "forgot"
        BY <2>2, <4>1 DEF TakesBack
      <4>3. QED
        BY <4>2 DEF Accounted
    <3>5. QED
      BY <2>4, <3>1, <3>2, <3>3, <3>4 DEF Accounted, Known
  <2>5. QED
    BY <2>1, <2>4
<1>2. ASSUME NEW s \in Sends, Step(s) \/ Drop(s), pc'[s] = "send"
      PROVE  to'[s] = to[s] /\ to[s] \in Chats /\ Accounted(to[s])'
  <2>1. \/ Lookup(s) /\ Known(to[s]) /\ UNCHANGED <<started, messaged>>
        \/ Record(s) /\ to[s] \in started'
    <3>1. Lookup(s) \/ Record(s)
      BY <1>2 DEF Step, Lock, ReadLimit, Count, Deliver, Store, Undo, Drop, Return, Goto, TypeOK
    <3>2. CASE Lookup(s)
      BY <1>0, <1>2, <3>2 DEF Lookup, Goto, TypeOK
    <3>3. CASE Record(s)
      BY <1>0, <3>3 DEF Record, Insert
    <3>4. QED
      BY <3>1, <3>2, <3>3
  <2>2. to' = to
    BY <2>1 DEF Lookup, Record
  <2>3. to[s] \in Chats
    BY <2>1 DEF Lookup, Record, AdmitInv, SendsAreFresh, Fresh
  <2>4. Accounted(to[s])'
    BY <2>1, <2>2 DEF Accounted, Known
  <2>5. QED
    BY <2>2, <2>3, <2>4
<1>3. ASSUME NEW s \in Sends, Step(s) \/ Drop(s)
      PROVE  /\ \A c \in reached' : Accounted(c)'
             /\ \A r \in Sends : pc'[r] = "send" => Accounted(to[r])'
  <2>1. \A c \in Chats : Accounted(c) => Accounted(c)'
    BY <1>1, <1>3
  <2>2. ASSUME NEW c \in reached'
        PROVE  Accounted(c)'
    <3>1. c \in reached \/ (pc[s] = "send" /\ c = to[s])
      BY <1>3
      DEF Step, Lock, Lookup, ReadLimit, Count, Record, Deliver, Reach, Store, Undo, Drop
    <3>2. c \in Chats /\ Accounted(c)
      BY <1>1, <1>3, <3>1
      DEF ReachedIsKnown, SendsAreAccounted, TypeOK, AdmitInv, SendsAreFresh, Fresh
    <3>3. QED
      BY <2>1, <3>2
  <2>3. ASSUME NEW r \in Sends, pc'[r] = "send"
        PROVE  Accounted(to[r])'
    <3>1. CASE r = s
      BY <1>2, <1>3, <2>3, <3>1
    <3>2. CASE r # s
      <4>1. pc[r] = "send" /\ to'[r] = to[r]
        BY <1>1, <1>3, <2>3, <3>2 DEF Others
      <4>2. to[r] \in Chats /\ Accounted(to[r])
        BY <1>1, <1>3, <4>1 DEF SendsAreAccounted, AdmitInv, SendsAreFresh, Fresh
      <4>3. QED
        BY <2>1, <4>1, <4>2 DEF Accounted, Known
    <3>3. QED
      BY <3>1, <3>2
  <2>4. QED
    BY <2>2, <2>3
<1>4. CASE ~ \E s \in Sends : Step(s) \/ Drop(s)
  <2>1. /\ UNCHANGED <<started, pc, to, recorded, reached>> /\ messaged \subseteq messaged'
        /\ faults = 0
    <3>1. ASSUME NEW o \in Operators, InsertLimit(o)
          PROVE  faults = 0
      BY <1>0, <3>1 DEF InsertLimit, NoFault
    <3>2. QED
      BY <1>4, <3>1 DEF Next, Incoming, DeleteLimit, InsertLimit, Second, vars
  <2>2. \A c \in Chats : Accounted(c) => Accounted(c)'
    BY <2>1 DEF Accounted, Known
  <2>3. \A s \in Sends : Accounted(to[s]) => Accounted(to[s])'
    BY <2>1 DEF Accounted, Known
  <2>4. QED
    BY <2>1, <2>2, <2>3 DEF ReachedIsKnown, SendsAreAccounted, TypeOK
<1>5. QED
  BY <1>3, <1>4

\* While nothing breaks, a chat that was started is on record, in the history or in the
\* messages, or the send that recorded it failed (admit, record_outgoing, forget).
THEOREM ReachedIsKnownAlways == Spec => []ReachedIsKnown
<1>1. Init => ReachedIsKnown /\ SendsAreAccounted
  BY DEF Init, ReachedIsKnown, SendsAreAccounted, Accounted, Known
<1>2. QED
  BY <1>1, AdmitSafety, AccountedStep, PTL DEF Spec
=============================================================================
