-------------------------- MODULE SignQueueProofs --------------------------
(***************************************************************************)
(* Proofs about SignQueue, for any number of guards, messages and          *)
(* handlers, running in any order.                                         *)
(***************************************************************************)
EXTENDS SignQueue, FiniteSetTheorems, TLAPS

-----------------------------------------------------------------------------
\* The inductive invariant

\* Steps before which a handler awaits signAccessMutex, and steps before which
\* it holds it across another await.
Waiting == {"push", "cleanSigns", "record", "count", "join", "fail", "remove"}
Holding == {"tell", "begin", "posting"}
Free == PCs \ (Waiting \cup Holding)

\* In the queue L of the mutex, t stands before u.
Before(L, t, u) == \E i, j \in DOMAIN L : i < j /\ L[i][1] = t /\ L[j][1] = u

\* The queue L of the mutex and the steps pc of the handlers: exactly those who
\* hold it or wait for it are in its queue, once, the holder first.
LockOK(L, pc) ==
  /\ L \in Seq(Tasks \X Waiting)
  /\ \A i \in DOMAIN L : pc[L[i][1]] = L[i][2] \/ (i = 1 /\ pc[L[i][1]] \in Holding)
  /\ \A i, j \in DOMAIN L : L[i][1] = L[j][1] => i = j
  /\ \A t \in Tasks : pc[t] \in Holding => L # <<>> /\ Head(L)[1] = t
  /\ \A t \in Tasks : pc[t] \in Waiting => \E i \in DOMAIN L : L[i][1] = t

pcs == [t \in Tasks |-> task[t].pc]
LockInv == LockOK(signLock, pcs)

\* Steps of a handler that is about a message, and that is about an entry of it.
AboutEntry == {"pk", "count", "tell", "begin", "posting", "fail", "approved", "join",
               "verify", "remove"}
AboutMsg == AboutEntry \cup {"push", "check", "store"}

HasEntry(e, m) == e \in Tasks /\ entry[e] # None /\ entry[e].msg = m

\* What a handler k found before its await, and still relies on after it.
HandlerOK(k) ==
  /\ k.pc \in AboutMsg => k.msg \in Msgs
  /\ k.pc \in {"check", "store", "send", "record"} => k.round \in Nat
  /\ k.pc \in AboutEntry => HasEntry(k.ref, k.msg)
  /\ k.pc \in {"pk", "count"} => k.from \in Guards \ {Me}
  /\ k.pc \in {"count", "tell", "begin"} => entry[k.ref].request # None
  /\ k.pc \in {"send", "record"} =>
       k.todo # <<>> /\ \A e \in Elements(k.todo) : entry[e] # None

HandlerInv ==
  /\ \A t \in Tasks : HandlerOK(task[t])
  /\ \A t \in Tasks : task[t].pc \in {"idle", "push"} => entry[t] = None
  /\ \A r \in Elements(pendings) : pend[r] # None
  /\ \A e \in running : entry[e] # None

\* An entry whose ceremony was handed to tss-api is marked for ever.
PostInv ==
  /\ \A p \in posts : entry[p.entry] # None /\ entry[p.entry].posted
  /\ PostedOnce

\* An entry with a request has this guard's approval of it; who is about to
\* send the start message has counted enough approvals.
QuorumInv ==
  /\ \A e \in Tasks : entry[e] # None => entry[e].sigs[Me] = entry[e].request
  /\ \A t \in Tasks : At(t, "tell") => Cardinality(Approved(entry[task[t].ref])) >= Threshold
  /\ StartCarriesQuorum

\* Who is about to start a ceremony will find the entry.
StartInv ==
  /\ \A t \in Tasks : task[t].pc \in {"tell", "begin"} => GetSign(task[t].msg) # None
  /\ StarterStarts

\* If calls of sign do not overlap: a message is queued once, or about to be
\* queued once; who removes the entries of a message removes answered ones, and
\* a later call of sign for it waits behind him.
OnePush ==
  \A t, u \in Tasks : At(t, "push") /\ At(u, "push") /\ task[t].msg = task[u].msg => t = u

PushNew == \A t \in Tasks, e \in Queued : At(t, "push") => entry[e].msg # task[t].msg

PostingQueued == \A t \in Tasks : At(t, "posting") => task[t].ref \in Queued

Removes(t) == task[t].pc \in {"fail", "remove"}

RemovesAnswered ==
  \A t \in Tasks, e \in Queued :
    Removes(t) /\ entry[e].msg = task[t].msg =>
      \/ At(t, "fail") /\ e = task[t].ref
      \/ e \in answered \/ task[t].msg \in cache

RemovesFirst ==
  \A t, u \in Tasks :
    Removes(t) /\ At(u, "push") /\ task[u].msg = task[t].msg =>
      Before(signLock, t, u) \/ task[t].msg \in cache

LossInv ==
  /\ NoDuplicates /\ OnePush /\ PushNew /\ PostingQueued
  /\ RemovesAnswered /\ RemovesFirst

BaseInv == TypeOK /\ HandlerInv /\ LockInv

-----------------------------------------------------------------------------
\* Sequences

\* Kept(s, S) is a subsequence of s, with the elements of s that are in S.
LEMMA KeptFacts ==
  ASSUME NEW T, NEW s \in Seq(T), NEW S
  PROVE  /\ Kept(s, S) \in Seq(T)
         /\ Elements(Kept(s, S)) = Elements(s) \cap S
         /\ \A k, l \in DOMAIN Kept(s, S) : k < l =>
              \E i, j \in DOMAIN s :
                i < j /\ Kept(s, S)[k] = s[i] /\ Kept(s, S)[l] = s[j]
  <1> DEFINE I == {i \in DOMAIN s : s[i] \in S}
             c == Cardinality(I)
             Upto(i) == {j \in I : j <= i}
             rank == [i \in I |-> Cardinality(Upto(i))]
             at == [k \in 1 .. c |-> CHOOSE i \in I : Cardinality(Upto(i)) = k]
  <1>1. DOMAIN s = 1 .. Len(s) /\ Len(s) \in Nat /\ I \subseteq 1 .. Len(s)
    OBVIOUS
  <1>2. IsFiniteSet(I) /\ c \in Nat
    <2>1. IsFiniteSet(1 .. Len(s))
      BY <1>1, FS_Interval
    <2>2. IsFiniteSet(I)
      BY <2>1, <1>1, FS_Subset
    <2> QED
      BY <2>2, FS_CardinalityType
  <1>3. \A i \in I : IsFiniteSet(Upto(i)) /\ Cardinality(Upto(i)) \in Nat
                     /\ Cardinality(Upto(i)) <= c
    BY <1>2, FS_Subset, FS_CardinalityType
  <1>4. \A i \in I : Cardinality(Upto(i)) # 0
    <2> TAKE i \in I
    <2>1. i \in Upto(i)
      BY <1>1
    <2> QED
      BY <2>1, <1>3, FS_EmptySet
  <1>4a. I \subseteq Nat
    BY <1>1
  <1>5. \A i, j \in I : i < j => Cardinality(Upto(i)) < Cardinality(Upto(j))
    <2> SUFFICES ASSUME NEW i \in I, NEW j \in I, i < j
                 PROVE  Cardinality(Upto(i)) < Cardinality(Upto(j))
      OBVIOUS
    <2>1. Upto(i) \subseteq Upto(j) /\ j \in Upto(j) /\ j \notin Upto(i)
      BY <1>1
    <2>2. /\ Cardinality(Upto(i)) <= Cardinality(Upto(j))
          /\ Cardinality(Upto(j)) = Cardinality(Upto(i)) => Upto(j) = Upto(i)
      BY <2>1, <1>3, FS_Subset
    <2>3. Cardinality(Upto(j)) # Cardinality(Upto(i))
      BY <2>1, <2>2
    <2>4. Cardinality(Upto(i)) \in Nat /\ Cardinality(Upto(j)) \in Nat
      BY <1>3
    <2> HIDE DEF Upto, I
    <2> QED
      BY <2>2, <2>3, <2>4
  <1>6. rank \in Injection(I, 1 .. c)
    <2>1. \A i \in I : rank[i] \in 1 .. c
      <3> TAKE i \in I
      <3>1. /\ Cardinality(Upto(i)) \in Nat /\ Cardinality(Upto(i)) # 0
            /\ Cardinality(Upto(i)) <= c
        BY <1>3, <1>4
      <3> HIDE DEF Upto, c
      <3> QED
        BY <3>1, <1>2
    <2>2. \A i, j \in I : rank[i] = rank[j] => i = j
      <3> SUFFICES ASSUME NEW i \in I, NEW j \in I, i # j PROVE rank[i] # rank[j]
        OBVIOUS
      <3>1. i < j \/ j < i
        BY <1>4a
      <3>2. rank[i] = Cardinality(Upto(i)) /\ rank[j] = Cardinality(Upto(j))
        OBVIOUS
      <3>3. rank[i] \in Nat /\ rank[j] \in Nat
        BY <3>2, <1>3
      <3>4. (i < j => rank[i] < rank[j]) /\ (j < i => rank[j] < rank[i])
        BY <3>2, <1>5
      <3> HIDE DEF rank
      <3> QED
        BY <3>1, <3>3, <3>4
    <2> QED
      BY <2>1, <2>2 DEF Injection, IsInjective
  <1>7. rank \in Surjection(I, 1 .. c)
    <2>1. IsFiniteSet(1 .. c) /\ Cardinality(1 .. c) = c
      BY <1>2, FS_Interval
    <2> QED
      BY <1>6, <2>1, FS_Injection
  <1>8. \A k \in 1 .. c : at[k] \in I /\ rank[at[k]] = k
    <2> TAKE k \in 1 .. c
    <2>1. \E i \in I : rank[i] = k
      BY <1>7 DEF Surjection
    <2>2. \E i \in I : Cardinality(Upto(i)) = k
      BY <2>1
    <2> QED
      BY <2>2
  <1>9. Kept(s, S) = [k \in 1 .. c |-> s[at[k]]]
    BY DEF Kept
  <1>10. \A i \in I : rank[i] \in 1 .. c /\ at[rank[i]] = i
    BY <1>6, <1>8 DEF Injection, IsInjective
  <1>11. \A k, l \in 1 .. c : k < l => at[k] < at[l]
    <2> SUFFICES ASSUME NEW k \in 1 .. c, NEW l \in 1 .. c, k < l
                 PROVE  at[k] < at[l]
      OBVIOUS
    <2>1. at[k] \in I /\ at[l] \in I /\ rank[at[k]] = k /\ rank[at[l]] = l
      BY <1>8
    <2>2. at[l] < at[k] \/ at[l] = at[k] \/ at[k] < at[l]
      <3> HIDE DEF at, I, rank, c, Upto
      <3>1. at[k] \in Nat /\ at[l] \in Nat
        BY <2>1, <1>4a
      <3> QED
        BY <3>1
    <2>3. \A i, j \in I : i < j => rank[i] < rank[j]
      BY <1>5
    <2> HIDE DEF at, rank, I
    <2> QED
      BY <2>1, <2>2, <2>3
  <1> HIDE DEF I, c, rank, at
  <1>12. \A i \in I : i \in DOMAIN s /\ s[i] \in S /\ s[i] \in T
    BY DEF I
  <1>13. \A i \in DOMAIN s : s[i] \in S => i \in I
    BY DEF I
  <1>14. Kept(s, S) \in Seq(T)
    BY <1>2, <1>8, <1>9, <1>12
  <1>15. Elements(Kept(s, S)) = Elements(s) \cap S
    <2>1. DOMAIN Kept(s, S) = 1 .. c
      BY <1>9
    <2>2. \A k \in 1 .. c : Kept(s, S)[k] = s[at[k]]
      BY <1>9
    <2>3. \A x \in Elements(Kept(s, S)) : x \in Elements(s) \cap S
      BY <2>1, <2>2, <1>8, <1>12 DEF Elements
    <2>4. \A i \in I : s[i] \in Elements(Kept(s, S))
      BY <2>1, <2>2, <1>10 DEF Elements
    <2> QED
      BY <2>3, <2>4, <1>13 DEF Elements
  <1>16. \A k, l \in DOMAIN Kept(s, S) : k < l =>
           \E i, j \in DOMAIN s : i < j /\ Kept(s, S)[k] = s[i] /\ Kept(s, S)[l] = s[j]
    BY <1>8, <1>9, <1>11, <1>12
  <1> QED
    BY <1>14, <1>15, <1>16

\* First(s, S) is an element of s that is in S, or None if there is none.
LEMMA FirstFacts ==
  ASSUME NEW T, NEW s \in Seq(T), NEW S, None \notin T
  PROVE  /\ First(s, S) = None \/ First(s, S) \in Elements(s) \cap S
         /\ First(s, S) = None <=> Elements(s) \cap S = {}
  <1> DEFINE f == Kept(s, S)
  <1>1. f \in Seq(T) /\ Elements(f) = Elements(s) \cap S
    BY KeptFacts
  <1>2. First(s, S) = IF f = <<>> THEN None ELSE Head(f)
    BY DEF First
  <1> HIDE DEF f
  <1>3. f # <<>> => Head(f) \in Elements(f) /\ Head(f) \in T
    BY <1>1 DEF Elements
  <1>4. f = <<>> => Elements(f) = {}
    BY DEF Elements
  <1> QED
    BY <1>1, <1>2, <1>3, <1>4

LEMMA AppendElements ==
  ASSUME NEW T, NEW s \in Seq(T), NEW x \in T
  PROVE  Append(s, x) \in Seq(T) /\ Elements(Append(s, x)) = Elements(s) \cup {x}
  <1>1. /\ DOMAIN Append(s, x) = 1 .. Len(s) + 1
        /\ \A i \in 1 .. Len(s) : Append(s, x)[i] = s[i]
        /\ Append(s, x)[Len(s) + 1] = x
    OBVIOUS
  <1> QED
    BY <1>1 DEF Elements

-----------------------------------------------------------------------------
\* The queue of the mutex

\* A handler that neither holds nor awaits the mutex goes on without it.
LEMMA LockFree ==
  ASSUME NEW L, NEW pc \in [Tasks -> PCs], LockOK(L, pc), NEW t \in Tasks, pc[t] \in Free,
         NEW c \in Free
  PROVE  LockOK(L, [pc EXCEPT ![t] = c])
  BY DEF LockOK, Waiting, Holding, Free, PCs

\* It asks for the mutex.
LEMMA LockEnter ==
  ASSUME NEW L, NEW pc \in [Tasks -> PCs], LockOK(L, pc), NEW t \in Tasks, pc[t] \in Free,
         NEW c \in Waiting
  PROVE  LockOK(Append(L, <<t, c>>), [pc EXCEPT ![t] = c])
  <1> DEFINE x == <<t, c>>
             S == Tasks \X Waiting
             M == Append(L, x)
             n == Len(L)
             qc == [pc EXCEPT ![t] = c]
  <1>1. L \in Seq(Tasks \X Waiting) /\ n \in Nat /\ DOMAIN L = 1 .. n
    BY DEF LockOK
  <1>2. /\ M \in Seq(Tasks \X Waiting) /\ DOMAIN M = 1 .. n + 1
        /\ \A i \in 1 .. n : M[i] = L[i]
        /\ M[n + 1] = <<t, c>> /\ M # <<>>
    <2>1. x \in S /\ L \in Seq(S) /\ n \in Nat /\ DOMAIN L = 1 .. n
      BY <1>1
    <2>2. x = <<t, c>>
      OBVIOUS
    <2> HIDE DEF x, S
    <2>3. M \in Seq(S) /\ M # <<>>
      BY <2>1
    <2>4. DOMAIN M = 1 .. n + 1
      BY <2>1
    <2>5. (\A i \in 1 .. n : M[i] = L[i]) /\ M[n + 1] = x
      BY <2>1
    <2> QED
      BY <2>2, <2>3, <2>4, <2>5 DEF S
  <1>3. \A i \in 1 .. n : L[i][1] \in Tasks /\ L[i][2] \in Waiting
    BY <1>1
  <1>4. \A i \in 1 .. n : L[i][1] # t
    BY <1>1, <1>3 DEF LockOK, Waiting, Holding, Free
  <1>5. qc[t] = c /\ \A u \in Tasks : u # t => qc[u] = pc[u]
    OBVIOUS
  <1>6. c \notin Holding
    BY DEF Waiting, Holding
  <1>7. \A i \in 1 .. n : qc[L[i][1]] = L[i][2] \/ (i = 1 /\ qc[L[i][1]] \in Holding)
    BY <1>1, <1>3, <1>4, <1>5 DEF LockOK
  <1>8. \A u \in Tasks : qc[u] \in Holding => M # <<>> /\ Head(M)[1] = u
    <2> SUFFICES ASSUME NEW u \in Tasks, qc[u] \in Holding
                 PROVE  M # <<>> /\ Head(M)[1] = u
      OBVIOUS
    <2>1. L # <<>> /\ Head(L)[1] = u
      BY <1>5, <1>6 DEF LockOK
    <2>2. 1 \in 1 .. n /\ Head(M) = M[1] /\ Head(L) = L[1]
      BY <2>1, <1>1, <1>2
    <2> QED
      BY <2>1, <2>2, <1>2
  <1>9. \A u \in Tasks : qc[u] \in Waiting => \E i \in 1 .. n + 1 : M[i][1] = u
    <2> SUFFICES ASSUME NEW u \in Tasks, qc[u] \in Waiting
                 PROVE  \E i \in 1 .. n + 1 : M[i][1] = u
      OBVIOUS
    <2>1. CASE u = t
      BY <2>1, <1>1, <1>2
    <2>2. CASE u # t
      BY <2>2, <1>1, <1>2, <1>5 DEF LockOK
    <2> QED
      BY <2>1, <2>2
  <1>10. \A i, j \in 1 .. n + 1 : M[i][1] = M[j][1] => i = j
    <2>1. \A i \in 1 .. n + 1 : i \in 1 .. n \/ i = n + 1
      BY <1>1
    <2>2. \A i, j \in 1 .. n : L[i][1] = L[j][1] => i = j
      BY <1>1 DEF LockOK
    <2> HIDE DEF M, n
    <2> QED
      BY <2>1, <2>2, <1>2, <1>4
  <1>11. \A i \in 1 .. n + 1 : qc[M[i][1]] = M[i][2] \/ (i = 1 /\ qc[M[i][1]] \in Holding)
    <2>1. \A i \in 1 .. n + 1 : i \in 1 .. n \/ i = n + 1
      BY <1>1
    <2> HIDE DEF M, n, qc
    <2> QED
      BY <2>1, <1>2, <1>5, <1>7
  <1> HIDE DEF M, n, qc
  <1>12. LockOK(M, qc)
    BY <1>2, <1>8, <1>9, <1>10, <1>11 DEF LockOK
  <1> QED
    BY <1>12 DEF M, qc

\* The first of the queue goes on holding the mutex.
LEMMA LockHold ==
  ASSUME NEW L, NEW pc \in [Tasks -> PCs], LockOK(L, pc), NEW t \in Tasks,
         L # <<>>, Head(L)[1] = t, NEW c \in Holding
  PROVE  LockOK(L, [pc EXCEPT ![t] = c])
  <1>1. L \in Seq(Tasks \X Waiting) /\ 1 \in DOMAIN L /\ Head(L) = L[1]
    BY DEF LockOK
  <1>2. \A i \in DOMAIN L : L[i][1] \in Tasks
    BY <1>1
  <1>3. \A i \in DOMAIN L : L[i][1] = t => i = 1
    BY <1>1 DEF LockOK
  <1>4. c \notin Waiting
    BY DEF Waiting, Holding
  <1>5. \A u \in Tasks : pc[u] \in Holding => u = t
    BY DEF LockOK
  <1> QED
    BY <1>1, <1>2, <1>3, <1>4, <1>5 DEF LockOK

\* The first of the queue releases the mutex.
LEMMA LockLeave ==
  ASSUME NEW L, NEW pc \in [Tasks -> PCs], LockOK(L, pc), NEW t \in Tasks,
         L # <<>>, Head(L)[1] = t, NEW c \in Free
  PROVE  LockOK(Tail(L), [pc EXCEPT ![t] = c])
  <1> DEFINE M == Tail(L)
             n == Len(L)
             qc == [pc EXCEPT ![t] = c]
  <1>1. L \in Seq(Tasks \X Waiting) /\ n \in Nat \ {0} /\ DOMAIN L = 1 .. n /\ Head(L) = L[1]
    BY DEF LockOK
  <1>2. /\ M \in Seq(Tasks \X Waiting) /\ DOMAIN M = 1 .. n - 1
        /\ \A i \in 1 .. n - 1 : M[i] = L[i + 1]
    BY <1>1
  <1>3. \A i \in 1 .. n : L[i][1] \in Tasks /\ L[i][2] \in Waiting
    BY <1>1
  <1>4. \A i \in 1 .. n : L[i][1] = t => i = 1
    BY <1>1 DEF LockOK
  <1>5. qc[t] = c /\ \A u \in Tasks : u # t => qc[u] = pc[u]
    OBVIOUS
  <1>6. c \notin Holding /\ c \notin Waiting
    BY DEF Free
  <1>7. \A u \in Tasks : qc[u] \notin Holding
    BY <1>5, <1>6 DEF LockOK
  <1>8. \A i \in 1 .. n - 1 : i + 1 \in 1 .. n /\ i + 1 # 1
    BY <1>1
  <1>9. \A i \in 1 .. n - 1 : M[i][1] \in Tasks /\ M[i][1] # t
    <2> HIDE DEF M, n
    <2> QED
      BY <1>2, <1>3, <1>4, <1>8
  <1>10. \A i \in 1 .. n - 1 : qc[M[i][1]] = M[i][2]
    <2>1. \A i \in 1 .. n : i # 1 => pc[L[i][1]] = L[i][2]
      BY <1>1 DEF LockOK
    <2> HIDE DEF M, n, qc
    <2> QED
      BY <2>1, <1>2, <1>5, <1>8, <1>9
  <1>11. \A i, j \in 1 .. n - 1 : M[i][1] = M[j][1] => i = j
    <2>1. \A i, j \in 1 .. n : L[i][1] = L[j][1] => i = j
      BY <1>1 DEF LockOK
    <2> SUFFICES ASSUME NEW i \in 1 .. n - 1, NEW j \in 1 .. n - 1, M[i][1] = M[j][1]
                 PROVE  i = j
      OBVIOUS
    <2>2. i + 1 = j + 1
      <3> HIDE DEF M, n
      <3> QED
        BY <2>1, <1>2, <1>8
    <2> QED
      BY <2>2, <1>1
  <1>12. \A u \in Tasks : qc[u] \in Waiting => \E i \in 1 .. n - 1 : M[i][1] = u
    <2> SUFFICES ASSUME NEW u \in Tasks, qc[u] \in Waiting
                 PROVE  \E i \in 1 .. n - 1 : M[i][1] = u
      OBVIOUS
    <2>1. u # t /\ pc[u] \in Waiting
      BY <1>5, <1>6
    <2>2. PICK i \in 1 .. n : L[i][1] = u
      BY <2>1, <1>1 DEF LockOK
    <2>3. i - 1 \in 1 .. n - 1 /\ (i - 1) + 1 = i
      BY <2>1, <2>2, <1>1
    <2> HIDE DEF M, n
    <2> QED
      BY <2>2, <2>3, <1>2
  <1> HIDE DEF M, n, qc
  <1>13. LockOK(M, qc)
    BY <1>2, <1>7, <1>10, <1>11, <1>12 DEF LockOK
  <1> QED
    BY <1>13 DEF M, qc

-----------------------------------------------------------------------------
\* Looking up the queue

LEMMA GetAnyFacts ==
  ASSUME TypeOK, NEW m
  PROVE  /\ Queued \subseteq Tasks
         /\ GetAny(m) = None \/ (GetAny(m) \in Queued /\ entry[GetAny(m)].msg = m)
         /\ GetAny(m) = None <=> \A e \in Queued : entry[e].msg # m
  <1> DEFINE S == {e \in Queued : entry[e].msg = m}
  <1>1. queue \in Seq(Tasks) /\ None \notin Tasks
    BY SizeAssumption DEF TypeOK
  <1>2. /\ First(queue, S) = None \/ First(queue, S) \in Queued \cap S
        /\ First(queue, S) = None <=> Queued \cap S = {}
    BY <1>1, FirstFacts DEF Queued
  <1>3. Queued \subseteq Tasks
    BY <1>1 DEF Queued, Elements
  <1>4. GetAny(m) = First(queue, S)
    BY DEF GetAny
  <1> HIDE DEF Queued
  <1> QED
    BY <1>2, <1>3, <1>4

LEMMA GetSignFacts ==
  ASSUME TypeOK, NEW m, GetSign(m) # None
  PROVE  /\ GetSign(m) \in Queued /\ GetSign(m) \in Tasks
         /\ entry[GetSign(m)] # None /\ entry[GetSign(m)].msg = m
         /\ ~entry[GetSign(m)].posted /\ GetSign(m) = GetAny(m)
  BY GetAnyFacts DEF GetSign, TypeOK

LEMMA GetPendingFacts ==
  ASSUME TypeOK, NEW m
  PROVE  GetPending(m) = None \/ (GetPending(m) \in Elements(pendings) /\ GetPending(m) \in Tasks)
  <1> DEFINE S == {r \in Elements(pendings) : pend[r].msg = m}
  <1>1. pendings \in Seq(Tasks) /\ None \notin Tasks
    BY SizeAssumption DEF TypeOK
  <1>2. First(pendings, S) = None \/ First(pendings, S) \in Elements(pendings) \cap S
    BY <1>1, FirstFacts
  <1>3. Elements(pendings) \subseteq Tasks
    BY <1>1 DEF Elements
  <1> QED
    BY <1>2, <1>3 DEF GetPending

-----------------------------------------------------------------------------
\* Steps of a handler

LEMMA GotoFacts ==
  ASSUME TypeOK, NEW t \in Tasks, NEW pc \in PCs, Goto(t, pc)
  PROVE  /\ task' \in [Tasks -> Task]
         /\ task'[t] = [task[t] EXCEPT !.pc = pc]
         /\ \A u \in Tasks \ {t} : task'[u] = task[u]
  <1> DEFINE k == [task[t] EXCEPT !.pc = pc]
  <1>1. task \in [Tasks -> Task] /\ task[t] \in Task
    BY DEF TypeOK
  <1>2. k \in Task
    BY <1>1 DEF Task
  <1>3. task' = [task EXCEPT ![t] = k]
    BY DEF Goto
  <1> HIDE DEF k
  <1>4. /\ task' \in [Tasks -> Task]
        /\ task'[t] = k
        /\ \A u \in Tasks \ {t} : task'[u] = task[u]
    BY <1>1, <1>2, <1>3
  <1> QED
    BY <1>4 DEF k

LEMMA GotoFields ==
  ASSUME TypeOK, NEW t \in Tasks, NEW pc \in PCs, Goto(t, pc)
  PROVE  task'[t].pc = pc /\ task'[t].msg = task[t].msg /\ task'[t].ref = task[t].ref
  <1>1. task[t] \in Task
    BY DEF TypeOK
  <1> QED
    BY <1>1, GotoFacts DEF Task

LEMMA LaunchFacts ==
  ASSUME TypeOK, NEW t \in Tasks, NEW kind \in Kinds, NEW pc \in PCs, NEW m \in Msgs \cup {None},
         NEW ref \in Tasks \cup {None}, NEW from \in Guards \cup {None}, NEW r \in Nat \cup {None},
         Launch(t, kind, pc, m, ref, from, r)
  PROVE  /\ task' \in [Tasks -> Task]
         /\ At(t, "idle")
         /\ task'[t] = [kind |-> kind, pc |-> pc, msg |-> m, ref |-> ref,
                        from |-> from, round |-> r, todo |-> <<>>]
         /\ \A u \in Tasks \ {t} : task'[u] = task[u]
  BY DEF TypeOK, Launch, Task

LEMMA NextRequestFacts ==
  ASSUME TypeOK, NEW t \in Tasks, NEW todo \in Seq(Tasks), NEW r \in Nat \cup {None},
         \A e \in Elements(todo) : entry[e] # None, NextRequest(t, todo, r)
  PROVE  /\ task' \in [Tasks -> Task]
         /\ \A u \in Tasks \ {t} : task'[u] = task[u]
         /\ task'[t].pc \in {"done", "send"} /\ task'[t].round = r
         /\ task'[t].pc = "send" =>
              task'[t].todo # <<>> /\ \A e \in Elements(task'[t].todo) : entry[e] # None
  <1> DEFINE rest == Kept(todo, {e \in Elements(todo) : ~entry[e].posted})
             next == IF rest = <<>> THEN "done" ELSE "send"
  <1>1. rest \in Seq(Tasks) /\ Elements(rest) \subseteq Elements(todo)
    BY KeptFacts
  <1>2. task' = [task EXCEPT ![t].pc = next, ![t].todo = rest, ![t].round = r]
    BY DEF NextRequest
  <1>3. next \in PCs /\ next \in {"done", "send"} /\ (next = "send" => rest # <<>>)
    BY DEF PCs
  <1> HIDE DEF rest, next
  <1>4. task \in [Tasks -> Task]
    BY DEF TypeOK
  <1>5. /\ task' \in [Tasks -> Task]
        /\ \A u \in Tasks \ {t} : task'[u] = task[u]
        /\ task'[t].pc = next /\ task'[t].round = r /\ task'[t].todo = rest
    <2> DEFINE k == [task[t] EXCEPT !.pc = next, !.todo = rest, !.round = r]
    <2>1. task[t] \in Task
      BY <1>4
    <2>2. k \in Task /\ k.pc = next /\ k.round = r /\ k.todo = rest
      BY <2>1, <1>1, <1>3 DEF Task
    <2>3. task' = [task EXCEPT ![t] = k]
      BY <1>2
    <2> HIDE DEF k
    <2> QED
      BY <1>4, <2>2, <2>3
  <1> QED
    BY <1>1, <1>3, <1>5

-----------------------------------------------------------------------------
\* Entries

\* An entry stays, marked if it was marked, with a request if it had one.
EntriesLast ==
  \A e \in Tasks : entry[e] # None =>
    /\ entry'[e] # None /\ entry'[e].msg = entry[e].msg
    /\ entry[e].posted => entry'[e].posted
    /\ entry[e].request # None => entry'[e].request # None

LEMMA EntryChange ==
  ASSUME TypeOK, NEW e \in Tasks, NEW x \in Entry, entry' = [entry EXCEPT ![e] = x],
         entry[e] # None =>
           /\ x.msg = entry[e].msg
           /\ entry[e].posted => x.posted
           /\ entry[e].request # None => x.request # None
  PROVE  /\ entry' \in [Tasks -> Entry \cup {None}] /\ EntriesLast
         /\ entry'[e] = x /\ \A f \in Tasks \ {e} : entry'[f] = entry[f]
  BY NoneAssumption DEF TypeOK, EntriesLast

LEMMA PushEntry ==
  ASSUME BaseInv, NEW t \in Tasks, Push(t)
  PROVE  /\ entry' \in [Tasks -> Entry \cup {None}] /\ EntriesLast
         /\ entry[t] = None
         /\ entry'[t] = [msg |-> task[t].msg, added |-> round, posted |-> FALSE,
                         request |-> None, sigs |-> [g \in Guards |-> None]]
         /\ \A f \in Tasks \ {t} : entry'[f] = entry[f]
  <1> DEFINE x == [msg |-> task[t].msg, added |-> round, posted |-> FALSE,
                   request |-> None, sigs |-> [g \in Guards |-> None]]
  <1>1. task[t].pc = "push" /\ entry' = [entry EXCEPT ![t] = x]
    BY DEF Push, Granted, At
  <1>2. entry[t] = None /\ task[t].msg \in Msgs
    BY <1>1 DEF BaseInv, HandlerInv, HandlerOK, AboutMsg
  <1>3. x \in Entry
    BY <1>2 DEF Entry, BaseInv, TypeOK
  <1> HIDE DEF x
  <1>4. /\ entry' \in [Tasks -> Entry \cup {None}] /\ EntriesLast
        /\ entry'[t] = x /\ \A f \in Tasks \ {t} : entry'[f] = entry[f]
    BY <1>1, <1>2, <1>3, EntryChange DEF BaseInv
  <1> QED
    BY <1>2, <1>4 DEF x

LEMMA RecordEntry ==
  ASSUME BaseInv, NEW t \in Tasks, Record(t)
  PROVE  LET e == Head(task[t].todo)
         IN /\ e \in Tasks /\ entry[e] # None /\ task[t].round \in Nat
            /\ entry' \in [Tasks -> Entry \cup {None}] /\ EntriesLast
            /\ entry'[e].request = task[t].round /\ entry'[e].sigs[Me] = task[t].round
            /\ entry'[e].posted = entry[e].posted
            /\ \A f \in Tasks \ {e} : entry'[f] = entry[f]
  <1> DEFINE e == Head(task[t].todo)
             s == [g \in Guards |-> IF g = Me THEN task[t].round ELSE None]
             x == [entry[e] EXCEPT !.request = task[t].round, !.sigs = s]
  <1>1. task[t].pc = "record" /\ entry' = [entry EXCEPT ![e].request = task[t].round, ![e].sigs = s]
    BY DEF Record, Granted, At
  <1>2. /\ task[t].round \in Nat /\ task[t].todo \in Seq(Tasks) /\ task[t].todo # <<>>
        /\ \A f \in Elements(task[t].todo) : entry[f] # None
    BY <1>1 DEF BaseInv, HandlerInv, HandlerOK, TypeOK, Task
  <1>3. e \in Tasks /\ e \in Elements(task[t].todo)
    BY <1>2 DEF Elements
  <1>4. entry \in [Tasks -> Entry \cup {None}] /\ entry[e] \in Entry
    BY <1>2, <1>3 DEF BaseInv, TypeOK
  <1>5. s \in [Guards -> Nat \cup {None}] /\ s[Me] = task[t].round
    BY <1>2, SizeAssumption
  <1>6. entry' = [entry EXCEPT ![e] = x]
    BY <1>1, <1>3, <1>4
  <1> HIDE DEF s, e
  <1>7. /\ x \in Entry /\ x.msg = entry[e].msg /\ x.posted = entry[e].posted
        /\ x.request = task[t].round /\ x.sigs = s
    BY <1>2, <1>4, <1>5 DEF Entry
  <1> HIDE DEF x
  <1>8. x.request # None
    BY <1>2, <1>7, SizeAssumption
  <1>9. /\ entry' \in [Tasks -> Entry \cup {None}] /\ EntriesLast
        /\ entry'[e] = x /\ \A f \in Tasks \ {e} : entry'[f] = entry[f]
    BY <1>3, <1>6, <1>7, <1>8, EntryChange DEF BaseInv
  <1> QED
    BY <1>2, <1>3, <1>4, <1>5, <1>7, <1>9, NoneAssumption DEF e

LEMMA CountEntry ==
  ASSUME BaseInv, NEW t \in Tasks, Count(t)
  PROVE  LET e == task[t].ref
             x == [entry[e] EXCEPT !.sigs[task[t].from] = task[t].round]
         IN /\ e \in Tasks /\ entry[e] # None /\ entry[e].request # None
            /\ entry' \in [Tasks -> Entry \cup {None}] /\ EntriesLast
            /\ entry'[e] = x
            /\ x.msg = entry[e].msg /\ x.posted = entry[e].posted
            /\ x.request = entry[e].request /\ x.sigs[Me] = entry[e].sigs[Me]
            /\ \A f \in Tasks \ {e} : entry'[f] = entry[f]
  <1> DEFINE e == task[t].ref
             s == [entry[e].sigs EXCEPT ![task[t].from] = task[t].round]
             x == [entry[e] EXCEPT !.sigs = s]
  <1>1. task[t].pc = "count" /\ entry' = [entry EXCEPT ![e] = x]
    BY DEF Count, Granted, At
  <1>2. /\ HasEntry(e, task[t].msg) /\ entry[e].request # None
        /\ task[t].from \in Guards \ {Me}
        /\ task[t].round \in Nat \cup {None}
    BY <1>1 DEF BaseInv, HandlerInv, HandlerOK, AboutEntry, TypeOK, Task
  <1>3. e \in Tasks /\ entry[e] \in Entry /\ entry[e] # None
    BY <1>2 DEF BaseInv, TypeOK, HasEntry
  <1> HIDE DEF e
  <1>4. s \in [Guards -> Nat \cup {None}] /\ s[Me] = entry[e].sigs[Me]
    BY <1>2, <1>3, SizeAssumption DEF Entry
  <1> HIDE DEF s
  <1>5. /\ x \in Entry /\ x.msg = entry[e].msg /\ x.posted = entry[e].posted
        /\ x.request = entry[e].request /\ x.sigs = s
    BY <1>3, <1>4 DEF Entry
  <1>6. x = [entry[e] EXCEPT !.sigs[task[t].from] = task[t].round]
    BY <1>3 DEF s, Entry
  <1> HIDE DEF x
  <1>7. /\ entry' \in [Tasks -> Entry \cup {None}] /\ EntriesLast
        /\ entry'[e] = x /\ \A f \in Tasks \ {e} : entry'[f] = entry[f]
    BY <1>1, <1>3, <1>5, EntryChange DEF BaseInv
  <1> QED
    BY <1>2, <1>3, <1>4, <1>5, <1>6, <1>7 DEF e

\* The entry that startSign found, if it goes on.
LEMMA StartEntry ==
  ASSUME BaseInv, NEW t \in Tasks, GetSign(task[t].msg) # None,
         entry' = [entry EXCEPT ![GetSign(task[t].msg)].posted = TRUE]
  PROVE  LET e == GetSign(task[t].msg)
         IN /\ e \in Tasks /\ e \in Queued /\ entry[e] # None /\ ~entry[e].posted
            /\ entry[e].msg = task[t].msg
            /\ entry' \in [Tasks -> Entry \cup {None}] /\ EntriesLast
            /\ entry'[e].posted
            /\ entry'[e].request = entry[e].request /\ entry'[e].sigs = entry[e].sigs
            /\ \A f \in Tasks \ {e} : entry'[f] = entry[f]
  <1> DEFINE e == GetSign(task[t].msg)
             x == [entry[e] EXCEPT !.posted = TRUE]
  <1>1. /\ e \in Tasks /\ e \in Queued /\ entry[e] # None /\ ~entry[e].posted
        /\ entry[e].msg = task[t].msg
    BY GetSignFacts DEF BaseInv
  <1>2. entry \in [Tasks -> Entry \cup {None}] /\ entry[e] \in Entry
    BY <1>1 DEF BaseInv, TypeOK
  <1> HIDE DEF e
  <1>3. /\ x \in Entry /\ x.msg = entry[e].msg /\ x.posted
        /\ x.request = entry[e].request /\ x.sigs = entry[e].sigs
    BY <1>2 DEF Entry
  <1>4. entry' = [entry EXCEPT ![e] = x]
    BY <1>1, <1>2 DEF e
  <1> HIDE DEF x
  <1>5. /\ entry' \in [Tasks -> Entry \cup {None}] /\ EntriesLast
        /\ entry'[e] = x /\ \A f \in Tasks \ {e} : entry'[f] = entry[f]
    BY <1>1, <1>3, <1>4, EntryChange DEF BaseInv
  <1> QED
    BY <1>1, <1>3, <1>5 DEF e

LEMMA StepEntries ==
  ASSUME BaseInv, NEW t \in Tasks, Event(t) \/ Step(t)
  PROVE  /\ entry' \in [Tasks -> Entry \cup {None}] /\ EntriesLast
         /\ \A e \in Tasks : entry[e] = None /\ entry'[e] # None => Push(t) /\ e = t
  <1>1. CASE Push(t)
    BY <1>1, PushEntry
  <1>2. CASE Record(t)
    BY <1>2, RecordEntry
  <1>3. CASE Count(t)
    BY <1>3, CountEntry
  <1>4. CASE Begin(t) \/ Join(t)
    <2>1. \/ GetSign(task[t].msg) # None /\ entry' = [entry EXCEPT ![GetSign(task[t].msg)].posted = TRUE]
          \/ UNCHANGED entry
      BY <1>4 DEF Begin, Join, StartSign
    <2> QED
      BY <2>1, StartEntry DEF EntriesLast, BaseInv, TypeOK
  <1>5. CASE UNCHANGED entry
    BY <1>5 DEF EntriesLast, BaseInv, TypeOK
  <1> QED
    BY <1>1, <1>2, <1>3, <1>4, <1>5
       DEF Event, Step, Sign, Request, Start, Update, Cached, Approve, SignData, Answer, TooEarly,
           Store, CleanSigns, CleanPending, Turn, Active, Send, Ignore, Collect, Tell, Approvals,
           Posted, PostFails, Fail, Verify, Remove, state

-----------------------------------------------------------------------------
\* Types

\* The types of what a step of a handler may change.
TaskType == task' \in [Tasks -> Task]
QueueType == queue' \in Seq(Tasks) /\ \A e \in Queued' : entry'[e] # None
PendingType ==
  /\ pendings' \in Seq(Tasks) /\ pend' \in [Tasks -> [msg : Msgs, round : Nat] \cup {None}]
  /\ \A r \in Elements(pendings') : pend'[r] # None
HistoryType ==
  /\ requested' \subseteq [msg : Msgs, round : Nat]
  /\ starts' \subseteq [msg : Msgs, round : Nat, by : Tasks, sigs : [Guards -> Nat \cup {None}]]
  /\ posts' \subseteq [entry : Tasks, by : Tasks]
  /\ answered' \subseteq Tasks /\ cache' \subseteq Msgs
  /\ running' \subseteq Tasks /\ \A e \in running' : entry'[e] # None

LEMMA QueueTyped ==
  ASSUME BaseInv, NEW t \in Tasks, Event(t) \/ Step(t)
  PROVE  QueueType
  <1>1. EntriesLast
    BY StepEntries
  <1>2. queue \in Seq(Tasks) /\ \A e \in Queued : e \in Tasks /\ entry'[e] # None
    BY <1>1, GetAnyFacts DEF BaseInv, TypeOK, EntriesLast
  <1>3. CASE UNCHANGED queue
    BY <1>2, <1>3 DEF QueueType, Queued
  <1>4. ASSUME NEW S, queue' = Kept(queue, S)
        PROVE  QueueType
    <2>1. queue' \in Seq(Tasks) /\ Elements(queue') \subseteq Elements(queue)
      BY <1>2, <1>4, KeptFacts
    <2> QED
      BY <1>2, <2>1 DEF QueueType, Queued
  <1>5. CASE Push(t)
    <2>1. queue' = Append(queue, t)
      BY <1>5 DEF Push
    <2>2. queue' \in Seq(Tasks) /\ Elements(queue') = Elements(queue) \cup {t}
      BY <1>2, <2>1, AppendElements
    <2>3. entry'[t] # None
      <3>1. /\ entry' \in [Tasks -> Entry \cup {None}]
            /\ entry'[t] = [msg |-> task[t].msg, added |-> round, posted |-> FALSE,
                            request |-> None, sigs |-> [g \in Guards |-> None]]
        BY <1>5, PushEntry
      <3>2. task[t].msg \in Msgs /\ round \in Nat
        BY <1>5 DEF Push, Granted, At, BaseInv, HandlerInv, HandlerOK, AboutMsg, TypeOK
      <3>3. entry'[t] \in Entry
        BY <3>1, <3>2 DEF Entry
      <3> QED
        BY <3>3, NoneAssumption
    <2> QED
      BY <1>2, <2>2, <2>3 DEF QueueType, Queued
  <1>6. CASE CleanSigns(t)
    BY <1>6, <1>4 DEF CleanSigns
  <1>7. CASE Fail(t) \/ Remove(t)
    BY <1>7, <1>4 DEF Fail, Remove, Without
  <1> QED
    BY <1>3, <1>5, <1>6, <1>7
       DEF Event, Step, Sign, Request, Start, Update, Cached, Approve, SignData, Answer, TooEarly,
           Store, CleanPending, Turn, Active, Send, Record, Ignore, Collect, Count, Tell, Begin,
           Approvals, Join, Posted, PostFails, Verify, state

LEMMA PendingTyped ==
  ASSUME BaseInv, NEW t \in Tasks, Event(t) \/ Step(t)
  PROVE  PendingType
  <1>1. /\ pendings \in Seq(Tasks) /\ pend \in [Tasks -> [msg : Msgs, round : Nat] \cup {None}]
        /\ \A r \in Elements(pendings) : pend[r] # None
    BY DEF BaseInv, TypeOK, HandlerInv
  <1>2. CASE UNCHANGED <<pendings, pend>>
    BY <1>1, <1>2 DEF PendingType
  <1>3. CASE Store(t)
    <2> DEFINE r == IF task[t].ref = None THEN t ELSE task[t].ref
               x == [msg |-> task[t].msg, round |-> task[t].round]
    <2>1. /\ task[t].pc = "store"
          /\ pend' = [pend EXCEPT ![r] = x]
          /\ pendings' = IF r = t THEN Append(pendings, t) ELSE pendings
      BY <1>3 DEF Store, Granted, At
    <2>2. x \in [msg : Msgs, round : Nat] /\ r \in Tasks
      BY <2>1 DEF BaseInv, HandlerInv, HandlerOK, AboutMsg, TypeOK, Task
    <2> HIDE DEF x, r
    <2>3. /\ pend' \in [Tasks -> [msg : Msgs, round : Nat] \cup {None}]
          /\ pend'[r] = x /\ x # None
          /\ \A s \in Tasks \ {r} : pend'[s] = pend[s]
      BY <1>1, <2>1, <2>2, NoneAssumption
    <2>4. Append(pendings, t) \in Seq(Tasks) /\ Elements(Append(pendings, t)) = Elements(pendings) \cup {t}
      BY <1>1, AppendElements
    <2>5. Elements(pendings) \subseteq Tasks
      BY <1>1 DEF Elements
    <2> QED
      BY <1>1, <2>1, <2>3, <2>4, <2>5 DEF PendingType
  <1>4. CASE CleanPending(t)
    <2>1. PICK S : pendings' = Kept(pendings, S)
      BY <1>4 DEF CleanPending
    <2>2. pendings' \in Seq(Tasks) /\ Elements(pendings') \subseteq Elements(pendings)
      BY <1>1, <2>1, KeptFacts
    <2>3. UNCHANGED pend
      BY <1>4 DEF CleanPending
    <2> QED
      BY <1>1, <2>2, <2>3 DEF PendingType
  <1> QED
    BY <1>2, <1>3, <1>4
       DEF Event, Step, Sign, Request, Start, Update, Cached, Approve, SignData, Answer, TooEarly,
           Push, CleanSigns, Turn, Active, Send, Record, Ignore, Collect, Count, Tell, Begin,
           Approvals, Join, Posted, PostFails, Fail, Verify, Remove, StartSign, state

\* Every handler is about what it was about when it began its step.
LEMMA HandlerFacts ==
  ASSUME BaseInv, NEW t \in Tasks
  PROVE  /\ task[t] \in Task /\ HandlerOK(task[t])
         /\ task[t].pc \in AboutEntry =>
              /\ task[t].ref \in Tasks /\ entry[task[t].ref] \in Entry
              /\ entry[task[t].ref] # None /\ entry[task[t].ref].msg = task[t].msg
              /\ task[t].msg \in Msgs
         /\ task[t].pc \in {"send", "record"} =>
              /\ Head(task[t].todo) \in Tasks
              /\ entry[Head(task[t].todo)] \in Entry
              /\ task[t].round \in Nat
  <1>1. task[t] \in Task /\ HandlerOK(task[t]) /\ entry \in [Tasks -> Entry \cup {None}]
    BY DEF BaseInv, HandlerInv, TypeOK
  <1>2. task[t].pc \in AboutEntry =>
          /\ task[t].ref \in Tasks /\ entry[task[t].ref] \in Entry
          /\ entry[task[t].ref] # None /\ entry[task[t].ref].msg = task[t].msg
          /\ task[t].msg \in Msgs
    BY <1>1 DEF HandlerOK, HasEntry, AboutMsg
  <1>3. task[t].todo \in Seq(Tasks)
    BY <1>1 DEF Task
  <1>4. task[t].todo # <<>> => Head(task[t].todo) \in Tasks /\ Head(task[t].todo) \in Elements(task[t].todo)
    BY <1>3 DEF Elements
  <1>5. task[t].pc \in {"send", "record"} =>
          /\ Head(task[t].todo) \in Tasks
          /\ entry[Head(task[t].todo)] \in Entry
          /\ task[t].round \in Nat
    BY <1>1, <1>4 DEF HandlerOK
  <1> QED
    BY <1>1, <1>2, <1>5

LEMMA HistoryTyped ==
  ASSUME BaseInv, NEW t \in Tasks, Event(t) \/ Step(t)
  PROVE  HistoryType
  <1>1. /\ requested \subseteq [msg : Msgs, round : Nat]
        /\ starts \subseteq [msg : Msgs, round : Nat, by : Tasks, sigs : [Guards -> Nat \cup {None}]]
        /\ posts \subseteq [entry : Tasks, by : Tasks]
        /\ answered \subseteq Tasks /\ cache \subseteq Msgs
        /\ running \subseteq Tasks /\ \A e \in running : entry[e] # None
    BY DEF BaseInv, TypeOK, HandlerInv
  <1>2. \A e \in running : entry'[e] # None
    BY <1>1, StepEntries DEF EntriesLast
  <1>3. CASE UNCHANGED <<requested, starts, posts, answered, cache, running>>
    BY <1>1, <1>2, <1>3 DEF HistoryType
  <1>4. CASE Send(t)
    <2>1. task[t].pc = "send"
      BY <1>4 DEF Send, At
    <2>2. [msg |-> entry[Head(task[t].todo)].msg, round |-> task[t].round] \in [msg : Msgs, round : Nat]
      BY <2>1, HandlerFacts DEF Entry
    <2> QED
      BY <1>1, <1>2, <1>4, <2>2 DEF Send, HistoryType, state
  <1>5. CASE Tell(t)
    <2>1. task[t].pc = "tell"
      BY <1>5 DEF Tell, At
    <2>2. /\ entry[task[t].ref] \in Entry /\ entry[task[t].ref].request # None
          /\ task[t].msg \in Msgs
      BY <2>1, HandlerFacts DEF HandlerOK, AboutEntry
    <2>3. entry[task[t].ref].request \in Nat
          /\ entry[task[t].ref].sigs \in [Guards -> Nat \cup {None}]
      BY <2>2 DEF Entry
    <2>4. [msg |-> task[t].msg, round |-> entry[task[t].ref].request, by |-> t,
           sigs |-> entry[task[t].ref].sigs]
            \in [msg : Msgs, round : Nat, by : Tasks, sigs : [Guards -> Nat \cup {None}]]
      BY <2>2, <2>3
    <2> QED
      BY <1>1, <1>2, <1>5, <2>4 DEF Tell, HistoryType, state
  <1>6. CASE Begin(t) \/ Join(t)
    <2>1. UNCHANGED <<requested, starts, answered, cache>>
      BY <1>6 DEF Begin, Join
    <2>2. CASE UNCHANGED <<running, posts>>
      BY <1>1, <1>2, <2>1, <2>2 DEF HistoryType
    <2>3. CASE /\ GetSign(task[t].msg) # None
               /\ entry' = [entry EXCEPT ![GetSign(task[t].msg)].posted = TRUE]
               /\ running' = running \cup {GetSign(task[t].msg)}
               /\ posts' = posts \cup {[entry |-> GetSign(task[t].msg), by |-> t]}
      <3>1. GetSign(task[t].msg) \in Tasks /\ entry[GetSign(task[t].msg)] # None
        BY <2>3, GetSignFacts DEF BaseInv
      <3>2. entry'[GetSign(task[t].msg)] # None
        BY <3>1, StepEntries DEF EntriesLast
      <3> QED
        BY <1>1, <1>2, <2>1, <2>3, <3>1, <3>2 DEF HistoryType
    <2> QED
      BY <1>6, <2>2, <2>3 DEF Begin, Join, StartSign
  <1>7. CASE PostFails(t)
    BY <1>1, <1>2, <1>7 DEF PostFails, HistoryType, history
  <1>8. CASE Fail(t)
    <2>1. task[t].ref \in Tasks
      BY <1>8, HandlerFacts DEF Fail, Granted, At, AboutEntry
    <2> QED
      BY <1>1, <1>2, <1>8, <2>1 DEF Fail, HistoryType
  <1>9. CASE Verify(t)
    <2>1. task[t].ref \in Tasks /\ task[t].msg \in Msgs
      BY <1>9, HandlerFacts DEF Verify, At, AboutEntry
    <2> QED
      BY <1>1, <1>2, <1>9, <2>1 DEF Verify, HistoryType
  <1>10. ASSUME NEW op \in running, NEW ok \in BOOLEAN, SignData(t, op, ok)
         PROVE  HistoryType
    <2>1. entry[op].msg \in Msgs
      BY <1>1 DEF BaseInv, TypeOK, Entry
    <2>2. GetAny(entry[op].msg) # None => GetAny(entry[op].msg) \in Tasks
      BY GetAnyFacts DEF BaseInv
    <2> QED
      BY <1>1, <1>2, <1>10, <2>1, <2>2 DEF SignData, HistoryType
  <1> QED
    BY <1>3, <1>4, <1>5, <1>6, <1>7, <1>8, <1>9, <1>10
       DEF Event, Step, Sign, Request, Start, Update, Cached, Approve, Answer, TooEarly,
           Push, Store, CleanSigns, CleanPending, Turn, Active, Record, Ignore, Collect, Count,
           Approvals, Posted, Remove, state, history


-----------------------------------------------------------------------------
\* What a step of handler t does to the handlers and to the mutex

Holds(t) == signLock # <<>> /\ Head(signLock)[1] = t

\* t goes on without the mutex, asks for it, keeps it, releases it, or releases
\* it and asks for it again.
LockMove(t) ==
  \/ /\ task[t].pc \in Free /\ task'[t].pc \in Free /\ UNCHANGED signLock
  \/ /\ task[t].pc \in Free /\ task'[t].pc \in Waiting
     /\ signLock' = Append(signLock, <<t, task'[t].pc>>)
  \/ /\ Holds(t) /\ task'[t].pc \in Holding /\ UNCHANGED signLock
  \/ /\ Holds(t) /\ task'[t].pc \in Free /\ signLock' = Tail(signLock)
  \/ /\ Holds(t) /\ task'[t].pc \in Waiting
     /\ signLock' = Append(Tail(signLock), <<t, task'[t].pc>>)

Acts(t) ==
  /\ task' \in [Tasks -> Task]
  /\ \A u \in Tasks \ {t} : task'[u] = task[u]
  /\ HandlerOK(task[t])'
  /\ task'[t].pc # "idle" /\ (task'[t].pc = "push" => entry'[t] = None)
  /\ LockMove(t)

LEMMA LockMoves ==
  ASSUME BaseInv, NEW t \in Tasks, Acts(t)
  PROVE  LockInv'
  <1> DEFINE c == task'[t].pc
  <1>1. pcs \in [Tasks -> PCs] /\ pcs[t] = task[t].pc /\ LockOK(signLock, pcs)
    BY DEF BaseInv, TypeOK, LockInv, Task, pcs
  <1>2. pcs' = [pcs EXCEPT ![t] = c]
    BY DEF Acts, pcs
  <1>3. c \in PCs
    BY DEF Acts, Task
  <1>4. CASE task[t].pc \in Free /\ c \in Free /\ UNCHANGED signLock
    BY <1>1, <1>2, <1>4, LockFree DEF LockInv
  <1>5. CASE /\ task[t].pc \in Free /\ c \in Waiting /\ signLock' = Append(signLock, <<t, c>>)
    BY <1>1, <1>2, <1>5, LockEnter DEF LockInv
  <1>6. CASE Holds(t) /\ c \in Holding /\ UNCHANGED signLock
    BY <1>1, <1>2, <1>6, LockHold DEF LockInv, Holds
  <1>7. CASE Holds(t) /\ c \in Free /\ signLock' = Tail(signLock)
    BY <1>1, <1>2, <1>7, LockLeave DEF LockInv, Holds
  <1>8. CASE Holds(t) /\ c \in Waiting /\ signLock' = Append(Tail(signLock), <<t, c>>)
    <2> DEFINE qc == [pcs EXCEPT ![t] = "done"]
    <2>1. "done" \in Free /\ "done" \in PCs
      BY DEF Free, PCs, Waiting, Holding
    <2>2. LockOK(Tail(signLock), qc)
      BY <1>1, <1>8, <2>1, LockLeave DEF Holds
    <2>3. qc \in [Tasks -> PCs] /\ qc[t] \in Free /\ [qc EXCEPT ![t] = c] = [pcs EXCEPT ![t] = c]
      BY <1>1, <2>1
    <2> HIDE DEF qc
    <2>4. LockOK(Append(Tail(signLock), <<t, c>>), [qc EXCEPT ![t] = c])
      BY <1>8, <2>2, <2>3, LockEnter
    <2> QED
      BY <1>2, <1>8, <2>3, <2>4 DEF LockInv
  <1> QED
    BY <1>4, <1>5, <1>6, <1>7, <1>8 DEF Acts, LockMove

\* A handler goes on with what it was about.
LEMMA GotoHandler ==
  ASSUME BaseInv, NEW t \in Tasks, NEW c \in PCs \ {"idle", "push"}, Goto(t, c), EntriesLast,
         c \in AboutMsg => task[t].pc \in AboutMsg,
         c \in {"check", "store", "send", "record"} =>
           task[t].pc \in {"check", "store", "send", "record"},
         c \in AboutEntry => task[t].pc \in AboutEntry,
         c \in {"pk", "count"} => task[t].pc \in {"pk", "count"},
         c \in {"count", "tell", "begin"} => entry[task[t].ref].request # None,
         c \in {"send", "record"} => task[t].pc \in {"send", "record"}
  PROVE  /\ task' \in [Tasks -> Task]
         /\ \A u \in Tasks \ {t} : task'[u] = task[u]
         /\ HandlerOK(task[t])'
         /\ task'[t].pc = c
         /\ task'[t].pc # "idle" /\ (task'[t].pc = "push" => entry'[t] = None)
  <1>1. /\ task' \in [Tasks -> Task]
        /\ task'[t] = [task[t] EXCEPT !.pc = c]
        /\ \A u \in Tasks \ {t} : task'[u] = task[u]
    BY GotoFacts DEF BaseInv
  <1>2. task[t] \in Task /\ HandlerOK(task[t])
    BY HandlerFacts
  <1>3. /\ task'[t].pc = c /\ task'[t].msg = task[t].msg /\ task'[t].ref = task[t].ref
        /\ task'[t].from = task[t].from /\ task'[t].round = task[t].round
        /\ task'[t].todo = task[t].todo
    BY <1>1, <1>2 DEF Task
  <1>4. c \in AboutEntry => HasEntry(task[t].ref, task[t].msg)'
    BY <1>2, <1>3, HandlerFacts DEF EntriesLast, HasEntry
  <1>5. c \in {"count", "tell", "begin"} => entry'[task[t].ref].request # None
    BY <1>2, <1>3, HandlerFacts DEF EntriesLast, AboutEntry
  <1>6. c \in {"send", "record"} =>
          task[t].todo # <<>> /\ \A e \in Elements(task[t].todo) : entry'[e] # None
    <2> SUFFICES ASSUME c \in {"send", "record"}
                 PROVE  task[t].todo # <<>> /\ \A e \in Elements(task[t].todo) : entry'[e] # None
      OBVIOUS
    <2>1. task[t].todo # <<>> /\ \A e \in Elements(task[t].todo) : entry[e] # None
      BY <1>2 DEF HandlerOK
    <2>2. Elements(task[t].todo) \subseteq Tasks
      BY <1>2 DEF Elements, Task
    <2> QED
      BY <2>1, <2>2 DEF EntriesLast
  <1>7. HandlerOK(task[t])'
    BY <1>2, <1>3, <1>4, <1>5, <1>6 DEF HandlerOK, HasEntry
  <1> QED
    BY <1>1, <1>3, <1>7

\* A handler starts.
LEMMA LaunchHandler ==
  ASSUME BaseInv, NEW t \in Tasks, NEW kind \in Kinds, NEW c \in PCs \ {"idle"},
         NEW m \in Msgs \cup {None}, NEW ref \in Tasks \cup {None}, NEW from \in Guards \cup {None},
         NEW r \in Nat \cup {None}, Launch(t, kind, c, m, ref, from, r), UNCHANGED entry,
         c \in AboutMsg => m \in Msgs,
         c \in AboutEntry => HasEntry(ref, m),
         c = "check" => r \in Nat,
         c = "pk" => from # Me /\ from \in Guards,
         c \notin {"store", "send", "record", "count", "tell", "begin"}
  PROVE  /\ task' \in [Tasks -> Task]
         /\ \A u \in Tasks \ {t} : task'[u] = task[u]
         /\ HandlerOK(task[t])'
         /\ task[t].pc = "idle" /\ task'[t].pc = c
         /\ task'[t].pc # "idle" /\ (task'[t].pc = "push" => entry'[t] = None)
  <1>1. /\ task' \in [Tasks -> Task]
        /\ At(t, "idle")
        /\ task'[t] = [kind |-> kind, pc |-> c, msg |-> m, ref |-> ref,
                       from |-> from, round |-> r, todo |-> <<>>]
        /\ \A u \in Tasks \ {t} : task'[u] = task[u]
    BY LaunchFacts DEF BaseInv
  <1>2. entry[t] = None
    BY <1>1 DEF BaseInv, HandlerInv, At
  <1>3. c \in AboutEntry => HasEntry(ref, m)'
    BY DEF HasEntry
  <1>4. HandlerOK(task[t])'
    BY <1>1, <1>3 DEF HandlerOK, HasEntry
  <1> QED
    BY <1>1, <1>2, <1>4 DEF At

LEMMA EventActs ==
  ASSUME BaseInv, NEW t \in Tasks, Event(t)
  PROVE  Acts(t)
  <1> USE DEF PCs, Waiting, Holding, Free, AboutEntry, AboutMsg, Kinds
  <1>1. None \in Msgs \cup {None} /\ None \in Tasks \cup {None} /\ None \in Guards \cup {None}
        /\ None \in Nat \cup {None} /\ round \in Nat \cup {None} /\ Owner(round) \in Guards
        /\ round \in Nat
    BY SizeAssumption DEF BaseInv, TypeOK, Owner, Guards
  <1>2. \A m : GetSign(m) # None => GetSign(m) \in Tasks /\ HasEntry(GetSign(m), m)
    BY GetSignFacts DEF BaseInv, HasEntry
  <1>3. \A q \in requested : q.msg \in Msgs /\ q.round \in Nat
    BY DEF BaseInv, TypeOK
  <1>4. ASSUME NEW m \in Msgs, Sign(t, m)
        PROVE  Acts(t)
    <2>1. Launch(t, "sign", "push", m, None, None, None) /\ UNCHANGED entry
          /\ signLock' = Append(signLock, <<t, "push">>)
      BY <1>4 DEF Sign, state
    <2>2. /\ task' \in [Tasks -> Task]
          /\ \A u \in Tasks \ {t} : task'[u] = task[u]
          /\ HandlerOK(task[t])'
          /\ task[t].pc = "idle" /\ task'[t].pc = "push"
          /\ task'[t].pc # "idle" /\ (task'[t].pc = "push" => entry'[t] = None)
      BY <1>1, <2>1, LaunchHandler
    <2> QED
      BY <2>1, <2>2 DEF Acts, LockMove
  <1>5. ASSUME NEW m \in Msgs, Request(t, m)
        PROVE  Acts(t)
    <2>1. Launch(t, "request", "check", m, None, Owner(round), round) /\ UNCHANGED <<entry, signLock>>
      BY <1>5 DEF Request, state, locks
    <2>2. /\ task' \in [Tasks -> Task]
          /\ \A u \in Tasks \ {t} : task'[u] = task[u]
          /\ HandlerOK(task[t])'
          /\ task[t].pc = "idle" /\ task'[t].pc = "check"
      BY <1>1, <2>1, LaunchHandler
    <2> QED
      BY <2>1, <2>2 DEF Acts, LockMove
  <1>6. ASSUME NEW m \in Msgs, Start(t, m)
        PROVE  Acts(t)
    <2>1. /\ Launch(t, "start", "approved", m, GetSign(m), Owner(round), round)
          /\ GetSign(m) # None /\ UNCHANGED <<entry, signLock>>
      BY <1>6 DEF Start, state, locks
    <2>2. /\ task' \in [Tasks -> Task]
          /\ \A u \in Tasks \ {t} : task'[u] = task[u]
          /\ HandlerOK(task[t])'
          /\ task[t].pc = "idle" /\ task'[t].pc = "approved"
      BY <1>1, <1>2, <2>1, LaunchHandler
    <2> QED
      BY <2>1, <2>2 DEF Acts, LockMove
  <1>7. CASE Update(t)
    <2>1. Launch(t, "update", "cleanSigns", None, None, None, round) /\ UNCHANGED entry
          /\ signLock' = Append(signLock, <<t, "cleanSigns">>)
      BY <1>7 DEF Update, state
    <2>2. /\ task' \in [Tasks -> Task]
          /\ \A u \in Tasks \ {t} : task'[u] = task[u]
          /\ HandlerOK(task[t])'
          /\ task[t].pc = "idle" /\ task'[t].pc = "cleanSigns"
      BY <1>1, <2>1, LaunchHandler
    <2> QED
      BY <2>1, <2>2 DEF Acts, LockMove
  <1>8. ASSUME NEW q \in requested, Cached(t, q)
        PROVE  Acts(t)
    <2>1. /\ Launch(t, "cached", "verify", q.msg, GetSign(q.msg), None, None)
          /\ GetSign(q.msg) # None /\ UNCHANGED <<entry, signLock>>
      BY <1>8 DEF Cached, state, locks
    <2>2. /\ task' \in [Tasks -> Task]
          /\ \A u \in Tasks \ {t} : task'[u] = task[u]
          /\ HandlerOK(task[t])'
          /\ task[t].pc = "idle" /\ task'[t].pc = "verify"
      <3> DEFINE m == q.msg
                 e == GetSign(m)
      <3>1. /\ m \in Msgs /\ e \in Tasks /\ HasEntry(e, m)
            /\ Launch(t, "cached", "verify", m, e, None, None) /\ UNCHANGED entry
        BY <1>2, <1>3, <2>1
      <3>2. "verify" \in PCs \ {"idle"} /\ "cached" \in Kinds
        OBVIOUS
      <3> HIDE DEF m, e, PCs, Kinds
      <3> QED
        BY <1>1, <3>1, <3>2, LaunchHandler, ZenonT(120)
    <2> QED
      BY <2>1, <2>2 DEF Acts, LockMove
  <1>9. ASSUME NEW q \in requested, NEW from \in Guards, Approve(t, q, from)
        PROVE  Acts(t)
    <2>1. /\ Launch(t, "approve", "pk", q.msg, GetSign(q.msg), from, q.round)
          /\ GetSign(q.msg) # None /\ from # Me /\ UNCHANGED <<entry, signLock>>
      BY <1>9 DEF Approve, state, locks
    <2>2. /\ task' \in [Tasks -> Task]
          /\ \A u \in Tasks \ {t} : task'[u] = task[u]
          /\ HandlerOK(task[t])'
          /\ task[t].pc = "idle" /\ task'[t].pc = "pk"
      <3> DEFINE m == q.msg
                 r == q.round
                 e == GetSign(m)
      <3>1. /\ m \in Msgs /\ r \in Nat /\ e \in Tasks /\ HasEntry(e, m)
            /\ Launch(t, "approve", "pk", m, e, from, r) /\ UNCHANGED entry
            /\ from # Me
        BY <1>2, <1>3, <2>1
      <3>2. "pk" \in PCs \ {"idle"} /\ "approve" \in Kinds
        OBVIOUS
      <3> HIDE DEF m, r, e, PCs, Kinds
      <3> QED
        BY <3>1, <3>2, LaunchHandler
    <2> QED
      BY <2>1, <2>2 DEF Acts, LockMove
  <1>10. ASSUME NEW op \in running, NEW ok \in BOOLEAN, SignData(t, op, ok)
         PROVE  Acts(t)
    <2> DEFINE m == entry[op].msg
    <2>1. m \in Msgs
      BY DEF BaseInv, HandlerInv, TypeOK, Entry
    <2>2. CASE /\ GetAny(m) # None
               /\ Launch(t, "signData", "remove", m, GetAny(m), None, None)
               /\ signLock' = Append(signLock, <<t, "remove">>)
      <3>1. GetAny(m) \in Tasks /\ HasEntry(GetAny(m), m) /\ UNCHANGED entry
        BY <1>10, <2>2, GetAnyFacts DEF BaseInv, TypeOK, HasEntry, SignData
      <3> HIDE DEF m
      <3>2. /\ task' \in [Tasks -> Task]
            /\ \A u \in Tasks \ {t} : task'[u] = task[u]
            /\ HandlerOK(task[t])'
            /\ task[t].pc = "idle" /\ task'[t].pc = "remove"
        <4> DEFINE e == GetAny(m)
        <4>1. "remove" \in PCs \ {"idle"} /\ "signData" \in Kinds /\ e \in Tasks
              /\ HasEntry(e, m) /\ Launch(t, "signData", "remove", m, e, None, None)
          BY <2>2, <3>1
        <4> HIDE DEF e, PCs, Kinds
        <4> QED
          BY <1>1, <2>1, <3>1, <4>1, LaunchHandler, ZenonT(120)
      <3> QED
        BY <2>2, <3>2 DEF Acts, LockMove
    <2>3. CASE Launch(t, "signData", "done", m, None, None, None) /\ UNCHANGED signLock
      <3>1. UNCHANGED entry
        BY <1>10 DEF SignData
      <3> HIDE DEF m
      <3>2. /\ task' \in [Tasks -> Task]
            /\ \A u \in Tasks \ {t} : task'[u] = task[u]
            /\ HandlerOK(task[t])'
            /\ task[t].pc = "idle" /\ task'[t].pc = "done"
        BY <1>1, <2>1, <2>3, <3>1, LaunchHandler
      <3> QED
        BY <2>3, <3>2 DEF Acts, LockMove
    <2> QED
      BY <1>10, <2>2, <2>3 DEF SignData
  <1> QED
    BY <1>4, <1>5, <1>6, <1>7, <1>8, <1>9, <1>10 DEF Event

LEMMA HoldsFacts ==
  ASSUME BaseInv, NEW t \in Tasks
  PROVE  /\ task[t].pc \in Holding => Holds(t)
         /\ \A c : Granted(signLock, t, c) => Holds(t)
  BY DEF BaseInv, LockInv, LockOK, pcs, Holds, Granted

\* The steps that end or go on by Goto, and what they do to the mutex.
LEMMA GotoActs ==
  ASSUME BaseInv, NEW t \in Tasks, EntriesLast,
         NEW c \in PCs \ {"idle", "push", "send", "check", "store", "pk"}, Goto(t, c),
         c \in AboutEntry => task[t].pc \in AboutEntry,
         c \in {"count", "tell", "begin"} => entry[task[t].ref].request # None,
         c = "count" => task[t].pc = "pk", c = "record" => task[t].pc = "send",
         \/ task[t].pc \in Free /\ c \in Free /\ UNCHANGED signLock
         \/ task[t].pc \in Free /\ c \in Waiting /\ signLock' = Append(signLock, <<t, c>>)
         \/ Holds(t) /\ c \in Holding /\ UNCHANGED signLock
         \/ Holds(t) /\ c \in Free /\ signLock' = Tail(signLock)
         \/ Holds(t) /\ c \in Waiting /\ signLock' = Append(Tail(signLock), <<t, c>>)
  PROVE  Acts(t) /\ task'[t].pc = c
  <1>1. c \in PCs \ {"idle", "push"}
    OBVIOUS
  <1>2. c \in AboutMsg => task[t].pc \in AboutMsg
    BY DEF AboutMsg
  <1>3. /\ task' \in [Tasks -> Task]
        /\ \A u \in Tasks \ {t} : task'[u] = task[u]
        /\ HandlerOK(task[t])'
        /\ task'[t].pc = c
        /\ task'[t].pc # "idle" /\ (task'[t].pc = "push" => entry'[t] = None)
    BY <1>1, <1>2, GotoHandler
  <1> QED
    BY <1>3 DEF Acts, LockMove

LEMMA SignActs ==
  ASSUME BaseInv, NEW t \in Tasks, EntriesLast,
         \/ Push(t) \/ Answer(t) \/ TooEarly(t) \/ Store(t)
         \/ CleanSigns(t) \/ CleanPending(t) \/ Turn(t)
  PROVE  Acts(t)
  <1> USE DEF PCs, Waiting, Holding, Free, AboutEntry, At, End, AwaitSigns, Release, Granted
  <1>1. CASE Answer(t)
    BY <1>1, GotoActs DEF Answer, locks
  <1>2. CASE Store(t)
    BY <1>2, GotoActs DEF Store
  <1>3. CASE CleanSigns(t)
    BY <1>3, GotoActs, HoldsFacts DEF CleanSigns
  <1>4. CASE CleanPending(t)
    BY <1>4, GotoActs DEF CleanPending
  <1>5. CASE Turn(t)
    BY <1>5, GotoActs DEF Turn, locks
  <1>6. task[t] \in Task /\ HandlerOK(task[t]) /\ task \in [Tasks -> Task]
    BY HandlerFacts DEF BaseInv, TypeOK
  <1>7. CASE TooEarly(t)
    <2> DEFINE r == GetPending(task[t].msg)
               k == [task[t] EXCEPT !.pc = "store", !.ref = r]
    <2>1. r \in Tasks \cup {None}
      BY GetPendingFacts DEF BaseInv
    <2>2. /\ task' = [task EXCEPT ![t].pc = "store", ![t].ref = r]
          /\ task[t].pc = "check" /\ UNCHANGED signLock
      BY <1>7 DEF TooEarly
    <2>3. task' = [task EXCEPT ![t] = k]
      BY <1>6, <2>2
    <2> HIDE DEF r
    <2>4. /\ k \in Task /\ k.pc = "store" /\ k.msg = task[t].msg /\ k.round = task[t].round
      BY <1>6, <2>1 DEF Task
    <2>5. k.msg \in Msgs /\ k.round \in Nat
      BY <1>6, <2>2, <2>4 DEF HandlerOK, AboutMsg
    <2> HIDE DEF k
    <2>6. /\ task' \in [Tasks -> Task] /\ task'[t] = k
          /\ \A u \in Tasks \ {t} : task'[u] = task[u]
      BY <1>6, <2>3, <2>4
    <2>7. HandlerOK(task[t])'
      BY <2>4, <2>5, <2>6 DEF HandlerOK
    <2> QED
      BY <2>2, <2>4, <2>6, <2>7 DEF Acts, LockMove
  <1>8. CASE Push(t)
    <2> DEFINE r == GetPending(task[t].msg)
               k == [task[t] EXCEPT !.pc = "check", !.round = pend[r].round]
    <2>1. task[t].pc = "push" /\ signLock' = Tail(signLock) /\ Holds(t)
      BY <1>8, HoldsFacts DEF Push
    <2>2. CASE End(t)
      BY <2>1, <2>2, GotoActs
    <2>3. CASE r # None /\ task' = [task EXCEPT ![t].pc = "check", ![t].round = pend[r].round]
      <3>1. r \in Elements(pendings) /\ r \in Tasks
        BY <2>3, GetPendingFacts DEF BaseInv
      <3>2. pend[r] # None /\ pend[r] \in [msg : Msgs, round : Nat]
        BY <3>1 DEF BaseInv, HandlerInv, TypeOK
      <3>3. pend[r].round \in Nat
        BY <3>2
      <3>4. task' = [task EXCEPT ![t] = k]
        BY <1>6, <2>3
      <3> HIDE DEF r
      <3>5. k \in Task /\ k.pc = "check" /\ k.msg = task[t].msg /\ k.round \in Nat
        BY <1>6, <3>3 DEF Task
      <3>6. k.msg \in Msgs
        BY <1>6, <2>1, <3>5 DEF HandlerOK, AboutMsg
      <3> HIDE DEF k
      <3>7. /\ task' \in [Tasks -> Task] /\ task'[t] = k
            /\ \A u \in Tasks \ {t} : task'[u] = task[u]
        BY <1>6, <3>4, <3>5
      <3>8. HandlerOK(task[t])'
        BY <3>5, <3>6, <3>7 DEF HandlerOK
      <3> QED
        BY <2>1, <3>5, <3>7, <3>8 DEF Acts, LockMove
    <2> QED
      BY <1>8, <2>2, <2>3 DEF Push
  <1> QED
    BY <1>1, <1>2, <1>3, <1>4, <1>5, <1>7, <1>8

LEMMA RequestActs ==
  ASSUME BaseInv, NEW t \in Tasks, EntriesLast, Active(t) \/ Send(t) \/ Record(t)
  PROVE  Acts(t)
  <1> USE DEF PCs, Waiting, Holding, Free, AboutEntry, At, End, AwaitSigns, Release, Granted
  <1>1. task[t] \in Task /\ HandlerOK(task[t]) /\ queue \in Seq(Tasks) /\ round \in Nat
    BY HandlerFacts DEF BaseInv, TypeOK
  <1>2. ASSUME NEW todo \in Seq(Tasks), \A e \in Elements(todo) : entry[e] # None,
               NEW r \in Nat, NextRequest(t, todo, r),
               \/ task[t].pc \in Free /\ UNCHANGED signLock
               \/ Holds(t) /\ signLock' = Tail(signLock)
        PROVE  Acts(t)
    <2>1. /\ task' \in [Tasks -> Task]
          /\ \A u \in Tasks \ {t} : task'[u] = task[u]
          /\ task'[t].pc \in {"done", "send"} /\ task'[t].round = r
          /\ task'[t].pc = "send" =>
               task'[t].todo # <<>> /\ \A e \in Elements(task'[t].todo) : entry[e] # None
      BY <1>2, NextRequestFacts DEF BaseInv
    <2>2. task'[t].pc = "send" => \A e \in Elements(task'[t].todo) : entry'[e] # None
      BY <2>1 DEF EntriesLast, Elements, Task
    <2>3. HandlerOK(task[t])'
      BY <2>1, <2>2 DEF HandlerOK, AboutMsg
    <2> QED
      BY <1>2, <2>1, <2>3 DEF Acts, LockMove
  <1>3. CASE Active(t)
    <2> DEFINE n == IF Len(queue) < SignPerRoundLimit THEN Len(queue) ELSE SignPerRoundLimit
               todo == SubSeq(queue, 1, n)
    <2>1. task[t].pc = "active" /\ UNCHANGED signLock
      BY <1>3 DEF Active, locks
    <2>2. CASE End(t)
      BY <2>1, <2>2, GotoActs
    <2>3. CASE NextRequest(t, todo, round)
      <3>1. n \in Nat /\ n <= Len(queue)
        BY <1>1, SizeAssumption
      <3> HIDE DEF n
      <3>2. todo \in Seq(Tasks) /\ \A i \in DOMAIN todo : i \in DOMAIN queue /\ todo[i] = queue[i]
        BY <1>1, <3>1
      <3>3. \A e \in Elements(todo) : entry[e] # None
        BY <3>2 DEF Elements, BaseInv, TypeOK, Queued
      <3> HIDE DEF todo
      <3> QED
        BY <1>1, <1>2, <2>1, <2>3, <3>2, <3>3
    <2> QED
      BY <1>3, <2>2, <2>3 DEF Active
  <1>4. CASE Send(t)
    <2>1. task[t].pc = "send" /\ Goto(t, "record") /\ signLock' = Append(signLock, <<t, "record">>)
      BY <1>4 DEF Send
    <2>2. /\ task' \in [Tasks -> Task]
          /\ \A u \in Tasks \ {t} : task'[u] = task[u]
          /\ HandlerOK(task[t])'
          /\ task'[t].pc = "record"
          /\ task'[t].pc # "idle" /\ (task'[t].pc = "push" => entry'[t] = None)
      BY <2>1, GotoHandler DEF AboutMsg
    <2> QED
      BY <2>1, <2>2 DEF Acts, LockMove
  <1>5. CASE Record(t)
    <2> DEFINE todo == Tail(task[t].todo)
    <2>1. /\ task[t].pc = "record" /\ Holds(t) /\ signLock' = Tail(signLock)
          /\ NextRequest(t, todo, task[t].round)
      BY <1>5, HoldsFacts DEF Record
    <2>2. /\ task[t].todo \in Seq(Tasks) /\ task[t].todo # <<>> /\ task[t].round \in Nat
          /\ \A e \in Elements(task[t].todo) : entry[e] # None
      BY <1>1, <2>1 DEF HandlerOK, Task
    <2>3. /\ todo \in Seq(Tasks)
          /\ \A i \in DOMAIN todo : i + 1 \in DOMAIN task[t].todo /\ todo[i] = task[t].todo[i + 1]
      BY <2>2
    <2>4. \A e \in Elements(todo) : entry[e] # None
      BY <2>2, <2>3 DEF Elements
    <2> HIDE DEF todo
    <2> QED
      BY <1>2, <2>1, <2>2, <2>3, <2>4
  <1> QED
    BY <1>3, <1>4, <1>5

LEMMA StartActs ==
  ASSUME BaseInv, NEW t \in Tasks, EntriesLast, Begin(t) \/ Join(t)
  PROVE  Acts(t)
  <1> USE DEF PCs, Waiting, Holding, Free, AboutEntry, At, End, Release, Granted
  <1> DEFINE e == GetSign(task[t].msg)
             k == [task[t] EXCEPT !.pc = "posting", !.ref = e]
  <1>1. task[t].pc \in {"begin", "join"} /\ Holds(t) /\ StartSign(t)
    BY HoldsFacts DEF Begin, Join
  <1>2. task \in [Tasks -> Task] /\ task[t] \in Task /\ HandlerOK(task[t]) /\ task[t].msg \in Msgs
    BY <1>1, HandlerFacts DEF BaseInv, TypeOK
  <1>3. CASE End(t) /\ signLock' = Tail(signLock)
    BY <1>1, <1>3, GotoActs
  <1>4. CASE /\ e # None /\ task' = [task EXCEPT ![t].pc = "posting", ![t].ref = e]
             /\ UNCHANGED signLock
    <2>1. e \in Tasks /\ entry[e] # None /\ entry[e].msg = task[t].msg
      BY <1>4, GetSignFacts DEF BaseInv
    <2>2. task' = [task EXCEPT ![t] = k]
      BY <1>2, <1>4
    <2> HIDE DEF e
    <2>3. k \in Task /\ k.pc = "posting" /\ k.msg = task[t].msg /\ k.ref = e
      BY <1>2, <2>1 DEF Task
    <2> HIDE DEF k
    <2>4. /\ task' \in [Tasks -> Task] /\ task'[t] = k
          /\ \A u \in Tasks \ {t} : task'[u] = task[u]
      BY <1>2, <2>2, <2>3
    <2>5. entry'[e] # None /\ entry'[e].msg = task[t].msg
      BY <2>1 DEF EntriesLast
    <2>6. HandlerOK(task[t])'
      BY <1>2, <2>1, <2>3, <2>4, <2>5 DEF HandlerOK, HasEntry
    <2> QED
      BY <1>1, <1>4, <2>3, <2>4, <2>6 DEF Acts, LockMove
  <1> QED
    BY <1>1, <1>3, <1>4 DEF StartSign

LEMMA CeremonyActs ==
  ASSUME BaseInv, NEW t \in Tasks, EntriesLast,
         \/ Ignore(t) \/ Collect(t) \/ Count(t) \/ Tell(t) \/ Approvals(t) \/ Posted(t)
         \/ PostFails(t) \/ Fail(t) \/ Verify(t) \/ Remove(t)
  PROVE  Acts(t)
  <1> USE DEF PCs, Waiting, Holding, Free, AboutEntry, At, End, AwaitSigns, Release, Granted
  <1>1. HandlerOK(task[t])
    BY HandlerFacts
  <1>2. CASE Ignore(t)
    BY <1>2, GotoActs DEF Ignore, locks
  <1>3. CASE Collect(t)
    BY <1>3, GotoActs DEF Collect
  <1>4. CASE Count(t)
    <2>1. task[t].pc = "count" /\ Holds(t) /\ entry[task[t].ref].request # None
      BY <1>1, <1>4, HoldsFacts DEF Count, HandlerOK
    <2>2. \/ Goto(t, "tell") /\ UNCHANGED signLock
          \/ Goto(t, "done") /\ signLock' = Tail(signLock)
      BY <1>4 DEF Count
    <2> QED
      BY <2>1, <2>2, GotoActs
  <1>5. CASE Tell(t)
    <2>1. task[t].pc = "tell" /\ Holds(t) /\ entry[task[t].ref].request # None
      BY <1>1, <1>5, HoldsFacts DEF Tell, HandlerOK
    <2> QED
      BY <1>5, <2>1, GotoActs DEF Tell, locks
  <1>6. CASE Approvals(t)
    BY <1>6, GotoActs DEF Approvals
  <1>7. CASE Posted(t)
    BY <1>7, GotoActs, HoldsFacts DEF Posted
  <1>8. CASE PostFails(t)
    BY <1>8, GotoActs, HoldsFacts DEF PostFails
  <1>9. CASE Fail(t)
    BY <1>9, GotoActs, HoldsFacts DEF Fail
  <1>10. CASE Verify(t)
    BY <1>10, GotoActs DEF Verify
  <1>11. CASE Remove(t)
    BY <1>11, GotoActs, HoldsFacts DEF Remove
  <1> QED
    BY <1>2, <1>3, <1>4, <1>5, <1>6, <1>7, <1>8, <1>9, <1>10, <1>11

LEMMA StepActs ==
  ASSUME BaseInv, NEW t \in Tasks, Event(t) \/ Step(t)
  PROVE  Acts(t)
  <1>1. EntriesLast
    BY StepEntries
  <1> QED
    BY <1>1, EventActs, SignActs, RequestActs, StartActs, CeremonyActs DEF Step

-----------------------------------------------------------------------------
\* Types, handlers and mutexes

LEMMA ClockStep ==
  ASSUME BaseInv, Tick
  PROVE  /\ round' \in Nat /\ late' \in BOOLEAN
         /\ UNCHANGED <<queue, entry, pendings, pend, cache, lastRound, running, task,
                        signLock, pendLock, requested, starts, posts, answered>>
  <1>1. round \in Nat /\ late \in BOOLEAN
    BY DEF BaseInv, TypeOK
  <1>2. (late' = TRUE \/ late' = FALSE) /\ (round' = round \/ round' = round + 1)
    BY DEF Tick
  <1>3. UNCHANGED <<queue, entry, pendings, pend, cache, lastRound, running, task,
                    signLock, pendLock, requested, starts, posts, answered>>
    BY DEF Tick, state, locks, history
  <1>4. round' \in Nat
    BY <1>1, <1>2
  <1>5. late' \in BOOLEAN
    BY <1>1, <1>2
  <1> QED
    BY <1>3, <1>4, <1>5

LEMMA PendLockTyped ==
  ASSUME BaseInv, NEW t \in Tasks, Event(t) \/ Step(t)
  PROVE  /\ pendLock' \in Seq(Tasks \X PCs)
         /\ lastRound' \in Nat \cup {None}
         /\ round' \in Nat /\ late' \in BOOLEAN
  <1>1. /\ pendLock \in Seq(Tasks \X PCs) /\ lastRound \in Nat \cup {None}
        /\ round \in Nat /\ late \in BOOLEAN
    BY DEF BaseInv, TypeOK
  <1>2. <<t, "store">> \in Tasks \X PCs /\ <<t, "cleanPending">> \in Tasks \X PCs
    BY DEF PCs
  <1> DEFINE x == <<t, "store">>
             y == <<t, "cleanPending">>
             S == Tasks \X PCs
  <1>3. Append(pendLock, x) \in Seq(S) /\ Append(pendLock, y) \in Seq(S)
        /\ (pendLock # <<>> => Tail(pendLock) \in Seq(S))
    <2>1. x \in S /\ y \in S /\ pendLock \in Seq(S)
      BY <1>1, <1>2
    <2> HIDE DEF x, y, S
    <2> QED
      BY <2>1
  <1>4. \/ UNCHANGED pendLock \/ pendLock' = Append(pendLock, x) \/ pendLock' = Append(pendLock, y)
        \/ pendLock # <<>> /\ pendLock' = Tail(pendLock)
    BY DEF Event, Step, Sign, Request, Start, Update, Cached, Approve, SignData, Answer, TooEarly,
           Push, Store, CleanSigns, CleanPending, Turn, Active, Send, Record, Ignore, Collect, Count,
           Tell, Begin, Approvals, Join, Posted, PostFails, Fail, Verify, Remove, locks, Granted,
           Release
  <1>5. UNCHANGED <<round, late>> /\ (UNCHANGED lastRound \/ lastRound' = round)
    BY DEF Event, Step, Sign, Request, Start, Update, Cached, Approve, SignData, Answer, TooEarly,
           Push, Store, CleanSigns, CleanPending, Turn, Active, Send, Record, Ignore, Collect, Count,
           Tell, Begin, Approvals, Join, Posted, PostFails, Fail, Verify, Remove, state
  <1> QED
    BY <1>1, <1>3, <1>4, <1>5

LEMMA HandlersKeep ==
  ASSUME BaseInv, NEW t \in Tasks, Event(t) \/ Step(t)
  PROVE  HandlerInv'
  <1>1. Acts(t) /\ EntriesLast /\ PendingType /\ HistoryType
    BY StepActs, StepEntries, PendingTyped, HistoryTyped
  <1>2. ASSUME NEW u \in Tasks, u # t
        PROVE  HandlerOK(task[u])'
    <2>1. task'[u] = task[u] /\ task[u] \in Task /\ HandlerOK(task[u])
      BY <1>1, <1>2, HandlerFacts DEF Acts
    <2>2. task[u].pc \in AboutEntry => HasEntry(task[u].ref, task[u].msg)'
      BY <1>1, <2>1 DEF HandlerOK, HasEntry, EntriesLast
    <2>3. task[u].pc \in {"count", "tell", "begin"} => entry'[task[u].ref].request # None
      BY <1>1, <2>1 DEF HandlerOK, HasEntry, EntriesLast, AboutEntry
    <2>4. \A e \in Elements(task[u].todo) : e \in Tasks
      BY <2>1 DEF Elements, Task
    <2>5. task[u].pc \in {"send", "record"} =>
            task[u].todo # <<>> /\ \A e \in Elements(task[u].todo) : entry'[e] # None
      BY <1>1, <2>1, <2>4 DEF HandlerOK, EntriesLast
    <2> QED
      BY <2>1, <2>2, <2>3, <2>5 DEF HandlerOK, HasEntry
  <1>3. \A u \in Tasks : HandlerOK(task[u])'
    BY <1>1, <1>2 DEF Acts
  <1>4. ASSUME NEW u \in Tasks, task'[u].pc \in {"idle", "push"}
        PROVE  entry'[u] = None
    <2>1. CASE u = t
      BY <1>1, <1>4, <2>1 DEF Acts
    <2>2. CASE u # t
      <3>1. entry[u] = None
        BY <1>1, <1>4, <2>2 DEF Acts, BaseInv, HandlerInv
      <3> QED
        BY <2>2, <3>1, StepEntries
    <2> QED
      BY <2>1, <2>2
  <1> QED
    BY <1>1, <1>3, <1>4 DEF HandlerInv, PendingType, HistoryType

LEMMA BaseInit == Init => BaseInv
  <1> SUFFICES ASSUME Init PROVE BaseInv
    OBVIOUS
  <1>1. \A t \in Tasks : task[t] = Idle
    BY DEF Init
  <1>2. Idle \in Task /\ Idle.pc = "idle"
    BY DEF Idle, Task, PCs
  <1>3. TypeOK
    <2>1. queue = <<>> /\ pendings = <<>> /\ signLock = <<>> /\ pendLock = <<>>
          /\ task = [t \in Tasks |-> Idle] /\ entry = [e \in Tasks |-> None]
          /\ pend = [r \in Tasks |-> None]
      BY DEF Init
    <2>2. task \in [Tasks -> Task]
      BY <1>2, <2>1
    <2>3. Queued = {}
      BY <2>1 DEF Queued, Elements
    <2>4. /\ entry \in [Tasks -> Entry \cup {None}]
          /\ pend \in [Tasks -> [msg : Msgs, round : Nat] \cup {None}]
      BY <2>1
    <2>5. \A S : <<>> \in Seq(S)
      OBVIOUS
    <2>6. /\ round \in Nat /\ late \in BOOLEAN /\ cache \subseteq Msgs
          /\ lastRound \in Nat \cup {None}
      BY DEF Init
    <2>7. /\ running \subseteq Tasks /\ answered \subseteq Tasks
          /\ requested = {} /\ starts = {} /\ posts = {}
      BY DEF Init
    <2> QED
      BY <2>1, <2>2, <2>3, <2>4, <2>5, <2>6, <2>7 DEF TypeOK
  <1>4. HandlerInv
    BY <1>1, <1>2 DEF Init, HandlerInv, HandlerOK, AboutMsg, AboutEntry, Elements
  <1>5. LockInv
    BY <1>1, <1>2 DEF Init, LockInv, LockOK, pcs, Holding, Waiting
  <1> QED
    BY <1>3, <1>4, <1>5 DEF BaseInv

LEMMA BaseNext ==
  ASSUME BaseInv, [Next]_vars
  PROVE  BaseInv'
  <1>1. CASE UNCHANGED vars
    BY <1>1 DEF BaseInv, TypeOK, HandlerInv, HandlerOK, HasEntry, LockInv, pcs, vars, state, locks,
                history, Queued
  <1>2. CASE Tick
    BY <1>2, ClockStep DEF BaseInv, TypeOK, HandlerInv, HandlerOK, HasEntry, LockInv, pcs, Queued
  <1>3. ASSUME NEW t \in Tasks, Event(t) \/ Step(t)
        PROVE  BaseInv'
    <2>1. /\ Acts(t) /\ QueueType /\ PendingType /\ HistoryType
          /\ entry' \in [Tasks -> Entry \cup {None}]
      BY <1>3, StepActs, QueueTyped, PendingTyped, HistoryTyped, StepEntries
    <2>2. /\ pendLock' \in Seq(Tasks \X PCs) /\ lastRound' \in Nat \cup {None}
          /\ round' \in Nat /\ late' \in BOOLEAN
      BY <1>3, PendLockTyped
    <2>3. LockInv'
      BY <2>1, LockMoves
    <2>4. signLock' \in Seq(Tasks \X PCs)
      <3>1. Waiting \subseteq PCs
        BY DEF Waiting, PCs
      <3>2. signLock' \in Seq(Tasks \X Waiting)
        BY <2>3 DEF LockInv, LockOK
      <3> HIDE DEF Waiting
      <3>3. Tasks \X Waiting \subseteq Tasks \X PCs
        BY <3>1
      <3> QED
        BY <3>2, <3>3
    <2>5. TypeOK'
      BY <2>1, <2>2, <2>4 DEF TypeOK, Acts, QueueType, PendingType, HistoryType
    <2>6. HandlerInv'
      BY <1>3, HandlersKeep
    <2> QED
      BY <2>3, <2>5, <2>6 DEF BaseInv
  <1> QED
    BY <1>1, <1>2, <1>3 DEF Next

\* The state is well typed, and so is what the handlers hold across their
\* awaits: in particular, the mutex is held by one handler at a time, and every
\* handler that awaits it is in its queue.
THEOREM BaseInvariant == Spec => []BaseInv
  <1>1. Init => BaseInv
    BY BaseInit
  <1>2. BaseInv /\ [Next]_vars => BaseInv'
    BY BaseNext
  <1> QED
    BY <1>1, <1>2, PTL DEF Spec

THEOREM TypeCorrect == Spec => []TypeOK
  <1>1. BaseInv => TypeOK
    BY DEF BaseInv
  <1> QED
    BY <1>1, BaseInvariant, PTL

-----------------------------------------------------------------------------
\* The queue is protected by the mutex

\* Only its holder changes the queue or an entry.
LEMMA OnlyHolder ==
  ASSUME BaseInv, NEW t \in Tasks, Event(t) \/ Step(t)
  PROVE  Holds(t) \/ UNCHANGED <<queue, entry>>
  <1>1. CASE Push(t) \/ CleanSigns(t) \/ Record(t) \/ Count(t) \/ Join(t) \/ Fail(t) \/ Remove(t)
    BY <1>1, HoldsFacts DEF Push, CleanSigns, Record, Count, Join, Fail, Remove
  <1>2. CASE Begin(t)
    BY <1>2, HoldsFacts DEF Begin, At, Holding
  <1> QED
    BY <1>1, <1>2
       DEF Event, Step, Sign, Request, Start, Update, Cached, Approve, SignData, Answer, TooEarly,
           Store, CleanPending, Turn, Active, Send, Ignore, Collect, Tell, Approvals, Posted,
           PostFails, Verify, state

\* While a handler holds the mutex, the others change neither.
LEMMA HolderAlone ==
  ASSUME BaseInv, NEW t \in Tasks, Event(t) \/ Step(t), NEW u \in Tasks, u # t,
         task[u].pc \in Holding
  PROVE  UNCHANGED <<queue, entry>> /\ task'[u] = task[u]
  <1>1. Holds(u) /\ ~Holds(t)
    BY HoldsFacts DEF Holds
  <1> QED
    BY <1>1, OnlyHolder, StepActs DEF Acts

\* What getSign finds does not depend on requests and signatures.
LEMMA SameSign ==
  ASSUME TypeOK, NEW u \in Tasks, queue' = queue, task'[u].msg = task[u].msg,
         \A e \in Queued : entry'[e].msg = entry[e].msg /\ entry'[e].posted = entry[e].posted
  PROVE  GetSign(task[u].msg)' # None <=> GetSign(task[u].msg) # None
  <1> DEFINE m == task[u].msg
             S == {e \in Queued : entry[e].msg = m}
  <1>1. Queued' = Queued
    BY DEF Queued
  <1>2. S' = S
    BY <1>1
  <1>3. GetAny(m)' = First(queue', S') /\ GetAny(m) = First(queue, S)
    BY DEF GetAny
  <1>4. GetAny(m)' = GetAny(m)
    BY <1>2, <1>3
  <1>5. GetAny(m) = None \/ GetAny(m) \in Queued
    BY GetAnyFacts
  <1>6. m' = m
    OBVIOUS
  <1> DEFINE a == GetAny(m)
  <1>7. /\ GetSign(m) = IF a # None /\ ~entry[a].posted THEN a ELSE None
        /\ GetSign(m)' = IF a' # None /\ ~entry'[a'].posted THEN a' ELSE None
    BY DEF GetSign
  <1>8. a' = a /\ (a = None \/ a \in Queued)
    BY <1>4, <1>5
  <1> HIDE DEF a
  <1>9. GetSign(m)' = GetSign(m)
    BY <1>7, <1>8
  <1> QED
    BY <1>9

-----------------------------------------------------------------------------
\* Ceremonies

LEMMA PostNext ==
  ASSUME BaseInv, PostInv, [Next]_vars
  PROVE  PostInv'
  <1>1. CASE UNCHANGED <<posts, entry>>
    BY <1>1 DEF PostInv, PostedOnce
  <1>2. ASSUME NEW t \in Tasks, Event(t) \/ Step(t)
        PROVE  PostInv'
    <2>1. EntriesLast /\ posts \subseteq [entry : Tasks, by : Tasks]
      BY <1>2, StepEntries DEF BaseInv, TypeOK
    <2>2. \A p \in posts : entry'[p.entry] # None /\ entry'[p.entry].posted
      BY <2>1 DEF EntriesLast, PostInv
    <2>3. CASE UNCHANGED posts
      BY <2>2, <2>3 DEF PostInv, PostedOnce
    <2>4. CASE Begin(t) \/ Join(t)
      <3> DEFINE e == GetSign(task[t].msg)
                 p == [entry |-> e, by |-> t]
      <3>1. CASE /\ e # None /\ entry' = [entry EXCEPT ![e].posted = TRUE]
                 /\ posts' = posts \cup {p}
        <4>1. e \in Tasks /\ ~entry[e].posted /\ entry'[e].posted /\ entry'[e] # None
          BY <3>1, StartEntry DEF EntriesLast
        <4> HIDE DEF e
        <4>2. \A q \in posts : q.entry # e
          BY <4>1 DEF PostInv
        <4> QED
          BY <2>2, <3>1, <4>1, <4>2 DEF PostInv, PostedOnce
      <3> QED
        BY <2>3, <2>4, <3>1 DEF Begin, Join, StartSign
    <2> QED
      BY <1>2, <2>3, <2>4
         DEF Event, Step, Sign, Request, Start, Update, Cached, Approve, SignData, Answer, TooEarly,
             Push, Store, CleanSigns, CleanPending, Turn, Active, Send, Record, Ignore, Collect,
             Count, Tell, Approvals, Posted, PostFails, Fail, Verify, Remove, history
  <1> QED
    BY <1>1, <1>2 DEF Next, Tick, vars, state, history

\* An entry's ceremony is handed to tss-api at most once: the handlers that
\* found it not posted before they awaited the mutex look it up again in
\* startSign, and it stays marked.
THEOREM PostedOnceHolds == Spec => []PostedOnce
  <1>1. Init => PostInv
    BY DEF Init, PostInv, PostedOnce
  <1>2. BaseInv /\ PostInv /\ [Next]_vars => PostInv'
    BY PostNext
  <1>3. PostInv => PostedOnce
    BY DEF PostInv
  <1> QED
    BY <1>1, <1>2, <1>3, BaseInvariant, PTL DEF Spec

LEMMA OwnApproval ==
  ASSUME BaseInv, QuorumInv, NEW t \in Tasks, Event(t) \/ Step(t), NEW e \in Tasks,
         entry'[e] # None
  PROVE  entry'[e].sigs[Me] = entry'[e].request
  <1>1. entry[e] # None => entry[e].sigs[Me] = entry[e].request
    BY DEF QuorumInv
  <1>2. CASE UNCHANGED entry
    BY <1>1, <1>2
  <1>3. CASE Push(t)
    <2>1. CASE e = t
      <3> DEFINE x == [msg |-> task[t].msg, added |-> round, posted |-> FALSE,
                       request |-> None, sigs |-> [g \in Guards |-> None]]
      <3>1. entry'[t] = x
        BY <1>3, PushEntry
      <3>2. x.sigs[Me] = None /\ x.request = None
        BY SizeAssumption
      <3> HIDE DEF x
      <3> QED
        BY <2>1, <3>1, <3>2
    <2>2. CASE e # t
      BY <1>1, <1>3, <2>2, PushEntry
    <2> QED
      BY <2>1, <2>2
  <1>4. CASE Record(t)
    BY <1>1, <1>4, RecordEntry
  <1>5. CASE Count(t)
    BY <1>1, <1>5, CountEntry, ZenonT(120)
  <1>6. CASE Begin(t) \/ Join(t)
    <2>1. CASE /\ GetSign(task[t].msg) # None
               /\ entry' = [entry EXCEPT ![GetSign(task[t].msg)].posted = TRUE]
      BY <1>1, <2>1, StartEntry
    <2> QED
      BY <1>2, <1>6, <2>1 DEF Begin, Join, StartSign
  <1> QED
    BY <1>2, <1>3, <1>4, <1>5, <1>6
       DEF Event, Step, Sign, Request, Start, Update, Cached, Approve, SignData, Answer, TooEarly,
           Store, CleanSigns, CleanPending, Turn, Active, Send, Ignore, Collect, Tell, Approvals,
           Posted, PostFails, Fail, Verify, Remove, state

\* The steps that lead to each await at which something is relied on.
LEMMA StepBefore ==
  ASSUME BaseInv, NEW t \in Tasks, Event(t) \/ Step(t)
  PROVE  /\ task'[t].pc = "push" => \E m \in Msgs : Sign(t, m)
         /\ task'[t].pc = "tell" => Count(t) /\ Goto(t, "tell")
         /\ task'[t].pc = "begin" => Tell(t)
         /\ task'[t].pc = "posting" => Begin(t) \/ Join(t)
         /\ task'[t].pc = "fail" => PostFails(t)
         /\ task'[t].pc = "remove" =>
              Verify(t) \/ \E op \in running, ok \in BOOLEAN : SignData(t, op, ok)
  <1> DEFINE Others == PCs \ {"push", "tell", "begin", "posting", "fail", "remove"}
  <1>1. task \in [Tasks -> Task] /\ task[t] \in Task
    BY DEF BaseInv, TypeOK
  <1>2. ASSUME NEW c \in PCs, Goto(t, c)
        PROVE  task'[t].pc = c
    BY <1>2, GotoFields DEF BaseInv
  <1>3. CASE Event(t)
    <2>1. ASSUME NEW k, NEW c, NEW m, NEW ref, NEW from, NEW r, Launch(t, k, c, m, ref, from, r)
          PROVE  task'[t].pc = c
      BY <1>1, <2>1 DEF Launch
    <2>2. ASSUME NEW m \in Msgs, Sign(t, m)
          PROVE  task'[t].pc = "push"
      BY <2>1, <2>2 DEF Sign
    <2>3. ASSUME NEW m \in Msgs, Request(t, m) \/ Start(t, m)
          PROVE  task'[t].pc \in Others
      BY <2>1, <2>3 DEF Request, Start, PCs
    <2>4. CASE Update(t)
      BY <2>1, <2>4 DEF Update, PCs
    <2>5. ASSUME NEW q \in requested, Cached(t, q) \/ \E from \in Guards : Approve(t, q, from)
          PROVE  task'[t].pc \in Others
      BY <2>1, <2>5 DEF Cached, Approve, PCs
    <2>6. ASSUME NEW op \in running, NEW ok \in BOOLEAN, SignData(t, op, ok)
          PROVE  task'[t].pc \in {"remove", "done"}
      BY <2>1, <2>6 DEF SignData
    <2> QED
      BY <1>3, <2>2, <2>3, <2>4, <2>5, <2>6 DEF Event
  <1>4. CASE Push(t) \/ TooEarly(t) \/ Begin(t) \/ Join(t)
    <2>1. ASSUME NEW c, NEW x, \/ task' = [task EXCEPT ![t].pc = c, ![t].round = x]
                               \/ task' = [task EXCEPT ![t].pc = c, ![t].ref = x]
          PROVE  task'[t].pc = c
      <3> DEFINE k == [task[t] EXCEPT !.pc = c, !.round = x]
                 l == [task[t] EXCEPT !.pc = c, !.ref = x]
      <3>1. task' = [task EXCEPT ![t] = k] \/ task' = [task EXCEPT ![t] = l]
        BY <1>1, <2>1
      <3>2. k.pc = c /\ l.pc = c
        BY <1>1 DEF Task
      <3> HIDE DEF k, l
      <3> QED
        BY <1>1, <3>1, <3>2
    <2>2. End(t) => task'[t].pc = "done"
      BY <1>2 DEF End, PCs
    <2>3. CASE Push(t) \/ TooEarly(t)
      <3>1. task'[t].pc \in {"check", "done", "store"}
        BY <2>1, <2>2, <2>3 DEF Push, TooEarly
      <3> QED
        BY <3>1
    <2>4. CASE Begin(t) \/ Join(t)
      <3>1. task'[t].pc \in {"done", "posting"}
        BY <2>1, <2>2, <2>4 DEF Begin, Join, StartSign
      <3> QED
        BY <2>4, <3>1
    <2> QED
      BY <1>4, <2>3, <2>4
  <1>5. CASE Active(t) \/ Record(t)
    <2>1. ASSUME NEW todo, NEW r, NextRequest(t, todo, r)
          PROVE  task'[t].pc \in {"done", "send"}
      <3> DEFINE rest == Kept(todo, {e \in Elements(todo) : ~entry[e].posted})
                 c == IF rest = <<>> THEN "done" ELSE "send"
                 k == [task[t] EXCEPT !.pc = c, !.todo = rest, !.round = r]
      <3>1. task' = [task EXCEPT ![t].pc = c, ![t].todo = rest, ![t].round = r]
        BY <2>1 DEF NextRequest
      <3>2. c \in {"done", "send"}
        OBVIOUS
      <3> HIDE DEF rest, c
      <3>3. task' = [task EXCEPT ![t] = k] /\ k.pc = c
        BY <1>1, <3>1 DEF Task
      <3> HIDE DEF k
      <3> QED
        BY <1>1, <3>2, <3>3
    <2>2. task'[t].pc \in {"done", "send"}
      BY <1>2, <1>5, <2>1 DEF Active, Record, End, PCs
    <2> QED
      BY <2>2
  <1>6. CASE Count(t)
    <2>1. Goto(t, "tell") \/ Goto(t, "done")
      BY <1>6 DEF Count, End
    <2>2. task'[t].pc \in {"tell", "done"} /\ (task'[t].pc = "tell" => Goto(t, "tell"))
      BY <1>2, <2>1 DEF PCs
    <2> QED
      BY <1>6, <2>2
  <1>7. CASE Tell(t)
    <2>1. task'[t].pc = "begin"
      BY <1>2, <1>7 DEF Tell, PCs
    <2> QED
      BY <1>7, <2>1
  <1>8. CASE PostFails(t)
    <2>1. task'[t].pc = "fail"
      BY <1>2, <1>8 DEF PostFails, PCs
    <2> QED
      BY <1>8, <2>1
  <1>9. CASE Verify(t)
    <2>1. task'[t].pc \in {"remove", "done"}
      BY <1>2, <1>9 DEF Verify, End, AwaitSigns, PCs
    <2> QED
      BY <1>9, <2>1
  <1>10. CASE \/ Answer(t) \/ Store(t) \/ CleanSigns(t) \/ CleanPending(t) \/ Turn(t) \/ Send(t)
              \/ Ignore(t) \/ Collect(t) \/ Approvals(t) \/ Posted(t) \/ Fail(t) \/ Remove(t)
    <2>1. task'[t].pc \in {"done", "cleanPending", "turn", "active", "record", "count", "join"}
      BY <1>2, <1>10 DEF Answer, Store, CleanSigns, CleanPending, Turn, Send, Ignore, Collect,
                         Approvals, Posted, Fail, Remove, End, AwaitSigns, PCs
    <2> QED
      BY <2>1
  <1> QED
    BY <1>3, <1>4, <1>5, <1>6, <1>7, <1>8, <1>9, <1>10 DEF Step

\* Only startSign follows the start message.
LEMMA BeginFollows ==
  ASSUME NEW t \in Tasks, Event(t) \/ Step(t), task[t].pc = "begin"
  PROVE  Begin(t)
  BY DEF Event, Step, Sign, Request, Start, Update, Cached, Approve, SignData, Answer, TooEarly,
         Push, Store, CleanSigns, CleanPending, Turn, Active, Send, Record, Ignore, Collect,
         Count, Tell, Begin, Approvals, Join, Posted, PostFails, Fail, Verify, Remove, At,
         Granted, Launch

LEMMA CountedEnough ==
  ASSUME BaseInv, QuorumInv, NEW t \in Tasks, Event(t) \/ Step(t), NEW u \in Tasks,
         At(u, "tell")'
  PROVE  Cardinality(Approved(entry[task[u].ref]))' >= Threshold
  <1>1. CASE u = t
    <2> DEFINE x == [entry[task[t].ref] EXCEPT !.sigs[task[t].from] = task[t].round]
    <2>1. Count(t) /\ Goto(t, "tell")
      BY <1>1, StepBefore DEF At
    <2>2. task'[t].ref = task[t].ref
      BY <2>1, GotoFields DEF BaseInv, PCs
    <2>3. entry'[task[t].ref] = x
      BY <2>1, CountEntry
    <2>4. task'[t].pc = "tell" /\ task[t].pc = "count"
      BY <1>1, <2>1 DEF At, Count, Granted
    <2>5. Cardinality(Approved(x)) >= Threshold
      <3>1. ~End(t)
        BY <2>4, GotoFields DEF End, BaseInv, PCs
      <3> QED
        BY <2>1, <3>1 DEF Count
    <2>6. Approved(entry[task[u].ref])' = Approved(x)
      BY <1>1, <2>2, <2>3 DEF Approved
    <2> QED
      BY <2>5, <2>6
  <1>2. CASE u # t
    <2>1. task'[u] = task[u]
      BY <1>2, StepActs DEF Acts
    <2>2. task[u].pc = "tell"
      BY <2>1 DEF At
    <2>3. UNCHANGED entry
      BY <1>2, <2>2, HolderAlone DEF Holding
    <2>4. Approved(entry[task[u].ref])' = Approved(entry[task[u].ref])
      BY <2>1, <2>3 DEF Approved
    <2> QED
      BY <2>2, <2>4 DEF QuorumInv, At
  <1> QED
    BY <1>1, <1>2

LEMMA QuorumNext ==
  ASSUME BaseInv, QuorumInv, [Next]_vars
  PROVE  QuorumInv'
  <1>1. CASE UNCHANGED <<entry, task, starts>>
    BY <1>1 DEF QuorumInv, At, Approved, StartCarriesQuorum
  <1>2. ASSUME NEW t \in Tasks, Event(t) \/ Step(t)
        PROVE  QuorumInv'
    <2>1. \A e \in Tasks : entry'[e] # None => entry'[e].sigs[Me] = entry'[e].request
      BY <1>2, OwnApproval
    <2>2. \A u \in Tasks : At(u, "tell")' => Cardinality(Approved(entry[task[u].ref]))' >= Threshold
      BY <1>2, CountedEnough
    <2>3. StartCarriesQuorum'
      <3>1. CASE UNCHANGED starts
        BY <3>1 DEF QuorumInv, StartCarriesQuorum
      <3>2. CASE Tell(t)
        <4> DEFINE e == task[t].ref
                   s == [msg |-> task[t].msg, round |-> entry[e].request, by |-> t,
                         sigs |-> entry[e].sigs]
        <4>1. starts' = starts \cup {s} /\ task[t].pc = "tell"
          BY <3>2 DEF Tell, At
        <4>2. e \in Tasks /\ entry[e] # None
          BY <4>1, HandlerFacts DEF AboutEntry
        <4>3. s.sigs[Me] = s.round
          BY <4>2 DEF QuorumInv
        <4>4. Cardinality(Approved(entry[e])) >= Threshold
          BY <4>1 DEF QuorumInv, At
        <4>5. {g \in Guards : s.sigs[g] = s.round} = Approved(entry[e])
          BY DEF Approved
        <4> HIDE DEF s
        <4> QED
          BY <4>1, <4>3, <4>4, <4>5 DEF QuorumInv, StartCarriesQuorum
      <3> QED
        BY <1>2, <3>1, <3>2
           DEF Event, Step, Sign, Request, Start, Update, Cached, Approve, SignData, Answer,
               TooEarly, Push, Store, CleanSigns, CleanPending, Turn, Active, Send, Record, Ignore,
               Collect, Count, Begin, Approvals, Join, Posted, PostFails, Fail, Verify, Remove,
               history
    <2> QED
      BY <2>1, <2>2, <2>3 DEF QuorumInv
  <1> QED
    BY <1>1, <1>2 DEF Next, Tick, vars, state, history

\* A start message carries the approvals that were counted, of the request that
\* the entry then has, the sender's included: the entry cannot be given another
\* request between the two.
THEOREM StartCarriesQuorumHolds == Spec => []StartCarriesQuorum
  <1>1. Init => QuorumInv
    BY DEF Init, QuorumInv, StartCarriesQuorum, At, Idle
  <1>2. BaseInv /\ QuorumInv /\ [Next]_vars => QuorumInv'
    BY QuorumNext
  <1>3. QuorumInv => StartCarriesQuorum
    BY DEF QuorumInv
  <1> QED
    BY <1>1, <1>2, <1>3, BaseInvariant, PTL DEF Spec

\* The entry that a handler is about to start is still there for it.
LEMMA StarterFinds ==
  ASSUME BaseInv, StartInv, NEW t \in Tasks, Event(t) \/ Step(t), NEW u \in Tasks,
         task'[u].pc \in {"tell", "begin"}
  PROVE  GetSign(task[u].msg)' # None
  <1>1. CASE u # t
    <2>1. task'[u] = task[u] /\ UNCHANGED <<queue, entry>>
      BY <1>1, StepActs, HolderAlone DEF Acts, Holding
    <2>2. GetSign(task[u].msg) # None
      BY <2>1 DEF StartInv
    <2> QED
      BY <2>1, <2>2, SameSign DEF BaseInv
  <1>2. CASE u = t /\ task'[t].pc = "tell"
    <2>1. Count(t) /\ Goto(t, "tell")
      BY <1>2, StepBefore
    <2>2. task'[t].msg = task[t].msg
      BY <2>1, GotoFields DEF BaseInv, PCs
    <2>3. queue' = queue
      BY <2>1 DEF Count
    <2>4. \A e \in Queued : entry'[e].msg = entry[e].msg /\ entry'[e].posted = entry[e].posted
      <3> DEFINE x == [entry[task[t].ref] EXCEPT !.sigs[task[t].from] = task[t].round]
      <3>1. /\ entry'[task[t].ref] = x
            /\ x.msg = entry[task[t].ref].msg /\ x.posted = entry[task[t].ref].posted
            /\ \A f \in Tasks \ {task[t].ref} : entry'[f] = entry[f]
        BY <2>1, CountEntry
      <3>2. Queued \subseteq Tasks
        BY GetAnyFacts DEF BaseInv
      <3> HIDE DEF x
      <3> QED
        BY <3>1, <3>2
    <2>5. GetSign(task[t].msg) # None
      <3>1. ~End(t)
        BY <1>2, GotoFields DEF End, BaseInv, PCs
      <3> QED
        BY <2>1, <3>1 DEF Count
    <2> QED
      BY <1>2, <2>2, <2>3, <2>4, <2>5, SameSign DEF BaseInv
  <1>3. CASE u = t /\ task'[t].pc = "begin"
    <2>1. Tell(t)
      BY <1>3, StepBefore
    <2>2. Goto(t, "begin") /\ task[t].pc = "tell" /\ UNCHANGED <<queue, entry>>
      BY <2>1 DEF Tell, At, state
    <2>3. task'[t].msg = task[t].msg
      BY <2>2, GotoFields DEF BaseInv, PCs
    <2>4. GetSign(task[t].msg) # None
      BY <2>2 DEF StartInv
    <2> QED
      BY <1>3, <2>2, <2>3, <2>4, SameSign DEF BaseInv
  <1> QED
    BY <1>1, <1>2, <1>3

LEMMA StartNext ==
  ASSUME BaseInv, StartInv, [Next]_vars
  PROVE  StartInv'
  <1>1. CASE UNCHANGED <<queue, entry, task, starts, posts>>
    <2>1. \A u \in Tasks : task'[u].pc \in {"tell", "begin"} => GetSign(task[u].msg)' # None
      <3> SUFFICES ASSUME NEW u \in Tasks, task'[u].pc \in {"tell", "begin"}
                   PROVE  GetSign(task[u].msg)' # None
        OBVIOUS
      <3>1. GetSign(task[u].msg) # None
        BY <1>1 DEF StartInv
      <3> QED
        BY <1>1, <3>1, SameSign DEF BaseInv
    <2> QED
      BY <1>1, <2>1 DEF StartInv, StarterStarts, At
  <1>2. ASSUME NEW t \in Tasks, Event(t) \/ Step(t)
        PROVE  StartInv'
    <2>1. \A u \in Tasks : task'[u].pc \in {"tell", "begin"} => GetSign(task[u].msg)' # None
      BY <1>2, StarterFinds
    <2>2. \A s \in starts : s.by \in Tasks
      BY DEF BaseInv, TypeOK
    <2>3. posts \subseteq posts'
      BY <1>2 DEF Event, Step, Sign, Request, Start, Update, Cached, Approve, SignData, Answer,
                  TooEarly, Push, Store, CleanSigns, CleanPending, Turn, Active, Send, Record,
                  Ignore, Collect, Count, Tell, Begin, Approvals, Join, Posted, PostFails, Fail,
                  Verify, Remove, StartSign, history
    <2>4. ASSUME NEW s \in starts, At(s.by, "begin")
          PROVE  At(s.by, "begin")' \/ \E p \in posts' : p.by = s.by
      <3>1. CASE s.by # t
        BY <1>2, <2>2, <2>4, <3>1, StepActs DEF Acts, At
      <3>2. CASE s.by = t
        <4>1. Begin(t) /\ GetSign(task[t].msg) # None
          BY <1>2, <2>4, <3>2, BeginFollows DEF At, StartInv
        <4>2. [entry |-> GetSign(task[t].msg), by |-> t] \in posts'
          BY <4>1 DEF Begin, StartSign
        <4> QED
          BY <3>2, <4>2
      <3> QED
        BY <3>1, <3>2
    <2>5. \A s \in starts : At(s.by, "begin")' \/ \E p \in posts' : p.by = s.by
      BY <2>3, <2>4 DEF StartInv, StarterStarts
    <2>6. CASE UNCHANGED starts
      BY <2>1, <2>5, <2>6 DEF StartInv, StarterStarts
    <2>7. CASE Tell(t)
      <3>1. \A s \in starts' : s \in starts \/ s.by = t
        BY <2>7 DEF Tell
      <3>2. task'[t].pc = "begin"
        BY <2>7, GotoFields DEF Tell, BaseInv, PCs
      <3> QED
        BY <2>1, <2>5, <3>1, <3>2 DEF StartInv, StarterStarts, At
    <2> QED
      BY <1>2, <2>6, <2>7
         DEF Event, Step, Sign, Request, Start, Update, Cached, Approve, SignData, Answer,
             TooEarly, Push, Store, CleanSigns, CleanPending, Turn, Active, Send, Record, Ignore,
             Collect, Count, Begin, Approvals, Join, Posted, PostFails, Fail, Verify, Remove,
             history
  <1> QED
    BY <1>1, <1>2 DEF Next, Tick, vars, state, history

\* Who told the others to start a ceremony starts it too: it holds the mutex
\* from the count of the approvals to startSign, which finds the entry.
THEOREM StarterStartsHolds == Spec => []StarterStarts
  <1>1. Init => StartInv
    BY DEF Init, StartInv, StarterStarts, Idle
  <1>2. BaseInv /\ StartInv /\ [Next]_vars => StartInv'
    BY StartNext
  <1>3. StartInv => StarterStarts
    BY DEF StartInv
  <1> QED
    BY <1>1, <1>2, <1>3, BaseInvariant, PTL DEF Spec

-----------------------------------------------------------------------------
\* Removal of entries

\* A step queues at most the entry of its handler, and forgets no answer.
LEMMA QueueStep ==
  ASSUME BaseInv, NEW t \in Tasks, Event(t) \/ Step(t)
  PROVE  /\ \A e \in Queued : e \in Tasks /\ entry[e] # None /\ entry'[e].msg = entry[e].msg
         /\ \/ UNCHANGED queue
            \/ \E S : queue' = Kept(queue, S)
            \/ /\ Push(t) /\ queue' = Append(queue, t)
               /\ entry'[t].msg = task[t].msg
         /\ answered \subseteq answered' /\ cache \subseteq cache'
  <1>1. \A e \in Queued : e \in Tasks /\ entry[e] # None /\ entry'[e].msg = entry[e].msg
    BY StepEntries, GetAnyFacts DEF BaseInv, TypeOK, EntriesLast
  <1>2. CASE Push(t)
    <2> DEFINE x == [msg |-> task[t].msg, added |-> round, posted |-> FALSE,
                     request |-> None, sigs |-> [g \in Guards |-> None]]
    <2>1. entry'[t] = x
      BY <1>2, PushEntry
    <2>2. x.msg = task[t].msg
      OBVIOUS
    <2> QED
      BY <1>1, <1>2, <2>1, <2>2 DEF Push, history
  <1>3. CASE CleanSigns(t) \/ Fail(t) \/ Remove(t)
    BY <1>1, <1>3 DEF CleanSigns, Fail, Remove, Without, history
  <1>4. CASE ~(Push(t) \/ CleanSigns(t) \/ Fail(t) \/ Remove(t))
    <2>1. UNCHANGED queue
      BY <1>4 DEF Event, Step, Sign, Request, Start, Update, Cached, Approve, SignData, Answer,
                  TooEarly, Store, CleanPending, Turn, Active, Send, Record, Ignore, Collect, Count,
                  Tell, Begin, Approvals, Join, Posted, PostFails, Verify, state
    <2>2. answered \subseteq answered' /\ cache \subseteq cache'
      BY <1>4 DEF Event, Step, Sign, Request, Start, Update, Cached, Approve, SignData, Answer,
                  TooEarly, Store, CleanPending, Turn, Active, Send, Record, Ignore, Collect, Count,
                  Tell, Begin, Approvals, Join, Posted, PostFails, Verify, state, history
    <2> QED
      BY <1>1, <2>1, <2>2
  <1> QED
    BY <1>2, <1>3, <1>4

LEMMA QueuedStep ==
  ASSUME BaseInv, NEW t \in Tasks, Event(t) \/ Step(t), NEW e \in Queued'
  PROVE  \/ e \in Queued /\ e \in Tasks /\ entry'[e].msg = entry[e].msg
         \/ e = t /\ Push(t) /\ entry'[t].msg = task[t].msg /\ task[t].pc = "push"
  <1>1. queue \in Seq(Tasks)
    BY DEF BaseInv, TypeOK
  <1>2. CASE UNCHANGED queue
    BY <1>2, QueueStep DEF Queued
  <1>3. ASSUME NEW S, queue' = Kept(queue, S)
        PROVE  e \in Queued
    BY <1>1, <1>3, KeptFacts DEF Queued
  <1>4. CASE Push(t) /\ queue' = Append(queue, t) /\ entry'[t].msg = task[t].msg
    <2>1. Queued' = Queued \cup {t}
      BY <1>1, <1>4, AppendElements DEF Queued
    <2>2. task[t].pc = "push"
      BY <1>4 DEF Push, Granted, At
    <2> QED
      BY <1>4, <2>1, <2>2, QueueStep
  <1> QED
    BY <1>2, <1>3, <1>4, QueueStep

LEMMA StaysOnce ==
  ASSUME BaseInv, LossInv, NEW t \in Tasks, Event(t) \/ Step(t)
  PROVE  NoDuplicates'
  <1>1. queue \in Seq(Tasks)
    BY DEF BaseInv, TypeOK
  <1>2. \A i \in DOMAIN queue : queue[i] \in Queued /\ entry'[queue[i]].msg = entry[queue[i]].msg
    BY QueueStep DEF Queued, Elements
  <1>3. CASE UNCHANGED queue
    BY <1>2, <1>3 DEF LossInv, NoDuplicates
  <1>4. ASSUME NEW S, queue' = Kept(queue, S)
        PROVE  NoDuplicates'
    <2>1. /\ queue' \in Seq(Tasks)
          /\ \A k, l \in DOMAIN queue' : k < l =>
               \E i, j \in DOMAIN queue : i < j /\ queue'[k] = queue[i] /\ queue'[l] = queue[j]
      BY <1>1, <1>4, KeptFacts
    <2>2. \A i, j \in DOMAIN queue : i < j => entry'[queue[i]].msg # entry'[queue[j]].msg
      BY <1>1, <1>2 DEF LossInv, NoDuplicates
    <2>3. \A k, l \in DOMAIN queue' : k < l => entry'[queue'[k]].msg # entry'[queue'[l]].msg
      BY <2>1, <2>2
    <2>4. \A k, l \in DOMAIN queue' : k < l \/ l < k \/ k = l
      BY <2>1
    <2> QED
      BY <2>3, <2>4 DEF NoDuplicates
  <1>5. CASE Push(t) /\ queue' = Append(queue, t) /\ entry'[t].msg = task[t].msg
    <2>1. /\ DOMAIN queue' = 1 .. Len(queue) + 1 /\ DOMAIN queue = 1 .. Len(queue)
          /\ Len(queue) \in Nat
          /\ \A i \in 1 .. Len(queue) : queue'[i] = queue[i]
          /\ queue'[Len(queue) + 1] = t
      BY <1>1, <1>5
    <2>2. \A i \in DOMAIN queue : entry'[queue[i]].msg # task[t].msg
      BY <1>2, <1>5 DEF LossInv, PushNew, Push, Granted
    <2>3. \A i, j \in DOMAIN queue : entry'[queue[i]].msg = entry'[queue[j]].msg => i = j
      BY <1>2 DEF LossInv, NoDuplicates
    <2>4. \A i \in DOMAIN queue' : i \in DOMAIN queue \/ i = Len(queue) + 1
      BY <2>1
    <2> QED
      BY <1>5, <2>1, <2>2, <2>3, <2>4 DEF NoDuplicates
  <1> QED
    BY <1>3, <1>4, <1>5, QueueStep

\* What sign(m) checked: m is not queued, and no other call is about to queue it.
LEMMA SignChecks ==
  ASSUME BaseInv, ~Overlapping, NEW t \in Tasks, NEW m \in Msgs, Sign(t, m)
  PROVE  /\ task'[t].msg = m
         /\ \A e \in Queued : entry[e].msg # m
         /\ \A u \in Tasks : ~(At(u, "push") /\ task[u].msg = m)
         /\ UNCHANGED <<queue, entry>> /\ signLock' = Append(signLock, <<t, "push">>)
  <1>1. Launch(t, "sign", "push", m, None, None, None)
    BY DEF Sign
  <1>2. task'[t].msg = m
    BY <1>1 DEF Launch, BaseInv, TypeOK
  <1>3. \A e \in Queued : entry[e].msg # m
    BY GetAnyFacts DEF Sign, BaseInv
  <1> QED
    BY <1>2, <1>3 DEF Sign, state

LEMMA StaysOnePush ==
  ASSUME BaseInv, LossInv, ~Overlapping, NEW t \in Tasks, Event(t) \/ Step(t)
  PROVE  OnePush' /\ PushNew'
  <1>1. \A u \in Tasks \ {t} : task'[u] = task[u]
    BY StepActs DEF Acts
  <1>2. ASSUME At(t, "push")'
        PROVE  \E m \in Msgs : Sign(t, m)
    BY <1>2, StepBefore DEF At
  <1>3. OnePush'
    <2>1. ASSUME NEW u \in Tasks \ {t}, At(t, "push")', At(u, "push")'
          PROVE  task'[t].msg # task'[u].msg
      BY <1>1, <1>2, <2>1, SignChecks DEF At
    <2>2. \A u, v \in Tasks \ {t} :
            At(u, "push")' /\ At(v, "push")' /\ task'[u].msg = task'[v].msg => u = v
      BY <1>1 DEF LossInv, OnePush, At
    <2> QED
      BY <2>1, <2>2 DEF OnePush
  <1>4. ASSUME NEW u \in Tasks, NEW e \in Queued', At(u, "push")'
        PROVE  entry'[e].msg # task'[u].msg
    <2>1. CASE u = t
      <3>1. PICK m \in Msgs : Sign(t, m)
        BY <1>2, <1>4, <2>1
      <3>2. /\ task'[t].msg = m /\ UNCHANGED <<queue, entry>>
            /\ \A f \in Queued : entry[f].msg # m
        BY <3>1, SignChecks
      <3>3. e \in Queued
        BY <3>2 DEF Queued
      <3> QED
        BY <2>1, <3>2, <3>3
    <2>2. CASE u # t
      <3>1. task'[u] = task[u] /\ At(u, "push")
        BY <1>1, <1>4, <2>2 DEF At
      <3>2. CASE e \in Queued /\ entry'[e].msg = entry[e].msg
        BY <3>1, <3>2 DEF LossInv, PushNew
      <3>3. CASE e = t /\ Push(t) /\ entry'[t].msg = task[t].msg /\ task[t].pc = "push"
        BY <2>2, <3>1, <3>3 DEF LossInv, OnePush, At
      <3> QED
        BY <3>2, <3>3, QueuedStep
    <2> QED
      BY <2>1, <2>2
  <1>5. PushNew'
    BY <1>4 DEF PushNew
  <1> QED
    BY <1>3, <1>5

LEMMA StaysPosting ==
  ASSUME BaseInv, LossInv, NEW t \in Tasks, Event(t) \/ Step(t)
  PROVE  PostingQueued'
  <1> SUFFICES ASSUME NEW u \in Tasks, At(u, "posting")'
               PROVE  task'[u].ref \in Queued'
    BY DEF PostingQueued
  <1>1. CASE u # t
    <2>1. task'[u] = task[u] /\ task[u].pc = "posting"
      BY <1>1, StepActs DEF Acts, At
    <2>2. UNCHANGED queue
      BY <1>1, <2>1, HolderAlone DEF Holding
    <2> QED
      BY <2>1, <2>2 DEF LossInv, PostingQueued, At, Queued
  <1>2. CASE u = t
    <2>1. Begin(t) \/ Join(t)
      BY <1>2, StepBefore DEF At
    <2>2. CASE End(t)
      BY <1>2, <2>2, GotoFields DEF End, At, BaseInv, PCs
    <2>3. CASE /\ GetSign(task[t].msg) # None
               /\ task' = [task EXCEPT ![t].pc = "posting", ![t].ref = GetSign(task[t].msg)]
      <3> DEFINE e == GetSign(task[t].msg)
                 k == [task[t] EXCEPT !.pc = "posting", !.ref = e]
      <3>1. e \in Queued
        BY <2>3, GetSignFacts DEF BaseInv
      <3> HIDE DEF e
      <3>2. task \in [Tasks -> Task] /\ task[t] \in Task
        BY DEF BaseInv, TypeOK
      <3>3. task' = [task EXCEPT ![t] = k] /\ k.ref = e
        BY <2>3, <3>2 DEF Task, e
      <3> HIDE DEF k
      <3>4. task'[t].ref = e
        BY <3>2, <3>3
      <3>5. UNCHANGED queue
        BY <2>1 DEF Begin, Join
      <3> QED
        BY <1>2, <3>1, <3>4, <3>5 DEF Queued
    <2> QED
      BY <2>1, <2>2, <2>3 DEF Begin, Join, StartSign
  <1> QED
    BY <1>1, <1>2

\* When a handler turns to the removal of a message's entries, the one that is
\* queued is answered, or is about to be, or the signature is cached.
LEMMA RemovalBegins ==
  ASSUME BaseInv, LossInv, NEW t \in Tasks, Event(t) \/ Step(t), Removes(t)'
  PROVE  \/ task'[t].msg \in cache'
         \/ /\ UNCHANGED <<queue, entry>>
            /\ \E e \in Queued :
                 /\ entry[e].msg = task'[t].msg
                 /\ e \in answered' \/ (At(t, "fail")' /\ e = task'[t].ref)
  <1>1. CASE PostFails(t)
    <2>1. /\ Goto(t, "fail") /\ task[t].pc = "posting" /\ UNCHANGED <<queue, entry>>
      BY <1>1 DEF PostFails, At
    <2>2. task'[t].pc = "fail" /\ task'[t].msg = task[t].msg /\ task'[t].ref = task[t].ref
      BY <2>1, GotoFields DEF BaseInv, PCs
    <2>3. task[t].ref \in Queued /\ entry[task[t].ref].msg = task[t].msg
      BY <2>1, HandlerFacts DEF LossInv, PostingQueued, At, AboutEntry
    <2> QED
      BY <2>1, <2>2, <2>3 DEF At
  <1>2. CASE Verify(t)
    <2>1. CASE End(t)
      BY <2>1, GotoFields DEF End, Removes, BaseInv, PCs
    <2>2. CASE Goto(t, "remove") /\ cache' = cache \cup {task[t].msg}
      BY <2>2, GotoFields DEF BaseInv, PCs
    <2> QED
      BY <1>2, <2>1, <2>2 DEF Verify, AwaitSigns
  <1>3. ASSUME NEW op \in running, NEW ok \in BOOLEAN, SignData(t, op, ok)
        PROVE  \/ task'[t].msg \in cache'
               \/ /\ UNCHANGED <<queue, entry>>
                  /\ \E e \in Queued :
                       /\ entry[e].msg = task'[t].msg
                       /\ e \in answered' \/ (At(t, "fail")' /\ e = task'[t].ref)
    <2> DEFINE m == entry[op].msg
               e == GetAny(m)
    <2>1. CASE /\ e # None /\ answered' = answered \cup {e}
               /\ Launch(t, "signData", "remove", m, e, None, None)
      <3>1. e \in Queued /\ entry[e].msg = m
        BY <2>1, GetAnyFacts DEF BaseInv
      <3>2. task'[t].msg = m
        BY <2>1 DEF Launch, BaseInv, TypeOK
      <3>3. UNCHANGED <<queue, entry>>
        BY <1>3 DEF SignData
      <3> HIDE DEF m, e
      <3> QED
        BY <2>1, <3>1, <3>2, <3>3
    <2>2. CASE Launch(t, "signData", "done", m, None, None, None)
      BY <2>2 DEF Launch, Removes, BaseInv, TypeOK
    <2> QED
      BY <1>3, <2>1, <2>2 DEF SignData
  <1> QED
    BY <1>1, <1>2, <1>3, StepBefore DEF Removes

LEMMA QueuedOnce ==
  ASSUME LossInv, NEW e \in Queued, NEW f \in Queued, entry[e].msg = entry[f].msg
  PROVE  e = f
  BY DEF LossInv, NoDuplicates, Queued, Elements

LEMMA BeforeAppend ==
  ASSUME NEW T, NEW L \in Seq(T), NEW t, NEW u, NEW x \in T
  PROVE  /\ Before(L, t, u) => Before(Append(L, x), t, u)
         /\ (\E i \in DOMAIN L : L[i][1] = t) /\ x[1] = u => Before(Append(L, x), t, u)
  <1> DEFINE M == Append(L, x)
             n == Len(L)
  <1>1. /\ n \in Nat /\ DOMAIN L = 1 .. n /\ DOMAIN M = 1 .. n + 1
        /\ \A i \in 1 .. n : M[i] = L[i]
        /\ M[n + 1] = x
    OBVIOUS
  <1>2. \A i \in 1 .. n : i \in 1 .. n + 1 /\ i < n + 1
    BY <1>1
  <1>3. n + 1 \in 1 .. n + 1
    BY <1>1
  <1> HIDE DEF M, n
  <1>4. Before(L, t, u) => Before(M, t, u)
    BY <1>1, <1>2 DEF Before
  <1>5. (\E i \in DOMAIN L : L[i][1] = t) /\ x[1] = u => Before(M, t, u)
    BY <1>1, <1>2, <1>3 DEF Before
  <1> QED
    BY <1>4, <1>5 DEF M

LEMMA BeforeTail ==
  ASSUME NEW T, NEW L \in Seq(T), L # <<>>, NEW t, NEW u, Head(L)[1] # t, Before(L, t, u)
  PROVE  Before(Tail(L), t, u)
  <1> DEFINE M == Tail(L)
             n == Len(L)
  <1>1. /\ n \in Nat \ {0} /\ DOMAIN L = 1 .. n /\ DOMAIN M = 1 .. n - 1 /\ Head(L) = L[1]
        /\ \A i \in 1 .. n - 1 : M[i] = L[i + 1]
    OBVIOUS
  <1>2. PICK i, j \in 1 .. n : i < j /\ L[i][1] = t /\ L[j][1] = u
    BY <1>1 DEF Before
  <1>3. i # 1
    BY <1>1, <1>2
  <1>4. /\ i - 1 \in 1 .. n - 1 /\ j - 1 \in 1 .. n - 1 /\ i - 1 < j - 1
        /\ (i - 1) + 1 = i /\ (j - 1) + 1 = j
    BY <1>1, <1>2, <1>3
  <1> HIDE DEF M, n
  <1>5. M[i - 1][1] = t /\ M[j - 1][1] = u
    BY <1>1, <1>2, <1>4
  <1>6. Before(M, t, u)
    BY <1>1, <1>4, <1>5 DEF Before
  <1> QED
    BY <1>6 DEF M

\* A step of t leaves the others in the queue of the mutex, in their order.
LEMMA BeforeStays ==
  ASSUME BaseInv, NEW t \in Tasks, Acts(t), NEW u \in Tasks, u # t, NEW v \in Tasks,
         Before(signLock, u, v)
  PROVE  Before(signLock', u, v)
  <1> DEFINE T == Tasks \X PCs
             x == <<t, task'[t].pc>>
  <1>1. signLock \in Seq(T)
    BY DEF BaseInv, TypeOK
  <1>2. x \in T
    BY DEF Acts, Task
  <1> HIDE DEF T, x
  <1>3. CASE UNCHANGED signLock
    BY <1>3
  <1>4. CASE signLock' = Append(signLock, x)
    BY <1>1, <1>2, <1>4, BeforeAppend
  <1>5. ASSUME Holds(t)
        PROVE  Before(Tail(signLock), u, v) /\ Tail(signLock) \in Seq(T)
    BY <1>1, <1>5, BeforeTail DEF Holds
  <1>6. CASE Holds(t) /\ signLock' = Tail(signLock)
    BY <1>5, <1>6
  <1>7. CASE Holds(t) /\ signLock' = Append(Tail(signLock), x)
    BY <1>2, <1>5, <1>7, BeforeAppend
  <1> QED
    BY <1>3, <1>4, <1>6, <1>7 DEF Acts, LockMove, x

\* Nobody stands before the holder.
LEMMA HolderFirst ==
  ASSUME BaseInv, NEW t \in Tasks, Holds(t), NEW u
  PROVE  ~Before(signLock, u, t)
  <1>1. /\ signLock \in Seq(Tasks \X PCs) /\ signLock # <<>> /\ signLock[1][1] = t
        /\ \A i, j \in DOMAIN signLock : signLock[i][1] = signLock[j][1] => i = j
    BY DEF BaseInv, TypeOK, LockInv, LockOK, Holds
  <1>2. 1 \in DOMAIN signLock /\ \A i \in DOMAIN signLock : i \in Nat /\ 1 <= i
    BY <1>1
  <1> QED
    BY <1>1, <1>2 DEF Before

LEMMA StaysAnswered ==
  ASSUME BaseInv, LossInv, NEW t \in Tasks, Event(t) \/ Step(t)
  PROVE  RemovesAnswered'
  <1> SUFFICES ASSUME NEW u \in Tasks, NEW e \in Queued', Removes(u)',
                      entry'[e].msg = task'[u].msg
               PROVE  \/ At(u, "fail")' /\ e = task'[u].ref
                      \/ e \in answered' \/ task'[u].msg \in cache'
    BY DEF RemovesAnswered
  <1>1. CASE u # t
    <2>1. task'[u] = task[u] /\ Removes(u) /\ (At(u, "fail")' <=> At(u, "fail"))
      BY <1>1, StepActs DEF Acts, Removes, At
    <2>2. CASE e \in Queued /\ entry'[e].msg = entry[e].msg
      BY <2>1, <2>2, QueueStep DEF LossInv, RemovesAnswered
    <2>3. CASE e = t /\ Push(t) /\ entry'[t].msg = task[t].msg /\ task[t].pc = "push"
      <3>1. Holds(t)
        BY <2>3, HoldsFacts DEF Push
      <3>2. Before(signLock, u, t) \/ task[u].msg \in cache
        BY <2>1, <2>3 DEF LossInv, RemovesFirst, At
      <3>3. task[u].msg \in cache
        BY <3>1, <3>2, HolderFirst
      <3> QED
        BY <2>1, <3>3, QueueStep
    <2> QED
      BY <2>2, <2>3, QueuedStep
  <1>2. CASE u = t
    <2>1. ASSUME NEW f \in Queued, UNCHANGED <<queue, entry>>, entry[f].msg = task'[t].msg
          PROVE  e = f
      <3>1. e \in Queued /\ entry[e].msg = entry[f].msg
        BY <1>2, <2>1 DEF Queued
      <3> QED
        BY <3>1, QueuedOnce
    <2> QED
      BY <1>2, <2>1, RemovalBegins
  <1> QED
    BY <1>1, <1>2

LEMMA StaysFirst ==
  ASSUME BaseInv, LossInv, ~Overlapping, NEW t \in Tasks, Event(t) \/ Step(t)
  PROVE  RemovesFirst'
  <1> SUFFICES ASSUME NEW u \in Tasks, NEW v \in Tasks, Removes(u)', At(v, "push")',
                      task'[v].msg = task'[u].msg
               PROVE  Before(signLock', u, v) \/ task'[u].msg \in cache'
    BY DEF RemovesFirst
  <1>1. Acts(t) /\ \A w \in Tasks \ {t} : task'[w] = task[w]
    BY StepActs DEF Acts
  <1>2. cache \subseteq cache'
    BY QueueStep
  <1>3. u # v
    BY DEF Removes, At
  <1>4. CASE u = t
    <2>1. At(v, "push") /\ task[v].msg = task'[t].msg
      BY <1>1, <1>3, <1>4 DEF At
    <2>2. \A e \in Queued : entry[e].msg # task'[t].msg
      BY <2>1 DEF LossInv, PushNew
    <2> QED
      BY <1>4, <2>2, RemovalBegins
  <1>5. CASE v = t
    <2>1. PICK m \in Msgs : Sign(t, m)
      BY <1>5, StepBefore DEF At
    <2>2. signLock' = Append(signLock, <<t, "push">>)
      BY <2>1 DEF Sign
    <2>3. task[u].pc \in {"fail", "remove"}
      BY <1>1, <1>3, <1>5 DEF Removes
    <2>4. \E i \in DOMAIN signLock : signLock[i][1] = u
      BY <2>3 DEF BaseInv, LockInv, LockOK, pcs, Waiting
    <2> DEFINE T == Tasks \X PCs
               x == <<t, "push">>
    <2>5. signLock \in Seq(T) /\ x \in T /\ x[1] = t /\ signLock' = Append(signLock, x)
      BY <2>2 DEF BaseInv, TypeOK, PCs
    <2> HIDE DEF T, x
    <2> QED
      BY <1>5, <2>4, <2>5, BeforeAppend
  <1>6. CASE u # t /\ v # t
    <2>1. Removes(u) /\ At(v, "push") /\ task[v].msg = task[u].msg /\ task'[u].msg = task[u].msg
      BY <1>1, <1>6 DEF Removes, At
    <2>2. Before(signLock, u, v) \/ task[u].msg \in cache
      BY <2>1 DEF LossInv, RemovesFirst
    <2> QED
      BY <1>1, <1>2, <1>6, <2>1, <2>2, BeforeStays
  <1> QED
    BY <1>4, <1>5, <1>6

LEMMA LossNext ==
  ASSUME BaseInv, LossInv, ~Overlapping, [Next]_vars
  PROVE  LossInv'
  <1>1. CASE UNCHANGED <<queue, entry, task, cache, signLock, answered>>
    BY <1>1 DEF LossInv, NoDuplicates, OnePush, PushNew, PostingQueued, RemovesAnswered,
                RemovesFirst, Removes, At, Queued
  <1>2. ASSUME NEW t \in Tasks, Event(t) \/ Step(t)
        PROVE  LossInv'
    BY <1>2, StaysOnce, StaysOnePush, StaysPosting, StaysAnswered, StaysFirst DEF LossInv
  <1> QED
    BY <1>1, <1>2 DEF Next, Tick, vars, state, locks, history

\* If calls of sign for a message do not overlap, none is queued twice: what
\* sign checks before it awaits the mutex still holds when it has it.
THEOREM NoDuplicatesHolds ==
  ASSUME ~Overlapping
  PROVE  Spec => []NoDuplicates
  <1>1. Init => LossInv
    BY DEF Init, LossInv, NoDuplicates, OnePush, PushNew, PostingQueued, RemovesAnswered,
           RemovesFirst, Removes, At, Idle, Queued, Elements
  <1>2. BaseInv /\ LossInv /\ [Next]_vars => LossInv'
    BY LossNext
  <1>3. LossInv => NoDuplicates
    BY DEF LossInv
  <1> QED
    BY <1>1, <1>2, <1>3, BaseInvariant, PTL DEF Spec

LEMMA StepLoses ==
  ASSUME BaseInv, LossInv, NEW t \in Tasks, Event(t) \/ Step(t), NEW e \in Queued \ Queued'
  PROVE  TimedOut(e) \/ e \in answered' \/ entry[e].msg \in cache'
  <1>1. queue \in Seq(Tasks)
    BY DEF BaseInv, TypeOK
  <1>2. CASE CleanSigns(t)
    <2>1. queue' = Kept(queue, {f \in Queued : ~TimedOut(f)})
      BY <1>2 DEF CleanSigns
    <2>2. Queued' = Queued \cap {f \in Queued : ~TimedOut(f)}
      BY <1>1, <2>1, KeptFacts DEF Queued
    <2> QED
      BY <2>2
  <1>3. CASE Fail(t) \/ Remove(t)
    <2>1. queue' = Kept(queue, {f \in Queued : entry[f].msg # task[t].msg})
      BY <1>3 DEF Fail, Remove, Without
    <2>2. Queued' = Queued \cap {f \in Queued : entry[f].msg # task[t].msg}
      BY <1>1, <2>1, KeptFacts DEF Queued
    <2>3. entry[e].msg = task[t].msg
      BY <2>2
    <2>4. Removes(t)
      BY <1>3 DEF Fail, Remove, Granted, At, Removes
    <2>5. \/ At(t, "fail") /\ e = task[t].ref
          \/ e \in answered \/ task[t].msg \in cache
      BY <2>3, <2>4 DEF LossInv, RemovesAnswered
    <2>6. CASE At(t, "fail") /\ e = task[t].ref
      <3>1. Fail(t)
        BY <1>3, <2>6 DEF Remove, Granted, At
      <3> QED
        BY <2>6, <3>1 DEF Fail
    <2>7. answered \subseteq answered' /\ cache \subseteq cache'
      BY QueueStep
    <2> QED
      BY <2>3, <2>5, <2>6, <2>7
  <1>4. CASE Push(t)
    <2>1. Queued' = Queued \cup {t}
      BY <1>1, <1>4, AppendElements DEF Push, Queued
    <2> QED
      BY <2>1
  <1>5. CASE UNCHANGED queue
    BY <1>5 DEF Queued
  <1> QED
    BY <1>2, <1>3, <1>4, <1>5
       DEF Event, Step, Sign, Request, Start, Update, Cached, Approve, SignData, Answer,
           TooEarly, Store, CleanPending, Turn, Active, Send, Record, Ignore, Collect, Count,
           Tell, Begin, Approvals, Join, Posted, PostFails, Verify, state

\* If calls of sign for a message do not overlap, an entry leaves the queue only
\* if it timed out, was answered, or its signature is cached: entries are removed
\* by message, and no later entry of the message is among them, for its push
\* waits for the mutex behind the removal.
THEOREM NoSilentLossHolds ==
  ASSUME ~Overlapping
  PROVE  Spec => NoSilentLoss
  <1>1. Init => LossInv
    BY DEF Init, LossInv, NoDuplicates, OnePush, PushNew, PostingQueued, RemovesAnswered,
           RemovesFirst, Removes, At, Idle, Queued, Elements
  <1>2. BaseInv /\ LossInv /\ [Next]_vars => LossInv'
    BY LossNext
  <1>3. BaseInv /\ LossInv /\ [Next]_vars =>
          [\A e \in Queued \ Queued' :
             TimedOut(e) \/ e \in answered' \/ entry[e].msg \in cache']_vars
    <2> SUFFICES ASSUME BaseInv, LossInv, Next, NEW e \in Queued \ Queued'
                 PROVE  TimedOut(e) \/ e \in answered' \/ entry[e].msg \in cache'
      OBVIOUS
    <2>1. ~Tick
      BY DEF Tick, state, Queued
    <2> QED
      BY <2>1, StepLoses DEF Next
  <1> QED
    BY <1>1, <1>2, <1>3, BaseInvariant, PTL DEF Spec, NoSilentLoss

-----------------------------------------------------------------------------
\* The handlers do not wait for each other for ever

\* The steps taken while pendingAccessMutex is held: all that a handler does with it.
PendWaiting == {"store", "cleanPending"}

\* The queue L of pendingAccessMutex and the steps pc of the handlers: those who
\* wait for it are in its queue, once; nobody holds it across an await.
PendOK(L, pc) ==
  /\ L \in Seq(Tasks \X PendWaiting)
  /\ \A i \in DOMAIN L : pc[L[i][1]] = L[i][2]
  /\ \A i, j \in DOMAIN L : L[i][1] = L[j][1] => i = j
  /\ \A t \in Tasks : pc[t] \in PendWaiting => \E i \in DOMAIN L : L[i][1] = t

\* pendingAccessMutex has the queue that its handlers' steps say.
PendInv == PendOK(pendLock, pcs)

\* t awaits nothing, or what it awaits has come or may come: of each step, the
\* condition under which it is taken.
CanGoOn(t) ==
  \/ task[t].pc \in {"check", "turn", "send", "pk", "approved", "tell", "begin"}
  \/ task[t].pc \in {"active", "verify", "posting"} /\ Quiet
  \/ \E c \in Waiting : Granted(signLock, t, c)
  \/ \E c \in PendWaiting : Granted(pendLock, t, c)

\* While a handler has not ended, one of them can go on: HandlersGoOn with the
\* conditions of the steps in place of ENABLED.
SomebodyGoesOn ==
  (\E t \in Tasks : task[t].pc \notin {"idle", "done"}) => \E t \in Tasks : CanGoOn(t)

\* A handler that has nothing to do with the mutex goes on.
LEMMA PendFree ==
  ASSUME NEW L, NEW pc \in [Tasks -> PCs], PendOK(L, pc), NEW t \in Tasks,
         pc[t] \notin PendWaiting, NEW c \in PCs \ PendWaiting
  PROVE  PendOK(L, [pc EXCEPT ![t] = c])
  <1>1. \A i \in DOMAIN L : L[i][1] \in Tasks /\ L[i][2] \in PendWaiting
    BY DEF PendOK
  <1>2. \A i \in DOMAIN L : L[i][1] # t
    BY <1>1 DEF PendOK
  <1> QED
    BY <1>1, <1>2 DEF PendOK

\* A handler asks for the mutex: it comes last in its queue.
LEMMA PendEnter ==
  ASSUME NEW L, NEW pc \in [Tasks -> PCs], PendOK(L, pc), NEW t \in Tasks,
         pc[t] \notin PendWaiting, NEW c \in PendWaiting
  PROVE  PendOK(Append(L, <<t, c>>), [pc EXCEPT ![t] = c])
  <1> DEFINE S == Tasks \X PendWaiting
             x == <<t, c>>
             M == Append(L, x)
             n == Len(L)
             qc == [pc EXCEPT ![t] = c]
  <1>1. L \in Seq(S) /\ n \in Nat /\ DOMAIN L = 1 .. n /\ x \in S /\ x[1] = t /\ x[2] = c
    BY DEF PendOK
  <1>2. \A i \in 1 .. n : L[i][1] \in Tasks /\ L[i][2] \in PendWaiting
    BY <1>1
  <1>3. \A i \in 1 .. n : L[i][1] # t
    <2>1. \A i \in 1 .. n : pc[L[i][1]] = L[i][2]
      BY <1>1 DEF PendOK
    <2> HIDE DEF n, S
    <2> QED
      BY <2>1, <1>2
  <1>4. qc[t] = c /\ \A u \in Tasks : u # t => qc[u] = pc[u]
    OBVIOUS
  <1> HIDE DEF S, x, qc
  <1>5. /\ M \in Seq(S) /\ DOMAIN M = 1 .. n + 1
        /\ (\A i \in 1 .. n : M[i] = L[i]) /\ M[n + 1] = x
    BY <1>1
  <1>6. \A i \in 1 .. n + 1 : i \in 1 .. n \/ i = n + 1
    BY <1>1
  <1>7. (\A i \in 1 .. n : i \in 1 .. n + 1) /\ n + 1 \in 1 .. n + 1
    BY <1>1
  <1> HIDE DEF M, n
  <1>8. \A i \in 1 .. n : qc[L[i][1]] = L[i][2]
    BY <1>1, <1>2, <1>3, <1>4 DEF PendOK
  <1>9. \A i \in 1 .. n + 1 : qc[M[i][1]] = M[i][2]
    BY <1>1, <1>4, <1>5, <1>6, <1>8
  <1>10. \A i, j \in 1 .. n + 1 : M[i][1] = M[j][1] => i = j
    <2>1. \A i, j \in 1 .. n : L[i][1] = L[j][1] => i = j
      BY <1>1 DEF PendOK
    <2> QED
      BY <2>1, <1>1, <1>3, <1>5, <1>6
  <1>11. ASSUME NEW u \in Tasks, qc[u] \in PendWaiting
         PROVE  \E i \in 1 .. n + 1 : M[i][1] = u
    <2>1. CASE u = t
      BY <2>1, <1>1, <1>5, <1>7
    <2>2. CASE u # t
      <3>1. PICK i \in 1 .. n : L[i][1] = u
        BY <2>2, <1>1, <1>4, <1>11 DEF PendOK
      <3> QED
        BY <3>1, <1>5, <1>7
    <2> QED
      BY <2>1, <2>2
  <1>12. PendOK(M, qc)
    BY <1>5, <1>9, <1>10, <1>11 DEF PendOK, S
  <1> QED
    BY <1>12 DEF M, qc, x

\* The first of the queue releases the mutex.
LEMMA PendLeave ==
  ASSUME NEW L, NEW pc \in [Tasks -> PCs], PendOK(L, pc), NEW t \in Tasks,
         L # <<>>, Head(L)[1] = t, NEW c \in PCs \ PendWaiting
  PROVE  PendOK(Tail(L), [pc EXCEPT ![t] = c])
  <1> DEFINE S == Tasks \X PendWaiting
             M == Tail(L)
             n == Len(L)
             qc == [pc EXCEPT ![t] = c]
  <1>1. L \in Seq(S) /\ n \in Nat \ {0} /\ DOMAIN L = 1 .. n /\ L[1][1] = t
    BY DEF PendOK
  <1>2. \A i \in 1 .. n : L[i][1] \in Tasks /\ L[i][2] \in PendWaiting
    BY <1>1
  <1>3. 1 \in 1 .. n /\ \A i \in 1 .. n : i # 1 => L[i][1] # t
    <2>1. \A i, j \in DOMAIN L : L[i][1] = L[j][1] => i = j
      BY DEF PendOK
    <2>2. 1 \in 1 .. n
      BY <1>1
    <2> QED
      BY <1>1, <2>1, <2>2, Zenon
  <1>4. qc[t] = c /\ \A u \in Tasks : u # t => qc[u] = pc[u]
    OBVIOUS
  <1> HIDE DEF S, qc
  <1>5. M \in Seq(S) /\ DOMAIN M = 1 .. n - 1 /\ \A i \in 1 .. n - 1 : M[i] = L[i + 1]
    BY <1>1
  <1>6. \A i \in 1 .. n - 1 : i + 1 \in 1 .. n /\ i + 1 # 1
    BY <1>1
  <1> HIDE DEF M
  <1>7. \A i \in 1 .. n - 1 : qc[M[i][1]] = M[i][2]
    <2>1. \A i \in 1 .. n : pc[L[i][1]] = L[i][2]
      BY <1>1 DEF PendOK
    <2> HIDE DEF n
    <2> QED
      BY <2>1, <1>2, <1>3, <1>4, <1>5, <1>6
  <1>8. \A i, j \in 1 .. n - 1 : M[i][1] = M[j][1] => i = j
    <2> SUFFICES ASSUME NEW i \in 1 .. n - 1, NEW j \in 1 .. n - 1, M[i][1] = M[j][1]
                 PROVE  i = j
      OBVIOUS
    <2>1. \A k, l \in 1 .. n : L[k][1] = L[l][1] => k = l
      BY <1>1 DEF PendOK
    <2>2. i + 1 = j + 1
      BY <2>1, <1>5, <1>6
    <2> QED
      BY <2>2, <1>1
  <1>9. ASSUME NEW u \in Tasks, qc[u] \in PendWaiting
        PROVE  \E i \in 1 .. n - 1 : M[i][1] = u
    <2>1. u # t /\ pc[u] \in PendWaiting
      BY <1>4, <1>9
    <2>2. PICK i \in 1 .. n : L[i][1] = u
      BY <2>1, <1>1 DEF PendOK
    <2>3. i - 1 \in 1 .. n - 1 /\ (i - 1) + 1 = i
      BY <2>1, <2>2, <1>1
    <2> HIDE DEF n
    <2> QED
      BY <2>2, <2>3, <1>5
  <1>10. PendOK(M, qc)
    BY <1>5, <1>7, <1>8, <1>9 DEF PendOK, S
  <1> QED
    BY <1>10 DEF M, qc

\* t goes on without pendingAccessMutex, asks for it, or releases it.
PendMove(t) ==
  \/ /\ task[t].pc \notin PendWaiting /\ task'[t].pc \notin PendWaiting /\ UNCHANGED pendLock
  \/ /\ task[t].pc \notin PendWaiting /\ task'[t].pc \in PendWaiting
     /\ pendLock' = Append(pendLock, <<t, task'[t].pc>>)
  \/ /\ pendLock # <<>> /\ Head(pendLock)[1] = t /\ task'[t].pc \notin PendWaiting
     /\ pendLock' = Tail(pendLock)

\* Every step of a handler treats pendingAccessMutex in one of these ways.
LEMMA PendMoves ==
  ASSUME BaseInv, NEW t \in Tasks, Event(t) \/ Step(t)
  PROVE  PendMove(t)
  <1>1. task \in [Tasks -> Task] /\ task[t] \in Task
    BY DEF BaseInv, TypeOK
  <1>2. ASSUME NEW c \in PCs, Goto(t, c) PROVE task'[t].pc = c
    BY <1>2, GotoFields DEF BaseInv
  <1>3. ASSUME NEW todo, NEW r, NextRequest(t, todo, r) PROVE task'[t].pc \in {"done", "send"}
    <2>1. PICK k : k = [task[t] EXCEPT
            !.pc = IF Kept(todo, {e \in Elements(todo) : ~entry[e].posted}) = <<>>
                   THEN "done" ELSE "send",
            !.todo = Kept(todo, {e \in Elements(todo) : ~entry[e].posted}), !.round = r]
      OBVIOUS
    <2>2. task' = [task EXCEPT ![t] = k]
      BY <1>1, <1>3, <2>1 DEF NextRequest
    <2>3. k.pc \in {"done", "send"}
      BY <1>1, <2>1 DEF Task
    <2> QED
      BY <1>1, <2>2, <2>3
  <1>4. ASSUME StartSign(t) PROVE task'[t].pc \in {"posting", "done"}
    <2>1. CASE End(t)
      BY <1>2, <2>1 DEF End, PCs
    <2>2. CASE task' = [task EXCEPT ![t].pc = "posting", ![t].ref = GetSign(task[t].msg)]
      BY <1>1, <2>2 DEF Task
    <2> QED
      BY <1>4, <2>1, <2>2 DEF StartSign
  <1>5. ASSUME Event(t) PROVE PendMove(t)
    <2>1. ASSUME NEW kind, NEW c, NEW m, NEW ref, NEW from, NEW r, Launch(t, kind, c, m, ref, from, r)
          PROVE  task[t].pc = "idle" /\ task'[t].pc = c
      BY <1>1, <2>1 DEF Launch, At
    <2> QED
      <3>1. CASE \/ \E m \in Msgs : Sign(t, m) \/ Request(t, m) \/ Start(t, m)
                 \/ Update(t)
        BY <2>1, <3>1 DEF Sign, Request, Start, Update, locks, PendMove, PendWaiting
      <3>2. CASE \/ \E q \in requested : Cached(t, q) \/ \E from \in Guards : Approve(t, q, from)
                 \/ \E op \in running, ok \in BOOLEAN : SignData(t, op, ok)
        BY <2>1, <3>2 DEF Cached, Approve, SignData, locks, PendMove, PendWaiting
      <3> QED
        BY <1>5, <3>1, <3>2 DEF Event
  <1>6. CASE Store(t) \/ CleanPending(t)
    BY <1>2, <1>6 DEF Store, CleanPending, Granted, Release, End, PendMove, PendWaiting, PCs
  <1>7. CASE CleanSigns(t)
    BY <1>2, <1>7 DEF CleanSigns, Granted, At, PendMove, PendWaiting, PCs
  <1>8. CASE TooEarly(t)
    <2>1. task' = [task EXCEPT ![t].pc = "store", ![t].ref = GetPending(task[t].msg)]
          /\ task[t].pc = "check" /\ pendLock' = Append(pendLock, <<t, "store">>)
      BY <1>8 DEF TooEarly, At
    <2>2. task'[t].pc = "store"
      BY <1>1, <2>1 DEF Task
    <2> QED
      BY <2>1, <2>2 DEF PendMove, PendWaiting
  <1>9. CASE Push(t)
    <2>1. task[t].pc = "push" /\ UNCHANGED pendLock
      BY <1>9 DEF Push, Granted, At
    <2>2. CASE End(t)
      BY <1>2, <2>1, <2>2 DEF End, PendMove, PendWaiting, PCs
    <2>3. ASSUME NEW r, task' = [task EXCEPT ![t].pc = "check", ![t].round = pend[r].round]
          PROVE  PendMove(t)
      <3>1. task'[t].pc = "check"
        BY <1>1, <2>3 DEF Task
      <3> QED
        BY <2>1, <3>1 DEF PendMove, PendWaiting
    <2> QED
      BY <1>9, <2>2, <2>3 DEF Push
  <1>10. CASE Active(t) \/ Record(t)
    <2>1. task[t].pc \in {"active", "record"} /\ UNCHANGED pendLock
      BY <1>10 DEF Active, Record, Granted, At, locks
    <2>2. task'[t].pc \in {"done", "send"}
      BY <1>2, <1>3, <1>10 DEF Active, Record, End, PCs
    <2> QED
      BY <2>1, <2>2 DEF PendMove, PendWaiting
  <1>11. CASE Begin(t) \/ Join(t)
    <2>1. task[t].pc \in {"begin", "join"} /\ UNCHANGED pendLock
      BY <1>11 DEF Begin, Join, Granted, At
    <2> QED
      BY <1>4, <1>11, <2>1 DEF Begin, Join, PendMove, PendWaiting
  <1>12. CASE Answer(t) \/ Turn(t) \/ Send(t) \/ Ignore(t) \/ Collect(t) \/ Count(t) \/ Tell(t)
    BY <1>2, <1>12 DEF Answer, Turn, Send, Ignore, Collect, Count, Tell, Granted, At, End, AwaitSigns,
                       locks, PendMove, PendWaiting, PCs
  <1>13. CASE Approvals(t) \/ Posted(t) \/ PostFails(t) \/ Fail(t) \/ Verify(t) \/ Remove(t)
    BY <1>2, <1>13 DEF Approvals, Posted, PostFails, Fail, Verify, Remove, Granted, At, End,
                       AwaitSigns, locks, PendMove, PendWaiting, PCs
  <1> QED
    BY <1>5, <1>6, <1>7, <1>8, <1>9, <1>10, <1>11, <1>12, <1>13 DEF Step

\* Every step keeps the queue of pendingAccessMutex in order.
LEMMA PendNext ==
  ASSUME BaseInv, PendInv, [Next]_vars
  PROVE  PendInv'
  <1>1. pcs \in [Tasks -> PCs] /\ PendOK(pendLock, pcs)
    BY DEF BaseInv, TypeOK, PendInv, Task, pcs
  <1>2. CASE UNCHANGED <<task, pendLock>>
    BY <1>2 DEF PendInv, pcs
  <1>3. ASSUME NEW t \in Tasks, Event(t) \/ Step(t) PROVE PendInv'
    <2> DEFINE c == task'[t].pc
    <2>1. c \in PCs /\ pcs[t] = task[t].pc /\ pcs' = [pcs EXCEPT ![t] = c]
      BY <1>3, StepActs DEF Acts, Task, pcs
    <2> HIDE DEF c
    <2>2. CASE task[t].pc \notin PendWaiting /\ c \notin PendWaiting /\ UNCHANGED pendLock
      BY <1>1, <2>1, <2>2, PendFree DEF PendInv
    <2>3. CASE /\ task[t].pc \notin PendWaiting /\ c \in PendWaiting
               /\ pendLock' = Append(pendLock, <<t, c>>)
      BY <1>1, <2>1, <2>3, PendEnter DEF PendInv
    <2>4. CASE /\ pendLock # <<>> /\ Head(pendLock)[1] = t /\ c \notin PendWaiting
               /\ pendLock' = Tail(pendLock)
      BY <1>1, <2>1, <2>4, PendLeave DEF PendInv
    <2> QED
      BY <1>3, <2>2, <2>3, <2>4, PendMoves DEF PendMove, c
  <1>4. CASE Tick
    BY <1>2, <1>4, ClockStep
  <1> QED
    BY <1>2, <1>3, <1>4 DEF Next, vars, locks

\* The first of a mutex's queue can go on, or works under it and awaits no other
\* mutex.
LEMMA GoOn ==
  ASSUME BaseInv, PendInv
  PROVE  SomebodyGoesOn
  <1> SUFFICES ASSUME NEW t \in Tasks, task[t].pc \notin {"idle", "done"}
               PROVE  \E u \in Tasks : CanGoOn(u)
    BY DEF SomebodyGoesOn
  <1>1. task[t].pc \in PCs /\ LockOK(signLock, pcs) /\ PendOK(pendLock, pcs)
    BY DEF BaseInv, TypeOK, Task, LockInv, PendInv
  <1>2. ASSUME signLock # <<>>
        PROVE  /\ Head(signLock)[1] \in Tasks /\ Head(signLock)[2] \in Waiting
               /\ Head(signLock) = <<Head(signLock)[1], Head(signLock)[2]>>
               /\ \/ At(Head(signLock)[1], Head(signLock)[2])
                  \/ task[Head(signLock)[1]].pc \in Holding
    <2>1. signLock \in Seq(Tasks \X Waiting) /\ 1 \in DOMAIN signLock /\ Head(signLock) = signLock[1]
      BY <1>1, <1>2 DEF LockOK
    <2>2. signLock[1] \in Tasks \X Waiting
      BY <2>1
    <2> QED
      BY <1>1, <2>1, <2>2 DEF LockOK, pcs, At
  <1>3. ASSUME pendLock # <<>>
        PROVE  /\ Head(pendLock)[1] \in Tasks /\ Head(pendLock)[2] \in PendWaiting
               /\ Head(pendLock) = <<Head(pendLock)[1], Head(pendLock)[2]>>
               /\ At(Head(pendLock)[1], Head(pendLock)[2])
    <2>1. pendLock \in Seq(Tasks \X PendWaiting) /\ 1 \in DOMAIN pendLock
          /\ Head(pendLock) = pendLock[1]
      BY <1>1, <1>3 DEF PendOK
    <2>2. pendLock[1] \in Tasks \X PendWaiting
      BY <2>1
    <2> QED
      BY <1>1, <2>1, <2>2 DEF PendOK, pcs, At
  <1>4. CASE ~Quiet
    <2>1. CASE signLock # <<>> /\ At(Head(signLock)[1], Head(signLock)[2])
      BY <1>2, <2>1 DEF CanGoOn, Granted
    <2>2. CASE pendLock # <<>>
      BY <1>3, <2>2 DEF CanGoOn, Granted
    <2> QED
      BY <1>4, <2>1, <2>2 DEF Quiet
  <1>5. CASE Quiet
    <2>1. \A u \in Tasks : task[u].pc \in Holding => CanGoOn(u)
      BY <1>5 DEF CanGoOn, Holding
    <2>2. CASE task[t].pc \in Waiting
      <3>1. signLock # <<>>
        BY <1>1, <2>2 DEF LockOK, pcs
      <3>2. ~At(Head(signLock)[1], Head(signLock)[2])
        BY <1>5, <3>1 DEF Quiet
      <3> QED
        BY <1>2, <2>1, <3>1, <3>2
    <2>3. CASE task[t].pc \in PendWaiting
      <3>1. pendLock # <<>>
        BY <1>1, <2>3 DEF PendOK, pcs
      <3> QED
        BY <1>3, <1>5, <3>1 DEF Quiet
    <2>4. CASE task[t].pc \notin Waiting /\ task[t].pc \notin PendWaiting
      BY <1>1, <1>5, <2>4 DEF CanGoOn, PCs, Waiting, PendWaiting
    <2> QED
      BY <2>2, <2>3, <2>4
  <1> QED
    BY <1>4, <1>5

\* signAccessMutex and pendingAccessMutex: while a handler is under way, one of them
\* can go on, however many there are. No mutex is awaited by all, and none by its
\* holder.
THEOREM SomebodyGoesOnHolds == Spec => []SomebodyGoesOn
  <1>1. Init => PendInv
    <2> SUFFICES ASSUME Init PROVE PendInv
      OBVIOUS
    <2>1. pendLock = <<>> /\ \A t \in Tasks : task[t].pc = "idle"
      BY DEF Init, Idle
    <2> QED
      BY <2>1 DEF PendInv, PendOK, pcs, PendWaiting
  <1>2. BaseInv /\ PendInv /\ [Next]_vars => PendInv'
    BY PendNext
  <1>3. BaseInv /\ PendInv => SomebodyGoesOn
    BY GoOn
  <1> QED
    BY <1>1, <1>2, <1>3, BaseInvariant, PTL DEF Spec
=============================================================================
