------------------------- MODULE ServerEngineProofs -------------------------
(***************************************************************************)
(* The plain queues of the engine threads are one queue per key, for any   *)
(* number of keys, threads and workers.                                    *)
(***************************************************************************)
EXTENDS ServerEngine, FiniteSetTheorems, TLAPS

-----------------------------------------------------------------------------
(* Sequences.                                                              *)

\* A sequence is a function on the positions up to its length.
LEMMA SeqLen ==
  ASSUME NEW S, NEW s \in Seq(S)
  PROVE  /\ Len(s) \in Nat /\ DOMAIN s = 1..Len(s) /\ (s = <<>> <=> Len(s) = 0)
         /\ \A i \in 1..Len(s) : s[i] \in S
OBVIOUS

\* Append adds an element at the end.
LEMMA SeqAppend ==
  ASSUME NEW S, NEW s \in Seq(S), NEW x \in S
  PROVE  /\ Append(s, x) \in Seq(S) /\ Len(Append(s, x)) = Len(s) + 1
         /\ \A i \in 1..Len(s) : Append(s, x)[i] = s[i]
         /\ Append(s, x)[Len(s) + 1] = x
OBVIOUS

\* Tail moves every element one position forward.
LEMMA SeqTail ==
  ASSUME NEW S, NEW s \in Seq(S), s # <<>>
  PROVE  /\ Tail(s) \in Seq(S) /\ Len(Tail(s)) = Len(s) - 1
         /\ \A i \in 1..Len(Tail(s)) : Tail(s)[i] = s[i + 1]
OBVIOUS

-----------------------------------------------------------------------------
(* Sets of messages with distinct ids, in the order of their ids.          *)

Messages == [id : Nat, key : Keys, ops : Ops]

Distinct(W) == /\ W \subseteq Messages /\ IsFiniteSet(W)
               /\ \A m, n \in W : m.id = n.id => m = n
Before(W, m) == {n \in W : n.id < m.id}
Nth(W, i) == CHOOSE m \in W : Cardinality(Before(W, m)) = i - 1
OrderOf(W) == [i \in 1..Cardinality(W) |-> Nth(W, i).ops]

\* A set of numbers has a least one.
LEMMA LeastNat ==
  ASSUME NEW S, S \subseteq Nat, S # {}
  PROVE  \E x \in S : \A y \in S : x <= y
<1>1. PICK x \in S : \A y \in S : ~(<<y, x>> \in OpToRel(<, Nat))
  BY NatLessThanWellFounded, WFMin, Zenon
<1>2. \A y \in S : ~(y < x)
  BY <1>1, Zenon DEF OpToRel
<1>3. QED
  BY <1>2

\* A message with a smaller id comes earlier.
LEMMA BeforeGrows ==
  ASSUME NEW W, Distinct(W), NEW m \in W, NEW n \in W, m.id < n.id
  PROVE  /\ Cardinality(Before(W, m)) \in Nat /\ Cardinality(Before(W, n)) \in Nat
         /\ Cardinality(Before(W, m)) < Cardinality(Before(W, n))
<1>1. IsFiniteSet(W) /\ m.id \in Nat /\ n.id \in Nat /\ \A x \in W : x.id \in Nat
  BY Zenon DEF Distinct, Messages
<1>2. Before(W, m) \subseteq Before(W, n) /\ m \in Before(W, n) /\ m \notin Before(W, m)
  BY <1>1 DEF Before
<1>3. Before(W, n) \subseteq W
  BY Zenon DEF Before
<1>4. IsFiniteSet(Before(W, n))
  BY <1>1, <1>3, FS_Subset, Zenon
<1>5. Cardinality(Before(W, n)) \in Nat
  BY <1>4, FS_CardinalityType, Zenon
<1>6. /\ IsFiniteSet(Before(W, m)) /\ Cardinality(Before(W, m)) <= Cardinality(Before(W, n))
      /\ Cardinality(Before(W, m)) # Cardinality(Before(W, n))
  BY <1>2, <1>4, FS_Subset, Zenon
<1>7. Cardinality(Before(W, m)) \in Nat
  BY <1>6, FS_CardinalityType, Zenon
<1>8. QED
  BY <1>5, <1>6, <1>7

\* A message is the one of its rank, and no other is.
LEMMA NthIs ==
  ASSUME NEW W, Distinct(W), NEW m \in W, NEW i \in Nat, Cardinality(Before(W, m)) = i - 1
  PROVE  Nth(W, i) = m
<1>1. ASSUME NEW n \in W, Cardinality(Before(W, n)) = i - 1 PROVE n = m
  <2>1. m.id \in Nat /\ n.id \in Nat
    BY Zenon DEF Distinct, Messages
  <2>2. ~(m.id < n.id) /\ ~(n.id < m.id)
    BY <1>1, BeforeGrows
  <2>3. m.id = n.id
    BY <2>1, <2>2
  <2>4. QED
    BY <2>3, Zenon DEF Distinct
<1>2. QED
  BY <1>1, Zenon DEF Nth

\* Every rank up to the size of the set is taken.
LEMMA RankTaken ==
  ASSUME NEW W, Distinct(W), NEW i \in 1..Cardinality(W)
  PROVE  \E m \in W : Cardinality(Before(W, m)) = i - 1
<1> DEFINE c == Cardinality(W)
           T == 0..(c - 1)
           f == [m \in W |-> Cardinality(Before(W, m))]
<1>1. IsFiniteSet(W) /\ c \in Nat
  BY FS_CardinalityType, Zenon DEF Distinct
<1>2. ASSUME NEW m \in W PROVE f[m] \in T
  <2>1. Before(W, m) \subseteq W \ {m}
    <3>1. m.id \in Nat
      BY Zenon DEF Distinct, Messages
    <3>2. QED
      BY <3>1 DEF Before
  <2>2. IsFiniteSet(W \ {m}) /\ Cardinality(W \ {m}) = c - 1
    BY <1>1, FS_RemoveElement, Zenon
  <2>3. IsFiniteSet(Before(W, m)) /\ Cardinality(Before(W, m)) <= c - 1
    BY <2>1, <2>2, FS_Subset
  <2>4. Cardinality(Before(W, m)) \in Nat
    BY <2>3, FS_CardinalityType, Zenon
  <2>5. QED
    BY <2>3, <2>4, <1>1
<1>3. f \in [W -> T]
  BY <1>2, Zenon
<1>4. \A m, n \in W : f[m] = f[n] => m = n
  <2> SUFFICES ASSUME NEW m \in W, NEW n \in W, f[m] = f[n] PROVE m = n
    BY Zenon
  <2>1. Cardinality(Before(W, m)) = Cardinality(Before(W, n))
    BY Zenon
  <2>2. m.id \in Nat /\ n.id \in Nat
    BY Zenon DEF Distinct, Messages
  <2>3. ~(m.id < n.id) /\ ~(n.id < m.id)
    BY <2>1, BeforeGrows
  <2>4. m.id = n.id
    BY <2>2, <2>3
  <2>5. QED
    BY <2>4, Zenon DEF Distinct
<1>5. f \in Injection(W, T)
  BY <1>3, <1>4, Zenon DEF Injection, IsInjective
<1>6. IsFiniteSet(T) /\ Cardinality(T) = c
  <2>1. 0 \in Int /\ c - 1 \in Int
    BY <1>1
  <2>2. IsFiniteSet(T) /\ Cardinality(T) = IF 0 > c - 1 THEN 0 ELSE (c - 1) - 0 + 1
    BY <2>1, FS_Interval, Zenon
  <2>3. QED
    BY <2>2, <1>1
<1>7. f \in Surjection(W, T)
  BY <1>5, <1>6, FS_Injection, Zenon
<1>8. i - 1 \in T
  BY <1>1
<1>9. QED
  BY <1>7, <1>8, Zenon DEF Surjection

\* The message of a rank has that rank.
LEMMA NthHas ==
  ASSUME NEW W, Distinct(W), NEW i \in 1..Cardinality(W)
  PROVE  Nth(W, i) \in W /\ Cardinality(Before(W, Nth(W, i))) = i - 1
BY RankTaken, Zenon DEF Nth

\* A message with the largest id goes to the end of the order.
LEMMA AddLast ==
  ASSUME NEW W, Distinct(W), NEW m \in Messages, \A n \in W : n.id < m.id
  PROVE  Distinct(W \cup {m}) /\ OrderOf(W \cup {m}) = Append(OrderOf(W), m.ops)
<1> DEFINE V == W \cup {m}
           c == Cardinality(W)
<1>1. /\ IsFiniteSet(W) /\ W \subseteq Messages /\ m.id \in Nat
      /\ \A n \in W : n.id \in Nat /\ n.id # m.id
  BY DEF Distinct, Messages
<1>2. m \notin W
  BY <1>1, Zenon
<1>3. IsFiniteSet(V) /\ Cardinality(V) = c + 1 /\ c \in Nat
  BY <1>1, <1>2, FS_AddElement, FS_CardinalityType, Zenon
<1>4. Distinct(V)
  <2>1. V \subseteq Messages
    BY <1>1, Zenon
  <2>2. \A n, o \in V : n.id = o.id => n = o
    BY <1>1, Zenon DEF Distinct
  <2>3. QED
    BY <1>3, <2>1, <2>2, Zenon DEF Distinct
<1>5. Before(V, m) = W
  BY <1>1 DEF Before
<1>6. ASSUME NEW n \in W PROVE Before(V, n) = Before(W, n)
  BY <1>1 DEF Before
<1>7. Nth(V, c + 1) = m
  <2>1. Cardinality(Before(V, m)) = (c + 1) - 1 /\ c + 1 \in Nat
    BY <1>3, <1>5
  <2>2. QED
    BY <1>4, <2>1, NthIs, Zenon
<1>8. ASSUME NEW i \in 1..c PROVE Nth(V, i) = Nth(W, i)
  <2>1. PICK n \in W : n = Nth(W, i) /\ Cardinality(Before(W, n)) = i - 1
    BY NthHas, Zenon
  <2>2. Cardinality(Before(V, n)) = i - 1 /\ n \in V
    BY <1>6, <2>1, Zenon
  <2>3. i \in Nat
    BY <1>3
  <2>4. Nth(V, i) = n
    BY <1>4, <2>2, <2>3, NthIs, Zenon
  <2>5. QED
    BY <2>1, <2>4, Zenon
<1>9. OrderOf(V) = [i \in 1..(c + 1) |-> Nth(V, i).ops]
  BY <1>3, Zenon DEF OrderOf
<1>10. OrderOf(W) \in Seq({Nth(W, i).ops : i \in 1..c}) /\ Len(OrderOf(W)) = c
  BY <1>3 DEF OrderOf
<1>11. Append(OrderOf(W), m.ops) = [i \in 1..(c + 1) |-> IF i = c + 1 THEN m.ops ELSE OrderOf(W)[i]]
  BY <1>3, <1>10
<1>12. ASSUME NEW i \in 1..(c + 1)
       PROVE  Nth(V, i).ops = IF i = c + 1 THEN m.ops ELSE OrderOf(W)[i]
  <2>1. CASE i = c + 1
    BY <1>7, <2>1, Zenon
  <2>2. CASE i # c + 1
    <3>1. i \in 1..c
      BY <1>3, <2>2
    <3>2. OrderOf(W)[i] = Nth(W, i).ops
      BY <3>1, Zenon DEF OrderOf
    <3>3. QED
      BY <1>8, <2>2, <3>1, <3>2, Zenon
  <2>3. QED
    BY <2>1, <2>2, Zenon
<1>13. QED
  BY <1>4, <1>9, <1>11, <1>12, Zenon

\* The message with the smallest id is at the head of the order.
LEMMA TakeFirst ==
  ASSUME NEW W, Distinct(W), NEW m \in W, \A n \in W : n # m => m.id < n.id
  PROVE  /\ Distinct(W \ {m}) /\ OrderOf(W) # <<>>
         /\ Head(OrderOf(W)) = m.ops
         /\ OrderOf(W \ {m}) = Tail(OrderOf(W))
<1> DEFINE V == W \ {m}
           c == Cardinality(W)
<1>1. /\ IsFiniteSet(W) /\ W \subseteq Messages /\ m.id \in Nat
      /\ \A n \in W : n.id \in Nat
  BY Zenon DEF Distinct, Messages
<1>2. IsFiniteSet(V) /\ Cardinality(V) = c - 1 /\ c \in Nat /\ Cardinality(V) \in Nat
  BY <1>1, FS_RemoveElement, FS_CardinalityType, ZenonT(60)
<1>3. Distinct(V)
  BY <1>2, Zenon DEF Distinct
<1>4. Before(W, m) = {}
  BY <1>1 DEF Before
<1>5. Nth(W, 1) = m
  <2>1. Cardinality(Before(W, m)) = 1 - 1
    BY <1>4, FS_EmptySet
  <2>2. QED
    BY <2>1, NthIs, Zenon
<1>6. ASSUME NEW i \in 1..(c - 1) PROVE Nth(V, i) = Nth(W, i + 1)
  <2>1. i \in 1..Cardinality(V) /\ i + 1 \in Nat /\ i \in Nat
    BY <1>2
  <2>2. PICK n \in V : n = Nth(V, i) /\ Cardinality(Before(V, n)) = i - 1
    BY <1>3, <2>1, NthHas, Zenon
  <2>3. Before(W, n) = Before(V, n) \cup {m} /\ m \notin Before(V, n)
    <3>1. n \in W /\ n # m /\ m.id < n.id
      BY <2>2, Zenon
    <3>2. \A o : o \in Before(W, n) <=> o \in Before(V, n) \cup {m}
      BY <3>1, Zenon DEF Before
    <3>3. QED
      BY <3>2, Zenon DEF Before
  <2>4. Before(V, n) \subseteq V
    BY Zenon DEF Before
  <2>5. IsFiniteSet(Before(V, n))
    BY <1>2, <2>4, FS_Subset, Zenon
  <2>6. Cardinality(Before(W, n)) = (i - 1) + 1
    <3>1. Cardinality(Before(V, n) \cup {m}) = Cardinality(Before(V, n)) + 1
      BY <2>3, <2>5, FS_AddElement, Zenon
    <3>2. QED
      BY <2>2, <2>3, <3>1, Zenon
  <2>7. Cardinality(Before(W, n)) = (i + 1) - 1
    BY <2>1, <2>6
  <2>8. Nth(W, i + 1) = n
    BY <2>1, <2>2, <2>7, NthIs, Zenon
  <2>9. QED
    BY <2>2, <2>8, Zenon
<1>7. c >= 1
  BY <1>2
<1>8. /\ OrderOf(W) \in Seq({Nth(W, i).ops : i \in 1..c}) /\ Len(OrderOf(W)) = c
      /\ \A i \in 1..c : OrderOf(W)[i] = Nth(W, i).ops
  BY <1>2 DEF OrderOf
<1>9. OrderOf(W) # <<>> /\ Head(OrderOf(W)) = OrderOf(W)[1]
  BY <1>7, <1>8
<1>10. Head(OrderOf(W)) = m.ops
  <2>1. 1 \in 1..c
    BY <1>2, <1>7
  <2>2. OrderOf(W)[1] = Nth(W, 1).ops
    BY <1>8, <2>1, Zenon
  <2>3. QED
    BY <1>5, <1>9, <2>2, Zenon
<1>11. Tail(OrderOf(W)) = [i \in 1..(c - 1) |-> OrderOf(W)[i + 1]]
  <2>1. ASSUME NEW T, NEW s \in Seq(T), s # <<>>
        PROVE  Tail(s) = [i \in 1..(Len(s) - 1) |-> s[i + 1]]
    <3>1. /\ Tail(s) \in Seq(T) /\ Len(Tail(s)) = Len(s) - 1
          /\ \A i \in 1..Len(Tail(s)) : Tail(s)[i] = s[i + 1]
      BY <2>1, SeqTail, Zenon
    <3>2. \A u \in Seq(T) : u = [i \in 1..Len(u) |-> u[i]]
      OBVIOUS
    <3>3. QED
      BY <3>1, <3>2, Zenon
  <2>2. QED
    BY <1>8, <1>9, <2>1, Zenon
<1>12. OrderOf(V) = [i \in 1..(c - 1) |-> Nth(V, i).ops]
  BY <1>2, Zenon DEF OrderOf
<1>13. ASSUME NEW i \in 1..(c - 1) PROVE Nth(V, i).ops = OrderOf(W)[i + 1]
  <2>1. i + 1 \in 1..c
    BY <1>2
  <2>2. QED
    BY <1>6, <1>8, <2>1, Zenon
<1>14. OrderOf(W \ {m}) = Tail(OrderOf(W))
  BY <1>11, <1>12, <1>13, Zenon
<1>15. QED
  BY <1>3, <1>9, <1>10, <1>14, ZenonT(60)
-----------------------------------------------------------------------------

-----------------------------------------------------------------------------
(* The invariant.  A key keeps its thread, so its messages are all in one  *)
(* queue, oldest first.                                                    *)

Handlers == [todo : {"request", "ALL_RECV", "ClearCounter"}, key : Keys \cup {-1}]

TypeOK ==
  /\ timestamp_ \in Nat
  /\ hash_cache \in [Keys -> Threads \cup {-1}]
  /\ acc_load \in [Threads -> Nat]
  /\ queue \in [Threads -> Seq(Messages)]
  /\ executing \in [Threads -> Messages \cup {NoMessage}]
  /\ handler \in Handlers
  /\ handler.todo # "request" => handler.key \in Keys /\ hash_cache[handler.key] \in Threads

Placed == \A t \in Threads : \A i \in 1..Len(queue[t]) :
            hash_cache[queue[t][i].key] = t /\ queue[t][i].id < timestamp_
Sorted == \A t \in Threads : \A i, j \in 1..Len(queue[t]) :
            i < j => queue[t][i].id < queue[t][j].id
Worked == \A t \in Threads : executing[t] # NoMessage => hash_cache[executing[t].key] = t

Inv == TypeOK /\ Placed /\ Sorted /\ Worked

\* Some thread is the least loaded one, and the first of those.
LEMMA LeastLoaded ==
  ASSUME TypeOK
  PROVE  \E t \in Threads : /\ \A u \in Threads : acc_load[t] <= acc_load[u]
                            /\ \A u \in 0..(t - 1) : acc_load[t] < acc_load[u]
<1>1. ThreadNum \in Nat \ {0}
  BY EngineAssumption, Zenon
<1>2. Threads \subseteq Nat /\ 0 \in Threads /\ \A t \in Threads : 0..(t - 1) \subseteq Threads
  BY <1>1 DEF Threads
<1>3. \A t \in Threads : acc_load[t] \in Nat
  BY Zenon DEF TypeOK
<1> DEFINE Loads == {acc_load[t] : t \in Threads}
<1>4. Loads \subseteq Nat /\ Loads # {}
  BY <1>2, <1>3, Zenon
<1>5. \E x \in Loads : \A y \in Loads : x <= y
  BY <1>4, LeastNat, Zenon
<1>6. PICK x \in Loads : \A y \in Loads : x <= y
  BY <1>5, Zenon
<1> DEFINE First == {t \in Threads : acc_load[t] = x}
<1>7. First \subseteq Nat /\ First # {}
  BY <1>2, Zenon
<1>8. \E t \in First : \A u \in First : t <= u
  BY <1>7, LeastNat, Zenon
<1>9. PICK t \in First : \A u \in First : t <= u
  BY <1>8, Zenon
<1>10. t \in Threads /\ acc_load[t] = x
  BY <1>9, Zenon
<1>11. \A u \in Threads : acc_load[t] <= acc_load[u]
  BY <1>6, <1>10, Zenon
<1>12. ASSUME NEW u \in 0..(t - 1) PROVE acc_load[t] < acc_load[u]
  <2>1. u \in Threads /\ ~(t <= u)
    BY <1>2, <1>10
  <2>2. u \notin First
    BY <1>9, <2>1, Zenon
  <2>3. acc_load[u] # acc_load[t]
    BY <1>10, <2>1, <2>2, Zenon
  <2>4. QED
    BY <1>3, <1>10, <1>11, <2>1, <2>3
<1>13. QED
  BY <1>10, <1>11, <1>12, Zenon

\* GetThreadID returns a thread.
LEMMA ThreadIDType ==
  ASSUME TypeOK, NEW k \in Keys
  PROVE  GetThreadID(k) \in Threads /\ (hash_cache[k] # -1 => GetThreadID(k) = hash_cache[k])
<1>1. hash_cache[k] \in Threads \cup {-1}
  BY Zenon DEF TypeOK
<1>2. CASE hash_cache[k] # -1
  BY <1>1, <1>2, Zenon DEF GetThreadID
<1>3. CASE hash_cache[k] = -1
  <2>1. GetThreadID(k) = CHOOSE t \in Threads :
                           /\ \A u \in Threads : acc_load[t] <= acc_load[u]
                           /\ \A u \in 0..(t - 1) : acc_load[t] < acc_load[u]
    BY <1>3, Zenon DEF GetThreadID
  <2>2. GetThreadID(k) \in Threads
    BY <2>1, LeastLoaded, Zenon
  <2>3. QED
    BY <1>3, <2>2, Zenon
<1>4. QED
  BY <1>2, <1>3, Zenon

-----------------------------------------------------------------------------
(* The messages of a key in the queues q.                                  *)

Held(q, k) == {m \in UNION {Range(q[t]) : t \in Threads} : m.key = k}
In(q, t, m) == \E i \in 1..Len(q[t]) : q[t][i] = m

\* What a queue holds of a key, by position.
LEMMA HeldIs ==
  ASSUME NEW q \in [Threads -> Seq(Messages)], NEW k, NEW m
  PROVE  m \in Held(q, k)
           <=> m.key = k /\ \E t \in Threads : In(q, t, m)
<1>1. ASSUME NEW t \in Threads PROVE m \in Range(q[t]) <=> In(q, t, m)
  <2>1. q[t] \in Seq(Messages)
    BY Zenon
  <2>2. DOMAIN q[t] = 1..Len(q[t])
    BY <2>1, SeqLen, Zenon
  <2>3. QED
    BY <2>2, Zenon DEF Range, In
<1>2. m \in Held(q, k) <=> m.key = k /\ \E t \in Threads : m \in Range(q[t])
  BY Zenon DEF Held
<1>3. QED
  BY <1>1, <1>2, Zenon

Appended(q, u, x, r) == r = [q EXCEPT ![u] = Append(@, x)]
Beheaded(q, u, r) == r = [q EXCEPT ![u] = Tail(@)]

\* Push adds its message.
LEMMA HeldAppend ==
  ASSUME NEW q \in [Threads -> Seq(Messages)], NEW u \in Threads, NEW x \in Messages, NEW k,
         NEW r, Appended(q, u, x, r)
  PROVE  /\ r \in [Threads -> Seq(Messages)]
         /\ x.key = k => Held(r, k) = Held(q, k) \cup {x}
         /\ x.key # k => Held(r, k) = Held(q, k)
<1>1. q[u] \in Seq(Messages) /\ Len(q[u]) \in Nat
  BY SeqLen, Zenon
<1>2. /\ Append(q[u], x) \in Seq(Messages) /\ Len(Append(q[u], x)) = Len(q[u]) + 1
      /\ \A i \in 1..Len(q[u]) : Append(q[u], x)[i] = q[u][i]
      /\ Append(q[u], x)[Len(q[u]) + 1] = x
  <2>1. ASSUME NEW s \in Seq(Messages)
        PROVE  /\ Append(s, x) \in Seq(Messages) /\ Len(Append(s, x)) = Len(s) + 1
               /\ \A i \in 1..Len(s) : Append(s, x)[i] = s[i]
               /\ Append(s, x)[Len(s) + 1] = x
    BY SeqAppend
  <2>2. QED
    BY <1>1, <2>1, Zenon
<1>3. r \in [Threads -> Seq(Messages)] /\ r[u] = Append(q[u], x)
      /\ \A t \in Threads : t # u => r[t] = q[t]
  BY <1>2, Zenon DEF Appended
<1>4. ASSUME NEW m
      PROVE In(r, u, m) <=> m = x \/ In(q, u, m)
  <2>1. \A i : i \in 1..Len(r[u]) <=> i \in 1..Len(q[u]) \/ i = Len(q[u]) + 1
    BY <1>1, <1>2, <1>3
  <2>2. QED
    BY <1>2, <1>3, <2>1, Zenon DEF In
<1>5. ASSUME NEW m PROVE m \in Held(r, k) <=> m \in Held(q, k) \/ (x.key = k /\ m = x)
  <2>1. \A t \in Threads : t # u => (In(r, t, m) <=> In(q, t, m))
    BY <1>3, Zenon DEF In
  <2>2. (\E t \in Threads : In(r, t, m)) <=> m = x \/ \E t \in Threads : In(q, t, m)
    BY <1>4, <2>1, Zenon
  <2>3. m \in Held(r, k) <=> m.key = k /\ \E t \in Threads : In(r, t, m)
    <3>1. r \in [Threads -> Seq(Messages)]
      BY <1>3, Zenon
    <3>2. QED
      BY <3>1, HeldIs, Zenon
  <2>4. m \in Held(q, k) <=> m.key = k /\ \E t \in Threads : In(q, t, m)
    BY HeldIs, Zenon
  <2>5. QED
    BY <2>2, <2>3, <2>4, Zenon
<1>6. /\ x.key = k => Held(r, k) = Held(q, k) \cup {x}
      /\ x.key # k => Held(r, k) = Held(q, k)
  BY <1>5, Zenon
<1>7. QED
  BY <1>3, <1>6, Zenon

\* WaitAndPop removes its message.
LEMMA HeldTail ==
  ASSUME NEW q \in [Threads -> Seq(Messages)], NEW u \in Threads, q[u] # <<>>, NEW k,
         NEW r, Beheaded(q, u, r),
         \A t \in Threads : \A i \in 1..Len(q[t]) : q[t][i] = Head(q[u]) => t = u /\ i = 1
  PROVE  /\ r \in [Threads -> Seq(Messages)]
         /\ Held(r, k) = Held(q, k) \ {Head(q[u])}
<1>1. q[u] \in Seq(Messages) /\ Len(q[u]) \in Nat /\ Len(q[u]) # 0
  <2>1. q[u] \in Seq(Messages)
    BY Zenon
  <2>2. QED
    BY <2>1, SeqLen
<1>2. /\ Tail(q[u]) \in Seq(Messages) /\ Len(Tail(q[u])) = Len(q[u]) - 1
      /\ \A i \in 1..Len(Tail(q[u])) : Tail(q[u])[i] = q[u][i + 1]
  BY <1>1, SeqTail, Zenon
<1>3. r \in [Threads -> Seq(Messages)] /\ r[u] = Tail(q[u])
      /\ \A t \in Threads : t # u => r[t] = q[t]
  BY <1>2, Zenon DEF Beheaded
<1>4. Head(q[u]) = q[u][1]
  BY <1>1
<1>5. ASSUME NEW m
      PROVE In(r, u, m) <=> m # Head(q[u]) /\ In(q, u, m)
  <2>1. \A i \in 1..Len(r[u]) : i + 1 \in 1..Len(q[u]) /\ i + 1 # 1 /\ r[u][i] = q[u][i + 1]
    BY <1>1, <1>2, <1>3
  <2>2. \A i \in 1..Len(q[u]) : i # 1 => i - 1 \in 1..Len(r[u]) /\ (i - 1) + 1 = i
    BY <1>1, <1>2, <1>3
  <2>3. ASSUME NEW i \in 1..Len(r[u]), r[u][i] = m
        PROVE  m # Head(q[u]) /\ \E j \in 1..Len(q[u]) : q[u][j] = m
    BY <2>1, <2>3, Zenon
  <2>4. ASSUME NEW i \in 1..Len(q[u]), q[u][i] = m, m # Head(q[u])
        PROVE  \E j \in 1..Len(r[u]) : r[u][j] = m
    <3>1. i # 1
      BY <1>4, <2>4, Zenon
    <3>2. i - 1 \in 1..Len(r[u]) /\ (i - 1) + 1 = i
      BY <2>2, <3>1, Zenon
    <3>3. r[u][i - 1] = q[u][(i - 1) + 1]
      BY <2>1, <3>2, Zenon
    <3>4. r[u][i - 1] = m
      BY <2>4, <3>2, <3>3, Zenon
    <3>5. QED
      BY <3>2, <3>4, Zenon
  <2>5. QED
    BY <2>3, <2>4, Zenon DEF In
<1>6. ASSUME NEW m PROVE m \in Held(r, k) <=> m \in Held(q, k) /\ m # Head(q[u])
  <2>1. ASSUME NEW t \in Threads, t # u
        PROVE  In(r, t, m) <=> m # Head(q[u]) /\ In(q, t, m)
    BY <1>3, <2>1, Zenon DEF In
  <2>2. (\E t \in Threads : In(r, t, m))
          <=> m # Head(q[u]) /\ \E t \in Threads : In(q, t, m)
    BY <1>5, <2>1, Zenon
  <2>3. m \in Held(r, k) <=> m.key = k /\ \E t \in Threads : In(r, t, m)
    <3>1. r \in [Threads -> Seq(Messages)]
      BY <1>3, Zenon
    <3>2. QED
      BY <3>1, HeldIs, Zenon
  <2>4. m \in Held(q, k) <=> m.key = k /\ \E t \in Threads : In(q, t, m)
    BY HeldIs, Zenon
  <2>5. QED
    BY <2>2, <2>3, <2>4, Zenon
<1>7. Held(r, k) = Held(q, k) \ {Head(q[u])}
  BY <1>6, Zenon
<1>8. QED
  BY <1>3, <1>7, Zenon

\* Threads are numbered from 0, so -1 stands for none of them.
LEMMA ThreadsAreNat == Threads \subseteq Nat /\ -1 \notin Threads /\ -1 \notin Keys
<1>1. ThreadNum \in Nat /\ Keys \subseteq Nat
  BY EngineAssumption, Zenon
<1>2. QED
  BY <1>1 DEF Threads

\* A queue holds finitely many messages.
LEMMA RangeFinite ==
  ASSUME NEW S, NEW s \in Seq(S)
  PROVE  IsFiniteSet(Range(s))
<1>1. Len(s) \in Nat /\ DOMAIN s = 1..Len(s)
  BY SeqLen, Zenon
<1>2. 1 \in Int /\ Len(s) \in Int
  BY <1>1
<1>3. IsFiniteSet(1..Len(s))
  BY <1>2, FS_Interval, Zenon
<1>4. s \in [1..Len(s) -> Range(s)]
  BY <1>1 DEF Range
<1>5. s \in Surjection(1..Len(s), Range(s))
  BY <1>1, <1>4, Zenon DEF Surjection, Range
<1>6. QED
  BY <1>3, <1>5, FS_Surjection, Zenon

\* What waits for a key is in the queue of its thread, under distinct ids.
LEMMA WaitingDistinct ==
  ASSUME Inv, NEW k \in Keys
  PROVE  Distinct(Waiting(k)) /\ \A m \in Waiting(k) : m.id < timestamp_
<1>1. queue \in [Threads -> Seq(Messages)] /\ Waiting(k) = Held(queue, k)
  BY Zenon DEF Inv, TypeOK, Waiting, Held
<1>2. ASSUME NEW m \in Waiting(k)
      PROVE  /\ hash_cache[k] \in Threads /\ m.id < timestamp_
             /\ In(queue, hash_cache[k], m) /\ m \in Messages
  <2>1. m.key = k /\ \E t \in Threads : In(queue, t, m)
    BY <1>1, <1>2, HeldIs, Zenon
  <2>2. PICK t \in Threads : In(queue, t, m)
    BY <2>1, Zenon
  <2>3. PICK i \in 1..Len(queue[t]) : queue[t][i] = m
    BY <2>2, Zenon DEF In
  <2>4. hash_cache[k] = t /\ m.id < timestamp_
    BY <2>1, <2>3, Zenon DEF Inv, Placed
  <2>5. queue[t] \in Seq(Messages)
    BY <1>1, Zenon
  <2>6. m \in Messages
    BY <2>3, <2>5, SeqLen, Zenon
  <2>7. QED
    BY <2>2, <2>4, <2>6, Zenon
<1>3. ASSUME NEW m \in Waiting(k), NEW n \in Waiting(k), m.id = n.id PROVE m = n
  <2>1. PICK t \in Threads : t = hash_cache[k]
    BY <1>2, Zenon
  <2>2. PICK i \in 1..Len(queue[t]) : queue[t][i] = m
    BY <1>2, <2>1, Zenon DEF In
  <2>3. PICK j \in 1..Len(queue[t]) : queue[t][j] = n
    BY <1>2, <2>1, Zenon DEF In
  <2>4. (i < j => m.id < n.id) /\ (j < i => n.id < m.id)
    BY <2>2, <2>3, Zenon DEF Inv, Sorted
  <2>5. m.id \in Nat
    BY <1>2, Zenon DEF Messages
  <2>6. queue[t] \in Seq(Messages)
    BY <1>1, Zenon
  <2>7. Len(queue[t]) \in Nat
    BY <2>6, SeqLen, Zenon
  <2>8. i = j
    BY <1>3, <2>4, <2>5, <2>7
  <2>9. QED
    BY <2>2, <2>3, <2>8, Zenon
<1>4. IsFiniteSet(Waiting(k))
  <2>1. CASE Waiting(k) = {}
    BY <2>1, FS_EmptySet, Zenon
  <2>2. CASE Waiting(k) # {}
    <3>1. PICK t \in Threads : t = hash_cache[k]
      BY <1>2, <2>2, Zenon
    <3>2. queue[t] \in Seq(Messages)
      BY <1>1, Zenon
    <3>3. DOMAIN queue[t] = 1..Len(queue[t])
      BY <3>2, SeqLen, Zenon
    <3>4. Waiting(k) \subseteq Range(queue[t])
      BY <1>2, <3>1, <3>3, Zenon DEF In, Range
    <3>5. IsFiniteSet(Range(queue[t]))
      BY <3>2, RangeFinite, Zenon
    <3>6. QED
      BY <3>4, <3>5, FS_Subset, Zenon
  <2>3. QED
    BY <2>1, <2>2, Zenon
<1>5. QED
  BY <1>2, <1>3, <1>4, Zenon DEF Distinct

\* One thread works on a key.
LEMMA WorkingOnIs ==
  ASSUME Inv, NEW k \in Keys
  PROVE  WorkingOn(k) = {} \/ \E t \in Threads : WorkingOn(k) = {t} /\ t = hash_cache[k]
<1>1. ASSUME NEW t \in WorkingOn(k) PROVE t \in Threads /\ t = hash_cache[k]
  <2>1. t \in Threads /\ executing[t].key = k
    BY <1>1, Zenon DEF WorkingOn
  <2>2. NoMessage.key \notin Keys
    BY ThreadsAreNat, Zenon DEF NoMessage
  <2>3. executing[t] # NoMessage
    BY <2>1, <2>2, Zenon
  <2>4. QED
    BY <2>1, <2>3, Zenon DEF Inv, Worked
<1>2. QED
  BY <1>1, Zenon

\* The engine threads never work on one key together.
LEMMA OneThread ==
  ASSUME Inv
  PROVE  OneThreadPerKey
<1> SUFFICES ASSUME NEW k \in Keys PROVE Cardinality(WorkingOn(k)) <= 1
  BY Zenon DEF OneThreadPerKey
<1>1. CASE WorkingOn(k) = {}
  <2>1. Cardinality({}) = 0
    BY FS_EmptySet, Zenon
  <2>2. QED
    BY <1>1, <2>1
<1>2. CASE \E t \in Threads : WorkingOn(k) = {t}
  <2>1. PICK t \in Threads : WorkingOn(k) = {t}
    BY <1>2, Zenon
  <2>2. Cardinality({t}) = 1
    BY FS_Singleton, Zenon
  <2>3. QED
    BY <2>1, <2>2
<1>3. QED
  BY <1>1, <1>2, WorkingOnIs, Zenon

-----------------------------------------------------------------------------
(* The steps, with the plain queues (BYTEPS_SERVER_ENABLE_SCHEDULE unset).  *)

\* A key without a thread gets t, and a message at the end of t's queue.
Pushes(t, k, x) ==
  /\ hash_cache[k] \in {-1, t} /\ hash_cache' = [hash_cache EXCEPT ![k] = t]
  /\ x.id = timestamp_ /\ x.key = k /\ timestamp_' = timestamp_ + 1
  /\ queue' = [queue EXCEPT ![t] = Append(@, x)]
  /\ executing' = executing

\* Such a push keeps the queues sorted and each key at its thread.
LEMMA PushesKeeps ==
  ASSUME Inv, NEW t \in Threads, NEW k \in Keys, NEW x \in Messages, Pushes(t, k, x)
  PROVE  /\ timestamp_' \in Nat /\ hash_cache' \in [Keys -> Threads \cup {-1}]
         /\ queue' \in [Threads -> Seq(Messages)]
         /\ executing' \in [Threads -> Messages \cup {NoMessage}]
         /\ Placed' /\ Sorted' /\ Worked'
<1>1. TypeOK /\ Placed /\ Sorted /\ Worked /\ Threads \subseteq Nat
  BY ThreadsAreNat, Zenon DEF Inv
<1>2. timestamp_ \in Nat /\ timestamp_' \in Nat /\ timestamp_' = timestamp_ + 1
  BY <1>1 DEF TypeOK, Pushes
<1>3. /\ hash_cache' \in [Keys -> Threads \cup {-1}] /\ hash_cache'[k] = t
      /\ \A j \in Keys : hash_cache[j] \in Threads => hash_cache'[j] = hash_cache[j]
  <2>1. hash_cache \in [Keys -> Threads \cup {-1}] /\ -1 \notin Threads
    BY <1>1, ThreadsAreNat, Zenon DEF TypeOK
  <2>2. QED
    BY <2>1, Zenon DEF Pushes
<1>4. queue \in [Threads -> Seq(Messages)] /\ queue[t] \in Seq(Messages)
  BY <1>1, Zenon DEF TypeOK
<1>5. queue' \in [Threads -> Seq(Messages)]
  <2>1. Appended(queue, t, x, queue')
    BY Zenon DEF Pushes, Appended
  <2>2. QED
    BY <1>4, <2>1, HeldAppend, Zenon
<1>6. /\ queue'[t] = Append(queue[t], x) /\ Len(queue[t]) \in Nat
      /\ Len(queue'[t]) = Len(queue[t]) + 1
      /\ \A i \in 1..Len(queue[t]) : queue'[t][i] = queue[t][i]
      /\ queue'[t][Len(queue[t]) + 1] = x
  <2>1. queue'[t] = Append(queue[t], x)
    BY <1>4, Zenon DEF Pushes
  <2>2. ASSUME NEW s \in Seq(Messages)
        PROVE  /\ Len(s) \in Nat /\ Len(Append(s, x)) = Len(s) + 1
               /\ \A i \in 1..Len(s) : Append(s, x)[i] = s[i]
               /\ Append(s, x)[Len(s) + 1] = x
    BY SeqAppend, SeqLen
  <2>3. QED
    BY <1>4, <2>1, <2>2, Zenon
<1>7. \A u \in Threads : u # t => queue'[u] = queue[u]
  BY <1>4, Zenon DEF Pushes
<1>8. \A u \in Threads : \A i \in 1..Len(queue[u]) :
        /\ queue[u][i].key \in Keys /\ queue[u][i].id \in Nat
        /\ hash_cache[queue[u][i].key] = u /\ queue[u][i].id < timestamp_
  <2> SUFFICES ASSUME NEW u \in Threads, NEW i \in 1..Len(queue[u])
               PROVE  /\ queue[u][i].key \in Keys /\ queue[u][i].id \in Nat
                      /\ hash_cache[queue[u][i].key] = u /\ queue[u][i].id < timestamp_
    BY Zenon
  <2>1. queue[u] \in Seq(Messages)
    BY <1>4, Zenon
  <2>2. queue[u][i] \in Messages
    BY <2>1, SeqLen, Zenon
  <2>3. queue[u][i].key \in Keys /\ queue[u][i].id \in Nat
    BY <2>2, Zenon DEF Messages
  <2>4. QED
    BY <1>1, <2>3, Zenon DEF Placed
<1>9. \A u \in Threads : \A i \in 1..Len(queue'[u]) :
        \/ i \in 1..Len(queue[u]) /\ queue'[u][i] = queue[u][i]
        \/ u = t /\ i = Len(queue[t]) + 1 /\ queue'[u][i] = x
  <2>1. \A i \in 1..Len(queue'[t]) : i \in 1..Len(queue[t]) \/ i = Len(queue[t]) + 1
    BY <1>6
  <2>2. QED
    BY <1>6, <1>7, <2>1, Zenon
<1>10. Placed'
  <2> SUFFICES ASSUME NEW u \in Threads, NEW i \in 1..Len(queue'[u])
               PROVE  hash_cache'[queue'[u][i].key] = u /\ queue'[u][i].id < timestamp_'
    BY Zenon DEF Placed
  <2>1. CASE i \in 1..Len(queue[u]) /\ queue'[u][i] = queue[u][i]
    <3>1. hash_cache'[queue[u][i].key] = u
      BY <1>3, <1>8, <2>1, Zenon
    <3>2. queue[u][i].id < timestamp_ /\ queue[u][i].id \in Nat
      BY <1>8, <2>1, Zenon
    <3>3. QED
      BY <1>2, <2>1, <3>1, <3>2
  <2>2. CASE u = t /\ queue'[u][i] = x
    <3>1. x.id = timestamp_ /\ x.key = k
      BY Zenon DEF Pushes
    <3>2. QED
      BY <1>2, <1>3, <2>2, <3>1
  <2>3. QED
    BY <1>9, <2>1, <2>2, Zenon
<1>11. Sorted'
  <2> SUFFICES ASSUME NEW u \in Threads, NEW i \in 1..Len(queue'[u]), NEW j \in 1..Len(queue'[u]),
                      i < j
               PROVE  queue'[u][i].id < queue'[u][j].id
    BY Zenon DEF Sorted
  <2>1. CASE i \in 1..Len(queue[u]) /\ j \in 1..Len(queue[u])
    <3>1. queue'[u][i] = queue[u][i] /\ queue'[u][j] = queue[u][j]
      BY <1>6, <1>7, <2>1, Zenon
    <3>2. QED
      BY <1>1, <2>1, <3>1, Zenon DEF Sorted
  <2>2. CASE i \in 1..Len(queue[u]) /\ u = t /\ j = Len(queue[t]) + 1
    <3>1. queue'[u][i] = queue[u][i] /\ queue'[u][j] = x
      BY <1>6, <2>2, Zenon
    <3>2. x.id = timestamp_ /\ queue[u][i].id < timestamp_
      BY <1>8, <2>2, Zenon DEF Pushes
    <3>3. QED
      BY <3>1, <3>2, Zenon
  <2>3. CASE u = t /\ i = Len(queue[t]) + 1
    BY <1>6, <2>3
  <2>4. QED
    BY <1>9, <2>1, <2>2, <2>3, Zenon
<1>12. executing' = executing /\ executing \in [Threads -> Messages \cup {NoMessage}]
  BY <1>1, Zenon DEF TypeOK, Pushes
<1>13. Worked'
  <2> SUFFICES ASSUME NEW u \in Threads, executing[u] # NoMessage
               PROVE  hash_cache'[executing[u].key] = u
    BY <1>12, Zenon DEF Worked
  <2>1. executing[u] \in Messages
    BY <1>12, Zenon
  <2>2. executing[u].key \in Keys
    BY <2>1, Zenon DEF Messages
  <2>3. hash_cache[executing[u].key] = u
    BY <1>1, Zenon DEF Worked
  <2>4. QED
    BY <1>3, <2>2, <2>3, Zenon
<1>14. QED
  BY <1>2, <1>3, <1>5, <1>10, <1>11, <1>12, <1>13, Zenon

\* A push request of key k is of this kind.
LEMMA HandlePushPushes ==
  ASSUME ~Schedule, Inv, NEW k \in Keys, HandlePush(k)
  PROVE  \E t \in Threads, x \in Messages : Pushes(t, k, x)
<1>1. TypeOK
  BY Zenon DEF Inv
<1>2. PICK t \in Threads : t = GetThreadID(k)
  BY <1>1, ThreadIDType, Zenon
<1>3. hash_cache[k] \in {-1, t}
  BY <1>1, <1>2, ThreadIDType, Zenon
<1>4. PICK ops \in Ops : Push(t, k, ops)
  <2>1. (IF request[k] = 0 THEN "COPY_FIRST" ELSE "SUM_RECV") \in Ops
    BY Zenon DEF Ops
  <2>2. QED
    BY <1>2, <2>1, Zenon DEF HandlePush
<1>5. timestamp_ \in Nat
  BY <1>1, Zenon DEF TypeOK
<1>6. PICK x \in Messages : x = [id |-> timestamp_, key |-> k, ops |-> ops]
  BY <1>5, Zenon DEF Messages
<1>7. x.id = timestamp_ /\ x.key = k
  BY <1>6, Zenon
<1>8. timestamp_' = timestamp_ + 1 /\ queue' = [queue EXCEPT ![t] = Append(@, x)]
  BY <1>4, <1>6, Zenon DEF Push, Pushed
<1>9. hash_cache' = [hash_cache EXCEPT ![k] = t] /\ executing' = executing
  BY <1>2, Zenon DEF HandlePush
<1>10. QED
  BY <1>3, <1>7, <1>8, <1>9, Zenon DEF Pushes

\* The push of ALL_RECV goes to the thread the key already has.
LEMMA HandleLastPushPushes ==
  ASSUME ~Schedule, Inv, HandleLastPush
  PROVE  \E k \in Keys, t \in Threads, x \in Messages : Pushes(t, k, x) /\ handler.key = k
<1>1. TypeOK
  BY Zenon DEF Inv
<1>2. handler.todo = "ALL_RECV"
  BY Zenon DEF HandleLastPush
<1>3. handler.key \in Keys /\ hash_cache[handler.key] \in Threads
  BY <1>1, <1>2, Zenon DEF TypeOK
<1>4. PICK k \in Keys : k = handler.key
  BY <1>3, Zenon
<1>5. PICK t \in Threads : t = hash_cache[k]
  BY <1>3, <1>4, Zenon
<1>6. timestamp_ \in Nat /\ "ALL_RECV" \in Ops
  BY <1>1, Zenon DEF TypeOK, Ops
<1>7. PICK x \in Messages : x = [id |-> timestamp_, key |-> k, ops |-> "ALL_RECV"]
  BY <1>6, Zenon DEF Messages
<1>8. x.id = timestamp_ /\ x.key = k
  BY <1>7, Zenon
<1>9. timestamp_' = timestamp_ + 1 /\ queue' = [queue EXCEPT ![t] = Append(@, x)]
  BY <1>4, <1>5, <1>7, Zenon DEF HandleLastPush, Push, Pushed
<1>10. hash_cache' = hash_cache /\ executing' = executing
  BY Zenon DEF HandleLastPush
<1>11. hash_cache' = [hash_cache EXCEPT ![k] = t]
  <2>1. hash_cache \in [Keys -> Threads \cup {-1}]
    BY <1>1, Zenon DEF TypeOK
  <2>2. QED
    BY <1>5, <1>10, <2>1, ZenonT(60)
<1>12. QED
  BY <1>4, <1>5, <1>8, <1>9, <1>10, <1>11, Zenon DEF Pushes

\* The invariant after each step.
LEMMA HandlePushInv ==
  ASSUME ~Schedule, Inv, NEW k \in Keys, HandlePush(k)
  PROVE  Inv'
<1>1. TypeOK
  BY Zenon DEF Inv
<1>2. PICK t \in Threads, x \in Messages : Pushes(t, k, x)
  BY HandlePushPushes, Zenon
<1>3. acc_load' \in [Threads -> Nat]
  <2>1. PICK u \in Threads : u = GetThreadID(k)
    BY <1>1, ThreadIDType, Zenon
  <2>2. acc_load \in [Threads -> Nat]
    BY <1>1, Zenon DEF TypeOK
  <2>3. Size[k] \in Nat
    BY EngineAssumption, Zenon
  <2>4. acc_load[u] \in Nat /\ acc_load[u] + Size[k] \in Nat
    BY <2>2, <2>3
  <2>5. acc_load' = [acc_load EXCEPT ![u] = IF hash_cache[k] = -1 THEN @ + Size[k] ELSE @]
    BY <2>1, Zenon DEF HandlePush
  <2>6. QED
    BY <2>2, <2>4, <2>5, Zenon
<1>4. /\ handler' \in Handlers
      /\ handler'.todo # "request" => handler'.key \in Keys /\ hash_cache'[handler'.key] \in Threads
  <2>1. hash_cache \in [Keys -> Threads \cup {-1}]
    BY <1>1, Zenon DEF TypeOK
  <2>2. hash_cache'[k] = t
    BY <1>2, <2>1, Zenon DEF Pushes
  <2>3. handler' = [todo |-> "ALL_RECV", key |-> k] \/ handler' = Ready
    BY Zenon DEF HandlePush
  <2>4. CASE handler' = [todo |-> "ALL_RECV", key |-> k]
    BY <2>2, <2>4, Zenon DEF Handlers
  <2>5. CASE handler' = Ready
    BY <2>5, Zenon DEF Ready, Handlers
  <2>6. QED
    BY <2>3, <2>4, <2>5, Zenon
<1>5. QED
  BY <1>2, <1>3, <1>4, PushesKeeps, Zenon DEF Inv, TypeOK

\* ... after the push of ALL_RECV,
LEMMA HandleLastPushInv ==
  ASSUME ~Schedule, Inv, HandleLastPush
  PROVE  Inv'
<1>1. TypeOK
  BY Zenon DEF Inv
<1>2. PICK k \in Keys, t \in Threads, x \in Messages : Pushes(t, k, x) /\ handler.key = k
  BY HandleLastPushPushes, Zenon
<1>3. acc_load' \in [Threads -> Nat]
  BY <1>1, Zenon DEF TypeOK, HandleLastPush
<1>4. handler'.key = handler.key /\ handler' \in Handlers
  <2>1. handler \in Handlers
    BY <1>1, Zenon DEF TypeOK
  <2>2. ASSUME NEW h \in Handlers, NEW g, g = [h EXCEPT !.todo = "ClearCounter"]
        PROVE  g.key = h.key /\ g \in Handlers
    BY <2>2, Zenon DEF Handlers
  <2>3. QED
    BY <2>1, <2>2, Zenon DEF HandleLastPush
<1>5. hash_cache'[k] \in Threads
  <2>1. hash_cache \in [Keys -> Threads \cup {-1}]
    BY <1>1, Zenon DEF TypeOK
  <2>2. QED
    BY <1>2, <2>1, Zenon DEF Pushes
<1>6. handler'.key \in Keys /\ hash_cache'[handler'.key] \in Threads
  BY <1>2, <1>4, <1>5, Zenon
<1>7. QED
  BY <1>2, <1>3, <1>4, <1>6, PushesKeeps, Zenon DEF Inv, TypeOK

\* ... after the end of a round,
LEMMA HandleClearCounterInv ==
  ASSUME Inv, HandleClearCounter
  PROVE  Inv'
<1>1. TypeOK'
  <2>1. handler' \in Handlers /\ handler'.todo = "request"
    BY Zenon DEF HandleClearCounter, Ready, Handlers
  <2>2. QED
    BY <2>1, Zenon DEF Inv, TypeOK, HandleClearCounter
<1>2. Placed' /\ Sorted' /\ Worked'
  BY Zenon DEF Inv, Placed, Sorted, Worked, HandleClearCounter
<1>3. QED
  BY <1>1, <1>2, Zenon DEF Inv

\* The message at the head of a queue is nowhere else.
LEMMA HeadUnique ==
  ASSUME Inv, NEW t \in Threads, queue[t] # <<>>
  PROVE  /\ Head(queue[t]) \in Messages /\ Head(queue[t]) = queue[t][1]
         /\ 1 \in 1..Len(queue[t])
         /\ \A u \in Threads : \A i \in 1..Len(queue[u]) :
              queue[u][i] = Head(queue[t]) => u = t /\ i = 1
         /\ \A i \in 1..Len(queue[t]) : i # 1 => Head(queue[t]).id < queue[t][i].id
<1>1. queue[t] \in Seq(Messages)
  BY Zenon DEF Inv, TypeOK
<1>2. Head(queue[t]) \in Messages /\ Head(queue[t]) = queue[t][1]
  BY <1>1
<1>3. Len(queue[t]) \in Nat /\ 1 \in 1..Len(queue[t])
  BY <1>1
<1>4. \A i \in 1..Len(queue[t]) : i # 1 => 1 < i
  BY <1>3
<1>5. \A i \in 1..Len(queue[t]) : i # 1 => queue[t][1].id < queue[t][i].id
  BY <1>3, <1>4, Zenon DEF Inv, Sorted
<1>6. ASSUME NEW u \in Threads, NEW i \in 1..Len(queue[u]), queue[u][i] = Head(queue[t])
      PROVE  u = t /\ i = 1
  <2>1. u = t
    <3>1. hash_cache[queue[u][i].key] = u /\ hash_cache[queue[t][1].key] = t
      BY <1>3, Zenon DEF Inv, Placed
    <3>2. QED
      BY <1>2, <1>6, <3>1, Zenon
  <2>2. i \in 1..Len(queue[t]) /\ queue[t][i] = queue[t][1]
    BY <1>2, <1>6, <2>1, Zenon
  <2>3. queue[t][1].id \in Nat
    BY <1>2, Zenon DEF Messages
  <2>4. ~(queue[t][1].id < queue[t][1].id)
    BY <2>3
  <2>5. i = 1
    BY <1>5, <2>2, <2>4, Zenon
  <2>6. QED
    BY <2>1, <2>5, Zenon
<1>7. QED
  BY <1>2, <1>3, <1>5, <1>6, Zenon

\* ... after a thread takes a message,
LEMMA WaitAndPopInv ==
  ASSUME ~Schedule, Inv, NEW t \in Threads, WaitAndPop(t)
  PROVE  Inv'
<1>1. /\ queue \in [Threads -> Seq(Messages)] /\ queue[t] \in Seq(Messages) /\ queue[t] # <<>>
      /\ queue' = [queue EXCEPT ![t] = Tail(@)]
      /\ executing' = [executing EXCEPT ![t] = Head(queue[t])]
      /\ UNCHANGED <<timestamp_, hash_cache, acc_load, handler>>
  BY Zenon DEF Inv, TypeOK, WaitAndPop, Remaining, Popped
<1>2. /\ Head(queue[t]) \in Messages /\ Head(queue[t]) = queue[t][1]
      /\ 1 \in 1..Len(queue[t])
  BY <1>1, HeadUnique, Zenon
<1>3. /\ Tail(queue[t]) \in Seq(Messages) /\ Len(Tail(queue[t])) = Len(queue[t]) - 1
      /\ \A i \in 1..Len(Tail(queue[t])) : Tail(queue[t])[i] = queue[t][i + 1]
  BY <1>1, SeqTail, Zenon
<1>4. queue'[t] = Tail(queue[t]) /\ \A u \in Threads : u # t => queue'[u] = queue[u]
  BY <1>1, Zenon
<1>5. /\ queue' \in [Threads -> Seq(Messages)]
      /\ executing' \in [Threads -> Messages \cup {NoMessage}]
      /\ executing'[t] = Head(queue[t])
      /\ \A u \in Threads : u # t => executing'[u] = executing[u]
  BY <1>1, <1>2, <1>3, Zenon DEF Inv, TypeOK
<1>6. TypeOK'
  BY <1>1, <1>5, Zenon DEF Inv, TypeOK
<1>7. /\ \A i \in 1..Len(queue'[t]) : i + 1 \in 1..Len(queue[t]) /\ queue'[t][i] = queue[t][i + 1]
      /\ \A i, j \in 1..Len(queue'[t]) : i < j => i + 1 < j + 1
  <2>1. Len(queue[t]) \in Nat
    BY <1>1, SeqLen, Zenon
  <2>2. QED
    BY <1>3, <1>4, <2>1
<1>8. Placed'
  <2> SUFFICES ASSUME NEW u \in Threads, NEW i \in 1..Len(queue'[u])
               PROVE  hash_cache[queue'[u][i].key] = u /\ queue'[u][i].id < timestamp_
    BY <1>1, Zenon DEF Placed
  <2>1. CASE u = t
    <3>1. i + 1 \in 1..Len(queue[t]) /\ queue'[t][i] = queue[t][i + 1]
      BY <1>7, <2>1, Zenon
    <3>2. QED
      BY <2>1, <3>1, Zenon DEF Inv, Placed
  <2>2. CASE u # t
    BY <1>4, <2>2, Zenon DEF Inv, Placed
  <2>3. QED
    BY <2>1, <2>2, Zenon
<1>9. Sorted'
  <2> SUFFICES ASSUME NEW u \in Threads, NEW i \in 1..Len(queue'[u]), NEW j \in 1..Len(queue'[u]),
                      i < j
               PROVE  queue'[u][i].id < queue'[u][j].id
    BY Zenon DEF Sorted
  <2>1. CASE u = t
    <3>1. /\ i + 1 \in 1..Len(queue[t]) /\ queue'[t][i] = queue[t][i + 1] /\ i + 1 < j + 1
          /\ j + 1 \in 1..Len(queue[t]) /\ queue'[t][j] = queue[t][j + 1]
      BY <1>7, <2>1, Zenon
    <3>2. QED
      BY <2>1, <3>1, Zenon DEF Inv, Sorted
  <2>2. CASE u # t
    BY <1>4, <2>2, Zenon DEF Inv, Sorted
  <2>3. QED
    BY <2>1, <2>2, Zenon
<1>10. Worked'
  <2>1. hash_cache[Head(queue[t]).key] = t
    BY <1>2, Zenon DEF Inv, Placed
  <2>2. QED
    BY <1>1, <1>5, <2>1, Zenon DEF Inv, Worked
<1>11. QED
  BY <1>6, <1>8, <1>9, <1>10, Zenon DEF Inv

\* ... and after it is done with one.
LEMMA ExecuteInv ==
  ASSUME Inv, NEW t \in Threads, Execute(t)
  PROVE  Inv'
<1>1. /\ executing' \in [Threads -> Messages \cup {NoMessage}]
      /\ \A u \in Threads : executing'[u] # NoMessage => executing'[u] = executing[u]
  BY Zenon DEF Inv, TypeOK, Execute
<1>2. TypeOK' /\ Placed' /\ Sorted'
  BY <1>1, Zenon DEF Inv, TypeOK, Placed, Sorted, Execute
<1>3. Worked'
  BY <1>1, Zenon DEF Inv, Worked, Execute
<1>4. QED
  BY <1>2, <1>3, Zenon DEF Inv

\* It holds at the start.
LEMMA InvInit == Init => Inv
<1> SUFFICES ASSUME Init PROVE Inv
  BY Zenon
<1>1. timestamp_ \in Nat /\ acc_load \in [Threads -> Nat]
  BY Zenon DEF Init
<1>2. hash_cache \in [Keys -> Threads \cup {-1}]
  BY Zenon DEF Init
<1>3. queue \in [Threads -> Seq(Messages)] /\ \A t \in Threads : Len(queue[t]) = 0
  BY DEF Init
<1>4. /\ executing \in [Threads -> Messages \cup {NoMessage}]
      /\ \A t \in Threads : executing[t] = NoMessage
  BY Zenon DEF Init
<1>5. handler \in Handlers /\ handler.todo = "request"
  BY Zenon DEF Init, Ready, Handlers
<1>6. \A t \in Threads : \A i \in 1..Len(queue[t]) : FALSE
  BY <1>3
<1>7. Placed /\ Sorted /\ Worked
  BY <1>4, <1>6, Zenon DEF Placed, Sorted, Worked
<1>8. QED
  BY <1>1, <1>2, <1>3, <1>4, <1>5, <1>7, Zenon DEF Inv, TypeOK

\* Every step preserves it.
LEMMA InvStep ==
  ASSUME ~Schedule, Inv, [Next]_vars
  PROVE  Inv'
<1>1. ASSUME NEW k \in Keys, HandlePush(k) PROVE Inv'
  BY <1>1, HandlePushInv, Zenon
<1>2. CASE HandleLastPush
  BY <1>2, HandleLastPushInv, Zenon
<1>3. CASE HandleClearCounter
  BY <1>3, HandleClearCounterInv, Zenon
<1>4. ASSUME NEW t \in Threads, WaitAndPop(t) PROVE Inv'
  BY <1>4, WaitAndPopInv, Zenon
<1>5. ASSUME NEW t \in Threads, Execute(t) PROVE Inv'
  BY <1>5, ExecuteInv, Zenon
<1>6. CASE UNCHANGED vars
  BY <1>6, Zenon DEF vars, Inv, TypeOK, Placed, Sorted, Worked
<1>7. QED
  BY <1>1, <1>2, <1>3, <1>4, <1>5, <1>6, Zenon DEF Next, Done

\* A key's messages are all in the queue of the thread GetThreadID gave it,
\* oldest first, and only that thread works on the key.
THEOREM EngineInvariant ==
  ASSUME ~Schedule
  PROVE  Spec => []Inv
<1>1. Inv /\ [Next]_vars => Inv'
  BY InvStep, Zenon
<1>2. QED
  BY InvInit, <1>1, PTL DEF Spec

\* Two threads never work on the same key: the copies and sums, which take no
\* lock, need none.
THEOREM ThreadsNeverShareAKey ==
  ASSUME ~Schedule
  PROVE  Spec => []OneThreadPerKey
<1>1. Inv => OneThreadPerKey
  BY OneThread, Zenon
<1>2. QED
  BY EngineInvariant, <1>1, PTL

-----------------------------------------------------------------------------
(* Refinement: one queue per key.                                          *)

Queues == [k \in Keys |-> InOrder(k)]
OnKey(e, k) == {t \in Threads : e[t].key = k}
EngineOn(e, k) == IF OnKey(e, k) = {} THEN "NONE" ELSE e[CHOOSE t \in OnKey(e, k) : TRUE].ops
Engine(k) == EngineOn(executing, k)
Engines == [k \in Keys |-> Engine(k)]

\* Steps that leave the queues alone are not seen in the queues of the keys.
LEMMA SameQueues ==
  ASSUME queue' = queue
  PROVE  Queues' = Queues
<1>1. ASSUME NEW k \in Keys PROVE InOrder(k)' = InOrder(k)
  <2>1. Waiting(k) = Held(queue, k) /\ Waiting(k)' = Held(queue', k)
    BY Zenon DEF Waiting, Held
  <2>2. InOrder(k) = OrderOf(Waiting(k)) /\ InOrder(k)' = OrderOf(Waiting(k)')
    BY Zenon DEF InOrder, OrderOf, Nth, Before
  <2>3. QED
    BY <2>1, <2>2, Zenon
<1>2. QED
  BY <1>1, Zenon DEF Queues

\* Pushing a message puts its operation.
LEMMA PushesRefines ==
  ASSUME Inv, NEW t \in Threads, NEW k \in Keys, NEW x \in Messages, Pushes(t, k, x)
  PROVE  AbstractKeyQueues!Next
<1>1. /\ queue \in [Threads -> Seq(Messages)] /\ queue' = [queue EXCEPT ![t] = Append(@, x)]
      /\ x.key = k /\ x.id = timestamp_ /\ executing' = executing
  BY Zenon DEF Inv, TypeOK, Pushes
<1>2. ASSUME NEW j \in Keys
      PROVE  Waiting(j)' = IF j = k THEN Waiting(j) \cup {x} ELSE Waiting(j)
  <2>1. /\ x.key = j => Held(queue', j) = Held(queue, j) \cup {x}
        /\ x.key # j => Held(queue', j) = Held(queue, j)
    <3>1. Appended(queue, t, x, queue')
      BY <1>1, Zenon DEF Appended
    <3>2. queue \in [Threads -> Seq(Messages)]
      BY <1>1, Zenon
    <3>3. QED
      BY <3>1, <3>2, HeldAppend
  <2>2. QED
    BY <1>1, <2>1, Zenon DEF Waiting, Held
<1>3. Distinct(Waiting(k)) /\ \A m \in Waiting(k) : m.id < x.id
  BY <1>1, WaitingDistinct, Zenon
<1>4. OrderOf(Waiting(k) \cup {x}) = Append(OrderOf(Waiting(k)), x.ops)
  BY <1>3, AddLast, Zenon
<1>5. ASSUME NEW j \in Keys
      PROVE  InOrder(j)' = IF j = k THEN Append(InOrder(j), x.ops) ELSE InOrder(j)
  <2>1. InOrder(j) = OrderOf(Waiting(j)) /\ InOrder(j)' = OrderOf(Waiting(j)')
    BY Zenon DEF InOrder, OrderOf, Nth, Before
  <2>2. QED
    BY <1>2, <1>4, <2>1, Zenon
<1>6. Queues' = [Queues EXCEPT ![k] = Append(@, x.ops)]
  BY <1>5, Zenon DEF Queues
<1>7. Engines' = Engines
  BY <1>1, Zenon DEF Engines, Engine
<1>8. x.ops \in Ops
  BY Zenon DEF Messages
<1>9. AbstractKeyQueues!Put(k, x.ops)
  BY <1>6, <1>7, Zenon DEF AbstractKeyQueues!Put, Queues, Engines, Engine, EngineOn, OnKey, WorkingOn
<1>10. QED
  BY <1>8, <1>9, Zenon DEF AbstractKeyQueues!Next

\* The engine does the same for a key if the same threads are on it.
LEMMA EngineOnSame ==
  ASSUME NEW e, NEW f, NEW k, OnKey(e, k) = OnKey(f, k), \A t \in OnKey(e, k) : e[t] = f[t]
  PROVE  EngineOn(e, k) = EngineOn(f, k)
<1>1. CASE OnKey(e, k) = {}
  BY <1>1, Zenon DEF EngineOn
<1>2. CASE OnKey(e, k) # {}
  <2>1. PICK t \in OnKey(e, k) : t = CHOOSE u \in OnKey(e, k) : TRUE
    BY <1>2, Zenon
  <2>2. EngineOn(e, k) = e[t].ops /\ EngineOn(f, k) = f[t].ops
    BY <1>2, <2>1, Zenon DEF EngineOn
  <2>3. QED
    BY <2>1, <2>2, Zenon
<1>3. QED
  BY <1>1, <1>2, Zenon

\* The engine does for a key what the only thread on it does.
LEMMA EngineOnOne ==
  ASSUME NEW e, NEW k, NEW t, OnKey(e, k) = {t}
  PROVE  EngineOn(e, k) = e[t].ops
<1>1. (CHOOSE u \in {t} : TRUE) = t
  BY Zenon
<1>2. QED
  BY <1>1, Zenon DEF EngineOn

\* Only one thread is on a key that t works on.
LEMMA OnKeyIs ==
  ASSUME Inv, NEW k \in Keys, NEW t \in Threads, t = hash_cache[k]
  PROVE  OnKey(executing, k) = IF executing[t].key = k THEN {t} ELSE {}
<1>1. ASSUME NEW u \in OnKey(executing, k) PROVE u = t
  <2>1. u \in WorkingOn(k)
    BY <1>1, Zenon DEF OnKey, WorkingOn
  <2>2. QED
    BY <2>1, WorkingOnIs, Zenon
<1>2. t \in OnKey(executing, k) <=> executing[t].key = k
  BY Zenon DEF OnKey
<1>3. CASE executing[t].key = k
  BY <1>1, <1>2, <1>3, Zenon
<1>4. CASE executing[t].key # k
  BY <1>1, <1>2, <1>4, Zenon
<1>5. QED
  BY <1>3, <1>4, Zenon

\* Taking a message starts the oldest operation of its key.
LEMMA WaitAndPopRefines ==
  ASSUME ~Schedule, Inv, NEW t \in Threads, WaitAndPop(t)
  PROVE  AbstractKeyQueues!Next
<1>1. /\ queue \in [Threads -> Seq(Messages)] /\ queue[t] # <<>>
      /\ executing \in [Threads -> Messages \cup {NoMessage}]
      /\ queue' = [queue EXCEPT ![t] = Tail(@)]
      /\ executing[t] = NoMessage
      /\ executing' = [executing EXCEPT ![t] = Head(queue[t])]
  BY Zenon DEF Inv, TypeOK, WaitAndPop, Remaining, Popped
<1>2. PICK m \in Messages : m = Head(queue[t]) /\ m = queue[t][1]
  BY <1>1, HeadUnique, Zenon
<1>3. /\ 1 \in 1..Len(queue[t])
      /\ \A u \in Threads : \A i \in 1..Len(queue[u]) : queue[u][i] = m => u = t /\ i = 1
      /\ \A i \in 1..Len(queue[t]) : i # 1 => m.id < queue[t][i].id
  <2>1. \A u \in Threads : \A i \in 1..Len(queue[u]) :
          queue[u][i] = Head(queue[t]) => u = t /\ i = 1
    BY <1>1, HeadUnique, Zenon
  <2>2. \A i \in 1..Len(queue[t]) : i # 1 => Head(queue[t]).id < queue[t][i].id
    BY <1>1, HeadUnique, Zenon
  <2>3. 1 \in 1..Len(queue[t])
    BY <1>1, HeadUnique, Zenon
  <2>4. QED
    BY <1>2, <2>1, <2>2, <2>3, Zenon
<1>4. PICK k \in Keys : k = m.key /\ m.ops \in Ops
  BY <1>2, Zenon DEF Messages
<1>5. hash_cache[k] = t
  <2>1. hash_cache[queue[t][1].key] = t
    BY <1>3, Zenon DEF Inv, Placed
  <2>2. QED
    BY <1>2, <1>4, <2>1, Zenon
<1>6. \A j \in Keys : Waiting(j) = Held(queue, j) /\ Waiting(j)' = Held(queue', j)
  BY Zenon DEF Waiting, Held
<1>7. \A j \in Keys : Held(queue', j) = Held(queue, j) \ {m}
  <2> SUFFICES ASSUME NEW j \in Keys PROVE Held(queue', j) = Held(queue, j) \ {m}
    BY Zenon
  <2>1. Beheaded(queue, t, queue') /\ queue \in [Threads -> Seq(Messages)] /\ queue[t] # <<>>
    BY <1>1, Zenon DEF Beheaded
  <2>2. \A u \in Threads : \A i \in 1..Len(queue[u]) :
          queue[u][i] = Head(queue[t]) => u = t /\ i = 1
    BY <1>2, <1>3, Zenon
  <2>3. QED
    BY <1>2, <2>1, <2>2, HeldTail
<1>8. ASSUME NEW j \in Keys, NEW n
      PROVE  n \in Waiting(j) <=> n.key = j /\ \E u \in Threads : In(queue, u, n)
  BY <1>1, <1>6, HeldIs
<1>9. m \in Waiting(k) /\ Distinct(Waiting(k))
  <2>1. In(queue, t, m)
    BY <1>2, <1>3, Zenon DEF In
  <2>2. QED
    BY <1>4, <1>8, <2>1, WaitingDistinct, Zenon
<1>10. ASSUME NEW n \in Waiting(k), n # m PROVE m.id < n.id
  <2>1. PICK u \in Threads : In(queue, u, n) /\ n.key = k
    BY <1>8, <1>10, Zenon
  <2>2. PICK i \in 1..Len(queue[u]) : queue[u][i] = n
    BY <2>1, Zenon DEF In
  <2>3. hash_cache[k] = u
    BY <2>1, <2>2, Zenon DEF Inv, Placed
  <2>4. u = t /\ i # 1
    BY <1>2, <1>5, <1>10, <2>2, <2>3, Zenon
  <2>5. QED
    BY <1>3, <2>2, <2>4, Zenon
<1>11. /\ OrderOf(Waiting(k)) # <<>> /\ Head(OrderOf(Waiting(k))) = m.ops
       /\ OrderOf(Waiting(k) \ {m}) = Tail(OrderOf(Waiting(k)))
  BY <1>9, <1>10, TakeFirst, Zenon
<1>12. \A j \in Keys : InOrder(j) = OrderOf(Waiting(j)) /\ InOrder(j)' = OrderOf(Waiting(j)')
  BY Zenon DEF InOrder, OrderOf, Nth, Before
<1>13. InOrder(k) # <<>> /\ Head(InOrder(k)) = m.ops /\ InOrder(k)' = Tail(InOrder(k))
  BY <1>6, <1>7, <1>11, <1>12, Zenon
<1>14. ASSUME NEW j \in Keys, j # k PROVE InOrder(j)' = InOrder(j)
  <2>1. m \notin Waiting(j)
    BY <1>4, <1>8, <1>14, Zenon
  <2>2. Waiting(j)' = Waiting(j)
    BY <1>6, <1>7, <2>1, Zenon
  <2>3. QED
    BY <1>12, <2>2, Zenon
<1>15. Queues' = [Queues EXCEPT ![k] = Tail(@)] /\ Queues[k] = InOrder(k)
  BY <1>13, <1>14, Zenon DEF Queues
<1>16. executing[t].key \notin Keys /\ executing'[t] = m
       /\ \A u \in Threads : u # t => executing'[u] = executing[u]
  <2>1. NoMessage.key \notin Keys
    BY ThreadsAreNat, Zenon DEF NoMessage
  <2>2. QED
    BY <1>1, <1>2, <2>1, Zenon
<1>17. OnKey(executing, k) = {} /\ OnKey(executing', k) = {t}
  <2>1. OnKey(executing, k) = {}
    BY <1>5, <1>16, OnKeyIs, Zenon
  <2>2. QED
    BY <1>4, <1>16, <2>1, Zenon DEF OnKey
<1>18. Engine(k) = "NONE" /\ Engine(k)' = m.ops
  BY <1>16, <1>17, EngineOnOne, Zenon DEF Engine, EngineOn
<1>19. ASSUME NEW j \in Keys, j # k PROVE Engine(j)' = Engine(j)
  <2>1. OnKey(executing', j) = OnKey(executing, j) /\ t \notin OnKey(executing, j)
    BY <1>4, <1>16, <1>19, Zenon DEF OnKey
  <2>2. \A u \in OnKey(executing, j) : executing[u] = executing'[u]
    BY <1>16, <2>1, Zenon DEF OnKey
  <2>3. EngineOn(executing, j) = EngineOn(executing', j)
    BY <2>1, <2>2, EngineOnSame, ZenonT(60)
  <2>4. QED
    BY <2>3, Zenon DEF Engine
<1>20. Engines' = [Engines EXCEPT ![k] = m.ops] /\ Engines[k] = "NONE"
  BY <1>18, <1>19, Zenon DEF Engines
<1>21. AbstractKeyQueues!Start(k)
  <2>1. /\ Engines[k] = "NONE" /\ Queues[k] # <<>>
        /\ Engines' = [Engines EXCEPT ![k] = Head(Queues[k])]
        /\ Queues' = [Queues EXCEPT ![k] = Tail(@)]
    BY <1>13, <1>15, <1>20, Zenon
  <2>2. QED
    BY <2>1, Zenon
    DEF AbstractKeyQueues!Start, Queues, Engines, Engine, EngineOn, OnKey, WorkingOn
<1>22. QED
  BY <1>21, Zenon DEF AbstractKeyQueues!Next

\* Finishing a message finishes the operation of its key.
LEMMA ExecuteRefines ==
  ASSUME Inv, NEW t \in Threads, Execute(t)
  PROVE  AbstractKeyQueues!Next
<1>1. /\ executing \in [Threads -> Messages \cup {NoMessage}]
      /\ executing[t] # NoMessage /\ queue' = queue
      /\ executing' = [executing EXCEPT ![t] = NoMessage]
  BY Zenon DEF Inv, TypeOK, Execute
<1>2. PICK m \in Messages : m = executing[t]
  BY <1>1, Zenon
<1>3. PICK k \in Keys : k = m.key /\ m.ops \in Ops
  BY <1>2, Zenon DEF Messages
<1>4. hash_cache[k] = t
  <2>1. hash_cache[executing[t].key] = t
    BY <1>1, Zenon DEF Inv, Worked
  <2>2. QED
    BY <1>2, <1>3, <2>1, Zenon
<1>5. Queues' = Queues
  BY <1>1, SameQueues, Zenon
<1>6. executing'[t].key \notin Keys /\ \A u \in Threads : u # t => executing'[u] = executing[u]
  <2>1. NoMessage.key \notin Keys
    BY ThreadsAreNat, Zenon DEF NoMessage
  <2>2. QED
    BY <1>1, <2>1, Zenon
<1>7. OnKey(executing, k) = {t} /\ OnKey(executing', k) = {}
  <2>1. OnKey(executing, k) = {t}
    BY <1>2, <1>3, <1>4, OnKeyIs, Zenon
  <2>2. QED
    BY <1>6, <2>1, Zenon DEF OnKey
<1>8. Engine(k) = m.ops /\ Engine(k)' = "NONE"
  BY <1>2, <1>7, EngineOnOne, Zenon DEF Engine, EngineOn
<1>9. ASSUME NEW j \in Keys, j # k PROVE Engine(j)' = Engine(j)
  <2>1. OnKey(executing', j) = OnKey(executing, j) /\ t \notin OnKey(executing, j)
    BY <1>2, <1>3, <1>6, <1>9, Zenon DEF OnKey
  <2>2. \A u \in OnKey(executing, j) : executing[u] = executing'[u]
    BY <1>6, <2>1, Zenon DEF OnKey
  <2>3. EngineOn(executing, j) = EngineOn(executing', j)
    BY <2>1, <2>2, EngineOnSame, ZenonT(60)
  <2>4. QED
    BY <2>3, Zenon DEF Engine
<1>10. Engines' = [Engines EXCEPT ![k] = "NONE"] /\ Engines[k] # "NONE"
  <2>1. "NONE" \notin Ops
    BY Zenon DEF Ops
  <2>2. QED
    BY <1>3, <1>8, <1>9, <2>1, Zenon DEF Engines
<1>11. AbstractKeyQueues!Finish(k)
  BY <1>5, <1>10, Zenon
  DEF AbstractKeyQueues!Finish, Queues, Engines, Engine, EngineOn, OnKey, WorkingOn
<1>12. QED
  BY <1>11, Zenon DEF AbstractKeyQueues!Next

\* The engine threads, their shared queues and the assignment of keys to
\* threads implement one queue per key, executed in order: the engine that
\* BytePSServer models.
THEOREM EngineRefinement ==
  ASSUME ~Schedule
  PROVE  Spec => ImplementsKeyQueues
<1>1. Inv /\ [Next]_vars => Inv'
  BY InvStep, Zenon
<1>2. Init => AbstractKeyQueues!Init
  <2> SUFFICES ASSUME Init PROVE AbstractKeyQueues!Init
    BY Zenon
  <2>1. ASSUME NEW k \in Keys PROVE Waiting(k) = {} /\ OnKey(executing, k) = {}
    <3>1. \A t \in Threads : Range(queue[t]) = {}
      BY DEF Init, Range
    <3>2. NoMessage.key # k
      BY ThreadsAreNat, Zenon DEF NoMessage
    <3>3. QED
      BY <3>1, <3>2, Zenon DEF Waiting, OnKey, Init
  <2>2. ASSUME NEW k \in Keys PROVE InOrder(k) = <<>>
    <3>1. Cardinality({}) = 0
      BY FS_EmptySet, Zenon
    <3>2. InOrder(k) = OrderOf(Waiting(k))
      BY Zenon DEF InOrder, OrderOf, Nth, Before
    <3>3. InOrder(k) = OrderOf({})
      BY <2>1, <3>2, Zenon
    <3>4. QED
      BY <3>1, <3>3 DEF OrderOf
  <2>3. Queues = [k \in Keys |-> <<>>] /\ Engines = [k \in Keys |-> "NONE"]
    BY <2>1, <2>2, Zenon DEF Queues, Engines, Engine, EngineOn
  <2>4. QED
    BY <2>3, Zenon
    DEF AbstractKeyQueues!Init, Queues, Engines, Engine, EngineOn, OnKey, WorkingOn
<1>3. Inv /\ [Next]_vars => [AbstractKeyQueues!Next]_(AbstractKeyQueues!vars)
  <2> SUFFICES ASSUME Inv, [Next]_vars
               PROVE  [AbstractKeyQueues!Next]_(AbstractKeyQueues!vars)
    BY Zenon
  <2>1. ASSUME NEW k \in Keys, HandlePush(k) PROVE AbstractKeyQueues!Next
    BY <2>1, HandlePushPushes, PushesRefines, Zenon
  <2>2. ASSUME HandleLastPush PROVE AbstractKeyQueues!Next
    BY <2>2, HandleLastPushPushes, PushesRefines, Zenon
  <2>3. ASSUME NEW t \in Threads, WaitAndPop(t) PROVE AbstractKeyQueues!Next
    BY <2>3, WaitAndPopRefines, Zenon
  <2>4. ASSUME NEW t \in Threads, Execute(t) PROVE AbstractKeyQueues!Next
    BY <2>4, ExecuteRefines, Zenon
  <2>5. CASE queue' = queue /\ executing' = executing
    <3>1. Queues' = Queues
      BY <2>5, SameQueues, Zenon
    <3>2. Engines' = Engines
      BY <2>5, Zenon DEF Engines, Engine
    <3>3. QED
      BY <3>1, <3>2, Zenon
      DEF AbstractKeyQueues!vars, Queues, Engines, Engine, EngineOn, OnKey, WorkingOn
  <2>6. QED
    BY <2>1, <2>2, <2>3, <2>4, <2>5, Zenon DEF Next, Done, vars, HandleClearCounter
<1>4. QED
  BY InvInit, <1>1, <1>2, <1>3, PTL
  DEF Spec, ImplementsKeyQueues, AbstractKeyQueues!Spec
=============================================================================
