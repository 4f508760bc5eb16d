------------------------- MODULE TorchHandlesProofs -------------------------
(***************************************************************************)
(* The pairing of asynchronous calls and the safety of suspend, for any    *)
(* number of workers, calls and names, when every worker synchronizes its  *)
(* handles before it suspends.                                             *)
(***************************************************************************)
EXTENDS TorchHandles, SequenceTheorems, TLAPS

-----------------------------------------------------------------------------
(* The inductive invariant.                                                *)

Busy == {"init", "waiting", "enqueue"}
InFlight == {"pending", "done"}

TypeOK ==
    /\ suspendAt \in SuspendPoints
    /\ next \in [Workers -> Nat]
    /\ \A w \in Workers : next[w] <= Len(Program[w])
    /\ handle \in [Workers -> [Calls -> {"none", "released"} \cup InFlight]]
    /\ thread \in [Workers -> [Calls -> {"none", "ended"} \cup Busy]]
    /\ line \in [Workers -> [Names -> Seq(Calls)]]
    /\ summed \in [Workers -> [Calls -> [Workers -> Nat]]]
    /\ phase \in [Workers -> {"up", "stopping", "cleaned"}]
    /\ resumed \in BOOLEAN

(* The calls made, those made since the last resume, those in a line.      *)
Made(w, c) == \E i \in 1..next[w] : Program[w][i] = c
Current(w, c) == resumed => c \notin MadeFirst(w, suspendAt)
At(w, n, i, c) == i \in 1..Len(line[w][n]) /\ line[w][n][i] = c
Listed(w, c) == \E i \in Nat : At(w, GetOpName(c), i, c)

(* A detached thread is at work only for a pending handle whose call it    *)
(* has not enqueued, and a worker with a handle in flight is up.           *)
HandleOK(w, c) ==
    /\ handle[w][c] # "none" <=> Made(w, c)
    /\ handle[w][c] \in InFlight => phase[w] = "up"
    /\ thread[w][c] \in Busy => handle[w][c] = "pending"
    /\ Listed(w, c) => handle[w][c] # "none" /\ thread[w][c] \notin Busy
PhaseOK(w) ==
    /\ phase[w] # "up" => ~resumed /\ next[w] = suspendAt
    /\ resumed => suspendAt <= next[w]
Control ==
    /\ TypeOK
    /\ \A w \in Workers : PhaseOK(w) /\ \A c \in Calls : HandleOK(w, c)
    /\ error = "none"

(* The call in flight is the latest of its name.                           *)
Latest ==
    \A w \in Workers, c \in Calls : handle[w][c] \in InFlight =>
        /\ Current(w, c)
        /\ \A d \in Calls : NameOf[d] = NameOf[c] /\ handle[w][d] # "none" => d <= c

(* A line holds the calls of its name that no thread is still to enqueue,  *)
(* in order, and the lines of two workers agree.                           *)
Members ==
    /\ \A w \in Workers, c \in Calls :
          /\ Listed(w, c) => Current(w, c)
          /\ handle[w][c] # "none" /\ thread[w][c] \notin Busy /\ Current(w, c)
               => Listed(w, c)
    /\ \A w \in Workers, n \in Names, i \in Nat, c \in Calls :
          At(w, n, i, c) => GetOpName(c) = n
Sorted ==
    \A w \in Workers, n \in Names, i, j \in Nat, c, d \in Calls :
        At(w, n, i, c) /\ At(w, n, j, d) /\ i < j => c < d
Paired ==
    \A v, w \in Workers, n \in Names, i \in Nat, c, d \in Calls :
        At(v, n, i, c) /\ At(w, n, i, d) => c = d

Inv == Control /\ Latest /\ Members /\ Sorted /\ Paired /\ CallsPairUp

Step ==
    \/ \E w \in Workers : DoPushPull(w) \/ Suspend(w) \/ DeleteQueues(w)
    \/ \E w \in Workers, c \in Calls : CallNext(w, c)
    \/ FinalizeAndResume

-----------------------------------------------------------------------------
(* Facts about programs and lines.                                         *)

\* A call has a name, and workers make calls.
LEMMA CallTypes ==
  /\ \A c \in Calls : c \in Nat /\ GetOpName(c) \in Names
  /\ \A w \in Workers : Program[w] \in Seq(Calls) /\ Len(Program[w]) \in Nat
<1>1. \A w \in Workers : Program[w] \in Seq(Calls)
  BY ProgramAssumption, Zenon
<1>2. ASSUME NEW w \in Workers PROVE Len(Program[w]) \in Nat
  BY <1>1, LenProperties, Zenon
<1>3. QED
  BY <1>1, <1>2, ProgramAssumption, Zenon DEF Names

\* What a worker's next call is, and that it has not made it before.
LEMMA NextCall ==
  ASSUME TypeOK, NEW w \in Workers, next[w] < Len(Program[w])
  PROVE  /\ next[w] + 1 \in 1..Len(Program[w]) /\ next[w] \in Nat
         /\ Program[w][next[w] + 1] \in Calls
         /\ ~Made(w, Program[w][next[w] + 1])
<1>1. next[w] \in Nat /\ Program[w] \in Seq(Calls) /\ Len(Program[w]) \in Nat
  BY CallTypes, Zenon DEF TypeOK
<1>2. next[w] + 1 \in 1..Len(Program[w])
  BY <1>1
<1>3. Program[w][next[w] + 1] \in Calls
  BY <1>1, <1>2
<1>4. ASSUME NEW i \in 1..next[w] PROVE Program[w][i] # Program[w][next[w] + 1]
  <2>1. i \in 1..Len(Program[w]) /\ i # next[w] + 1
    BY <1>1
  <2>2. QED
    BY <2>1, <1>2, ProgramAssumption, Zenon
<1>5. QED
  BY <1>1, <1>2, <1>3, <1>4, Zenon DEF Made

\* What DoPushPull does.
LEMMA Call ==
  ASSUME Control, NEW w \in Workers, DoPushPull(w)
  PROVE  \E c \in Calls :
           /\ c = Program[w][next[w] + 1] /\ next[w] + 1 \in 1..Len(Program[w])
           /\ next[w] \in Nat
           /\ ~Made(w, c) /\ ~Listed(w, c)
           /\ handle[w][c] = "none" /\ thread[w][c] \notin Busy
           /\ ProgramAllows(w, c) /\ phase[w] = "up"
           /\ handle' = [handle EXCEPT ![w][c] = "pending"]
           /\ \/ EnqueueTensor(w, c) /\ UNCHANGED thread
              \/ thread' = [thread EXCEPT ![w][c] = "init"] /\ UNCHANGED line
           /\ next' = [next EXCEPT ![w] = @ + 1]
           /\ UNCHANGED <<suspendAt, summed, phase, resumed, error>>
<1> DEFINE c == Program[w][next[w] + 1]
<1>1. /\ next[w] < Len(Program[w])
      /\ ProgramAllows(w, c)
      /\ handle' = [handle EXCEPT ![w][c] = "pending"]
      /\ \/ EnqueueTensor(w, c) /\ UNCHANGED thread
         \/ thread' = [thread EXCEPT ![w][c] = "init"] /\ UNCHANGED line
      /\ next' = [next EXCEPT ![w] = @ + 1]
      /\ UNCHANGED <<suspendAt, summed, phase, resumed, error>>
  BY Zenon DEF DoPushPull
<1>2. c \in Calls /\ ~Made(w, c) /\ next[w] + 1 \in 1..Len(Program[w]) /\ next[w] \in Nat
  BY <1>1, NextCall, Zenon DEF Control
<1> HIDE DEF c
<1>3. HandleOK(w, c)
  BY <1>2, Zenon DEF Control
<1>4. handle[w][c] = "none" /\ thread[w][c] \notin Busy /\ ~Listed(w, c)
  BY <1>2, <1>3, Zenon DEF HandleOK
<1>5. phase[w] = "up"
  BY <1>1, Zenon DEF ProgramAllows
<1>6. QED
  BY <1>1, <1>2, <1>4, <1>5, Zenon DEF c

\* Call c is appended to its line on worker w, as the k-th.
Grows(w, c, k) ==
    /\ \A v \in Workers, m \in Names, i \in Nat, d \in Calls :
         At(v, m, i, d)' <=> \/ At(v, m, i, d)
                             \/ v = w /\ m = GetOpName(c) /\ i = k /\ d = c
    /\ \A i \in Nat, d \in Calls : At(w, GetOpName(c), i, d) => i < k
    /\ \A i \in Nat : 1 <= i /\ i < k => \E d \in Calls : At(w, GetOpName(c), i, d)

\* Enqueueing puts a call at the end of the line of its name.
LEMMA Enqueued ==
  ASSUME TypeOK, NEW w \in Workers, NEW c \in Calls, phase[w] = "up", EnqueueTensor(w, c)
  PROVE  /\ line' \in [Workers -> [Names -> Seq(Calls)]]
         /\ \E k \in Nat : Grows(w, c, k)
<1> SUFFICES ASSUME NEW n \in Names, n = GetOpName(c)
             PROVE  /\ line' \in [Workers -> [Names -> Seq(Calls)]]
                    /\ \E k \in Nat : Grows(w, c, k)
  BY CallTypes, Zenon
<1> DEFINE s == line[w][n]
<1>2. line' = [line EXCEPT ![w][n] = Append(@, c)]
  BY Zenon DEF EnqueueTensor
<1>3. s \in Seq(Calls) /\ Len(s) \in Nat
  BY DEF TypeOK
<1>4. line' \in [Workers -> [Names -> Seq(Calls)]]
  BY <1>2 DEF TypeOK
<1>5. line'[w][n] = Append(s, c)
  BY <1>2, Zenon DEF TypeOK
<1>6. \A v \in Workers, m \in Names : ~(v = w /\ m = n) => line'[v][m] = line[v][m]
  BY <1>2, Zenon DEF TypeOK
<1>7. \A v \in Workers, m \in Names, i \in Nat, d \in Calls :
        ~(v = w /\ m = n) => (At(v, m, i, d)' <=> At(v, m, i, d))
  BY <1>6, Zenon DEF At
<1>8. \A i \in Nat, d \in Calls :
        i \in 1..Len(Append(s, c)) /\ Append(s, c)[i] = d
          <=> (i \in 1..Len(s) /\ s[i] = d) \/ (i = Len(s) + 1 /\ d = c)
  <2> HIDE DEF s
  <2>1. Len(Append(s, c)) = Len(s) + 1 /\ Append(s, c)[Len(s) + 1] = c
        /\ \A i \in 1..Len(s) : Append(s, c)[i] = s[i]
    BY <1>3
  <2>2. QED
    BY <1>3, <2>1
<1>9. \A i \in Nat, d \in Calls :
        At(w, n, i, d)' <=> At(w, n, i, d) \/ (i = Len(s) + 1 /\ d = c)
  <2> SUFFICES ASSUME NEW i \in Nat, NEW d \in Calls
               PROVE  At(w, n, i, d)' <=> At(w, n, i, d) \/ (i = Len(s) + 1 /\ d = c)
    BY Zenon
  <2>1. At(w, n, i, d)' <=> i \in 1..Len(line'[w][n]) /\ line'[w][n][i] = d
    BY Zenon DEF At
  <2>2. At(w, n, i, d)' <=> i \in 1..Len(Append(s, c)) /\ Append(s, c)[i] = d
    BY <2>1, <1>5, Zenon
  <2>3. At(w, n, i, d) <=> i \in 1..Len(s) /\ s[i] = d
    BY Zenon DEF At
  <2>4. QED
    BY <2>2, <2>3, <1>8, Zenon
<1>10. \A i \in Nat, d \in Calls : At(w, n, i, d) => i < Len(s) + 1
  BY <1>3 DEF At
<1>11. Len(s) + 1 \in Nat
  BY <1>3
<1>12. QED
  <2> DEFINE k == Len(s) + 1
  <2> HIDE DEF s, k
  <2>1. \A v \in Workers, m \in Names, i \in Nat, d \in Calls :
          At(v, m, i, d)' <=> \/ At(v, m, i, d)
                              \/ v = w /\ m = n /\ i = k /\ d = c
    <3> SUFFICES ASSUME NEW v \in Workers, NEW m \in Names, NEW i \in Nat, NEW d \in Calls
                 PROVE  At(v, m, i, d)' <=> \/ At(v, m, i, d)
                                            \/ v = w /\ m = n /\ i = k /\ d = c
      BY Zenon
    <3>1. CASE v = w /\ m = n
      BY <3>1, <1>9, Zenon DEF k
    <3>2. CASE ~(v = w /\ m = n)
      BY <3>2, <1>7, Zenon
    <3>3. QED
      BY <3>1, <3>2, Zenon
  <2>2. k \in Nat /\ \A i \in Nat, d \in Calls : At(w, n, i, d) => i < k
    BY <1>10, <1>11, Zenon DEF k
  <2>3. \A i \in Nat : 1 <= i /\ i < k => \E d \in Calls : At(w, n, i, d)
    <3> SUFFICES ASSUME NEW i \in Nat, 1 <= i, i < k PROVE \E d \in Calls : At(w, n, i, d)
      BY Zenon
    <3>1. i \in 1..Len(s) /\ s[i] \in Calls
      BY <1>3 DEF k
    <3>2. QED
      BY <3>1, Zenon DEF At, s
  <2>4. QED
    <3>1. Grows(w, c, k)
      BY <2>1, <2>2, <2>3, Zenon DEF Grows
    <3>2. QED
      BY <1>4, <2>2, <3>1, Zenon

\* Then that call is the only one that is newly listed.
LEMMA EnqueuedListed ==
  ASSUME TypeOK, NEW w \in Workers, NEW c \in Calls, phase[w] = "up", EnqueueTensor(w, c)
  PROVE  \A v \in Workers, d \in Calls :
           Listed(v, d)' <=> Listed(v, d) \/ (v = w /\ d = c)
<1> SUFFICES ASSUME NEW v \in Workers, NEW d \in Calls
             PROVE  Listed(v, d)' <=> Listed(v, d) \/ (v = w /\ d = c)
  BY Zenon
<1>1. PICK n \in Names : n = GetOpName(d)
  BY CallTypes, Zenon
<1>2. PICK k \in Nat : Grows(w, c, k)
  BY Enqueued, Zenon
<1>3. Listed(v, d)' <=> \E i \in Nat : At(v, n, i, d)'
  BY <1>1, Zenon DEF Listed
<1>4. QED
  BY <1>1, <1>2, <1>3, Zenon DEF Listed, Grows

\* Lines that do not change list the same calls.
LEMMA SameLines ==
  ASSUME UNCHANGED line
  PROVE  /\ \A v, m, i, d : At(v, m, i, d)' <=> At(v, m, i, d)
         /\ \A v, d : Listed(v, d)' <=> Listed(v, d)
<1>1. \A v, m, i, d : At(v, m, i, d)' <=> At(v, m, i, d)
  BY Zenon DEF At
<1>2. QED
  BY <1>1, Zenon DEF Listed, GetOpName

\* When the counts do not change, neither do the calls made.
LEMMA SameMade ==
  ASSUME UNCHANGED next
  PROVE  \A v, d : Made(v, d)' <=> Made(v, d)
BY Zenon DEF Made

\* After its next call a worker has made that call too.
LEMMA CallMade ==
  ASSUME TypeOK, NEW w \in Workers, next[w] < Len(Program[w]),
         next' = [next EXCEPT ![w] = @ + 1]
  PROVE  /\ \A d \in Calls : Made(w, d)' <=> Made(w, d) \/ d = Program[w][next[w] + 1]
         /\ \A v \in Workers, d \in Calls : v # w => (Made(v, d)' <=> Made(v, d))
         /\ next' \in [Workers -> Nat]
         /\ next'[w] = next[w] + 1
         /\ \A v \in Workers : next'[v] <= Len(Program[v])
<1>1. next[w] \in Nat /\ next'[w] = next[w] + 1
  BY Zenon DEF TypeOK
<1>2. \A v \in Workers : v # w => next'[v] = next[v]
  BY Zenon DEF TypeOK
<1>3. next' \in [Workers -> Nat]
  BY DEF TypeOK
<1>4. ASSUME NEW v \in Workers PROVE next'[v] <= Len(Program[v])
  <2>1. next[v] <= Len(Program[v]) /\ Len(Program[v]) \in Nat
    BY CallTypes, Zenon DEF TypeOK
  <2>2. CASE v = w
    BY <1>1, <2>1, <2>2
  <2>3. QED
    BY <1>2, <2>1, <2>2, Zenon
<1>5. \A i : i \in 1..(next[w] + 1) <=> i \in 1..next[w] \/ i = next[w] + 1
  BY <1>1
<1>6. \A d \in Calls : Made(w, d)' <=> \E i \in 1..(next[w] + 1) : Program[w][i] = d
  BY <1>1, Zenon DEF Made
<1>7. \A d \in Calls : Made(w, d)' <=> Made(w, d) \/ d = Program[w][next[w] + 1]
  BY <1>5, <1>6, Zenon DEF Made
<1>8. \A v \in Workers, d \in Calls : v # w => (Made(v, d)' <=> Made(v, d))
  BY <1>2, Zenon DEF Made
<1>9. QED
  BY <1>1, <1>3, <1>4, <1>7, <1>8, Zenon

-----------------------------------------------------------------------------
(* Control: threads, handles and phases.                                   *)

\* Initially nothing has been called.
LEMMA InitControl ==
  ASSUME Init
  PROVE  Control
<1>1. \A w \in Workers : next[w] = 0
  BY Zenon DEF Init
<1>2. TypeOK
  <2>1. \A w \in Workers : next[w] <= Len(Program[w])
    <3> TAKE w \in Workers
    <3>1. Len(Program[w]) \in Nat
      BY CallTypes, Zenon
    <3>2. QED
      BY <1>1, <3>1
  <2>2. /\ next \in [Workers -> Nat]
        /\ handle \in [Workers -> [Calls -> {"none", "released"} \cup InFlight]]
        /\ thread \in [Workers -> [Calls -> {"none", "ended"} \cup Busy]]
        /\ phase \in [Workers -> {"up", "stopping", "cleaned"}]
    BY Zenon DEF Init
  <2>3. line \in [Workers -> [Names -> Seq(Calls)]]
    BY DEF Init
  <2>4. summed \in [Workers -> [Calls -> [Workers -> Nat]]]
    BY Zenon DEF Init, NoSum
  <2>5. QED
    BY <2>1, <2>2, <2>3, <2>4, Zenon DEF Init, TypeOK
<1>3. \A w \in Workers, c \in Calls : ~Made(w, c)
  BY <1>1 DEF Made
<1>4. \A w \in Workers, n \in Names : line[w][n] = <<>>
  BY Zenon DEF Init
<1>5. \A w \in Workers, n \in Names, i \in Nat, c \in Calls : ~At(w, n, i, c)
  BY <1>4 DEF At
<1>6. \A w \in Workers, c \in Calls : ~Listed(w, c)
  BY <1>5, CallTypes, Zenon DEF Listed
<1>7. \A w \in Workers : PhaseOK(w)
  BY Zenon DEF Init, PhaseOK
<1>8. \A w \in Workers, c \in Calls : handle[w][c] = "none" /\ thread[w][c] = "none"
  BY Zenon DEF Init
<1>9. \A w \in Workers, c \in Calls : HandleOK(w, c)
  BY <1>3, <1>6, <1>8, Zenon DEF HandleOK, Busy, InFlight
<1>10. QED
  BY <1>2, <1>7, <1>9, Zenon DEF Control, Init

\* A call: its handle is pending, and either it is enqueued or a thread is started.
LEMMA CallControl ==
  ASSUME Control, NEW w \in Workers, DoPushPull(w)
  PROVE  Control'
<1> USE DEF Control
<1>1. PICK c \in Calls :
        /\ c = Program[w][next[w] + 1] /\ next[w] + 1 \in 1..Len(Program[w])
        /\ ~Made(w, c) /\ ~Listed(w, c) /\ next[w] \in Nat
        /\ thread[w][c] \notin Busy /\ phase[w] = "up"
        /\ handle' = [handle EXCEPT ![w][c] = "pending"]
        /\ \/ EnqueueTensor(w, c) /\ UNCHANGED thread
           \/ thread' = [thread EXCEPT ![w][c] = "init"] /\ UNCHANGED line
        /\ next' = [next EXCEPT ![w] = @ + 1]
        /\ UNCHANGED <<suspendAt, summed, phase, resumed, error>>
  BY Call, Zenon
<1>2. /\ \A d \in Calls : Made(w, d)' <=> Made(w, d) \/ d = c
      /\ \A v \in Workers, d \in Calls : v # w => (Made(v, d)' <=> Made(v, d))
      /\ next' \in [Workers -> Nat] /\ next'[w] = next[w] + 1
      /\ \A v \in Workers : next'[v] <= Len(Program[v])
  <2>1. next[w] < Len(Program[w])
    BY <1>1, CallTypes
  <2>2. QED
    BY <1>1, <2>1, CallMade, Zenon
<1>3. /\ handle' \in [Workers -> [Calls -> {"none", "released"} \cup InFlight]]
      /\ handle'[w][c] = "pending"
      /\ \A v \in Workers, d \in Calls : ~(v = w /\ d = c) => handle'[v][d] = handle[v][d]
  BY <1>1 DEF TypeOK, InFlight
<1>4. /\ thread' \in [Workers -> [Calls -> {"none", "ended"} \cup Busy]]
      /\ \A v \in Workers, d \in Calls : ~(v = w /\ d = c) => thread'[v][d] = thread[v][d]
  <2>1. CASE UNCHANGED thread
    BY <2>1, Zenon DEF TypeOK
  <2>2. CASE thread' = [thread EXCEPT ![w][c] = "init"]
    BY <2>2, Zenon DEF TypeOK, Busy
  <2>3. QED
    BY <1>1, <2>1, <2>2, Zenon
<1>5. line' \in [Workers -> [Names -> Seq(Calls)]]
  BY <1>1, Enqueued, Zenon DEF TypeOK
<1>6. TypeOK'
  BY <1>1, <1>2, <1>3, <1>4, <1>5, Zenon DEF TypeOK
<1>7. /\ \A v \in Workers, d \in Calls : ~(v = w /\ d = c) => (Listed(v, d)' <=> Listed(v, d))
      /\ Listed(w, c)' => thread'[w][c] \notin Busy
  <2>1. CASE EnqueueTensor(w, c) /\ UNCHANGED thread
    BY <1>1, <2>1, EnqueuedListed, Zenon
  <2>2. CASE UNCHANGED line
    BY <1>1, <2>2, SameLines, Zenon
  <2>3. QED
    BY <1>1, <2>1, <2>2, Zenon
<1>8. ASSUME NEW v \in Workers, NEW d \in Calls PROVE HandleOK(v, d)'
  <2>1. HandleOK(v, d)
    BY Zenon
  <2>2. CASE v = w /\ d = c
    BY <2>2, <1>1, <1>2, <1>3, <1>7, Zenon DEF HandleOK
  <2>3. CASE ~(v = w /\ d = c)
    <3>1. Made(v, d)' <=> Made(v, d)
      BY <2>3, <1>2, Zenon
    <3>2. /\ handle'[v][d] = handle[v][d] /\ thread'[v][d] = thread[v][d]
          /\ Listed(v, d)' <=> Listed(v, d)
      BY <2>3, <1>3, <1>4, <1>7, Zenon
    <3>3. QED
      BY <2>1, <3>1, <3>2, <1>1, Zenon DEF HandleOK
  <2>4. QED
    BY <2>2, <2>3, Zenon
<1>9. ASSUME NEW v \in Workers PROVE PhaseOK(v)'
  <2>1. next'[v] = next[v] \/ v = w
    BY <1>1, Zenon DEF TypeOK
  <2>2. suspendAt \in Nat /\ PhaseOK(v)
    BY ProgramAssumption, Zenon DEF TypeOK
  <2>3. CASE v = w
    BY <2>2, <2>3, <1>1, <1>2 DEF PhaseOK
  <2>4. CASE v # w
    BY <2>1, <2>2, <2>4, <1>1, Zenon DEF PhaseOK
  <2>5. QED
    BY <2>3, <2>4, Zenon
<1>10. QED
  BY <1>1, <1>6, <1>8, <1>9, Zenon

\* A step of the detached thread: it goes from one place to the next.
LEMMA ThreadControl ==
  ASSUME Control, NEW w \in Workers, NEW c \in Calls,
         InitTensor(w, c) \/ Initialized(w, c) \/ StartTask(w, c)
  PROVE  Control' /\ UNCHANGED <<suspendAt, next, handle, summed, phase, resumed>>
<1> USE DEF Control
<1>1. HandleOK(w, c)
  BY Zenon
<1>2. thread[w][c] \in Busy
  <2>1. thread[w][c] \in {"init", "waiting", "enqueue", "dangling"}
    BY Zenon DEF InitTensor, Initialized, StartTask
  <2>2. thread[w][c] \in {"none", "ended"} \cup Busy
    BY Zenon DEF TypeOK
  <2>3. QED
    BY <2>1, <2>2, Zenon DEF Busy
<1>3. handle[w][c] = "pending" /\ phase[w] = "up" /\ ~Listed(w, c)
  BY <1>1, <1>2, Zenon DEF HandleOK, InFlight
<1>4. UNCHANGED <<suspendAt, next, handle, summed, phase, resumed>>
  BY Zenon DEF InitTensor, Initialized, StartTask
<1>5. /\ thread' \in [Workers -> [Calls -> {"none", "ended"} \cup Busy]]
      /\ \A v \in Workers, d \in Calls : ~(v = w /\ d = c) => thread'[v][d] = thread[v][d]
      /\ thread'[w][c] \in Busy \cup {"ended"}
  <2>1. \E x \in {"enqueue", "waiting", "ended"} : thread' = [thread EXCEPT ![w][c] = x]
    BY Zenon DEF InitTensor, Initialized, StartTask
  <2>2. QED
    BY <2>1 DEF TypeOK, Busy
<1>6. \/ thread'[w][c] = "ended" /\ EnqueueTensor(w, c)
      \/ UNCHANGED line
  <2>1. CASE StartTask(w, c)
    <3>1. thread[w][c] # "dangling" /\ thread' = [thread EXCEPT ![w][c] = "ended"]
      BY <1>2, <2>1, Zenon DEF StartTask, Busy
    <3>2. EnqueueTensor(w, c)
      BY <2>1, <3>1, Zenon DEF StartTask
    <3>3. thread'[w][c] = "ended"
      BY <3>1, Zenon DEF TypeOK
    <3>4. QED
      BY <3>2, <3>3, Zenon
  <2>2. CASE InitTensor(w, c) \/ Initialized(w, c)
    BY <2>2, Zenon DEF InitTensor, Initialized
  <2>3. QED
    BY <2>1, <2>2, Zenon
<1>7. UNCHANGED error
  BY <1>2, Zenon DEF InitTensor, Initialized, StartTask, Busy
<1>8. line' \in [Workers -> [Names -> Seq(Calls)]]
  BY <1>3, <1>6, Enqueued, Zenon DEF TypeOK
<1>9. TypeOK'
  BY <1>4, <1>5, <1>8, Zenon DEF TypeOK
<1>10. /\ \A v \in Workers, d \in Calls : ~(v = w /\ d = c) => (Listed(v, d)' <=> Listed(v, d))
       /\ Listed(w, c)' => thread'[w][c] = "ended"
  BY <1>3, <1>6, EnqueuedListed, SameLines, Zenon
<1>11. ASSUME NEW v \in Workers, NEW d \in Calls PROVE HandleOK(v, d)'
  <2>1. HandleOK(v, d)
    BY Zenon
  <2>2. Made(v, d)' <=> Made(v, d)
    BY <1>4, SameMade, Zenon
  <2>3. CASE v = w /\ d = c
    <3>1. "ended" \notin Busy
      BY Zenon DEF Busy
    <3>2. QED
      BY <2>1, <2>2, <2>3, <3>1, <1>3, <1>4, <1>10, Zenon DEF HandleOK
  <2>4. CASE ~(v = w /\ d = c)
    <3>1. thread'[v][d] = thread[v][d] /\ (Listed(v, d)' <=> Listed(v, d))
      BY <2>4, <1>5, <1>10, Zenon
    <3>2. QED
      BY <2>1, <2>2, <3>1, <1>4, Zenon DEF HandleOK
  <2>5. QED
    BY <2>3, <2>4, Zenon
<1>12. \A v \in Workers : PhaseOK(v)'
  BY <1>4, Zenon DEF PhaseOK
<1>13. QED
  BY <1>4, <1>7, <1>9, <1>11, <1>12, Zenon

\* The handle of a listed call is marked, or a marked one released.
LEMMA HandleControl ==
  ASSUME Control, NEW w \in Workers, NEW c \in Calls,
         Finish(w, c) \/ Synchronize(w, c)
  PROVE  /\ Control'
         /\ UNCHANGED <<suspendAt, next, thread, line, phase, resumed>>
         /\ handle[w][c] \in InFlight /\ handle'[w][c] \in {"done", "released"}
         /\ \A v \in Workers, d \in Calls : ~(v = w /\ d = c) => handle'[v][d] = handle[v][d]
<1> USE DEF Control
<1>1. HandleOK(w, c)
  BY Zenon
<1>2. UNCHANGED <<suspendAt, next, thread, line, phase, resumed>>
  BY Zenon DEF Finish, Synchronize
<1>3. handle[w][c] \in InFlight
  BY Zenon DEF Finish, Synchronize, PollHandle, InFlight
<1>4. thread[w][c] \notin Busy
  <2>1. CASE Finish(w, c)
    <3>1. PICK i \in DOMAIN line[w][GetOpName(c)] : line[w][GetOpName(c)][i] = c
      BY <2>1, Zenon DEF Finish
    <3>2. line[w][GetOpName(c)] \in Seq(Calls)
      BY CallTypes, ZenonT(60) DEF TypeOK
    <3>3. i \in 1..Len(line[w][GetOpName(c)]) /\ i \in Nat
      BY <3>1, <3>2
    <3>4. Listed(w, c)
      BY <3>1, <3>3, Zenon DEF Listed, At
    <3>5. QED
      BY <1>1, <3>4, Zenon DEF HandleOK
  <2>2. CASE Synchronize(w, c)
    BY <1>1, <2>2, Zenon DEF Synchronize, PollHandle, HandleOK
  <2>3. QED
    BY <2>1, <2>2, Zenon
<1>5. phase[w] = "up"
  BY <1>1, <1>3, Zenon DEF HandleOK
<1>6. UNCHANGED error
  BY <1>5, Zenon DEF Finish, Synchronize
<1>7. /\ handle' \in [Workers -> [Calls -> {"none", "released"} \cup InFlight]]
      /\ handle'[w][c] \in {"done", "released"}
      /\ \A v \in Workers, d \in Calls : ~(v = w /\ d = c) => handle'[v][d] = handle[v][d]
  <2>1. \E x \in {"done", "released"} : handle' = [handle EXCEPT ![w][c] = x]
    BY Zenon DEF Finish, Synchronize
  <2>2. QED
    BY <2>1 DEF TypeOK, InFlight
<1>8. summed' \in [Workers -> [Calls -> [Workers -> Nat]]]
  <2>1. CASE Finish(w, c)
    <3>1. PICK n \in Names : n = GetOpName(c)
      BY CallTypes, Zenon
    <3>2. PICK i \in DOMAIN line[w][n] :
            /\ \A v \in Workers : Len(line[v][n]) >= i
            /\ summed' = [summed EXCEPT ![w][c] = [v \in Workers |-> line[v][n][i]]]
      <4>1. \E i \in DOMAIN line[w][GetOpName(c)] :
              /\ \A v \in Workers : Len(line[v][GetOpName(c)]) >= i
              /\ summed' = [summed EXCEPT ![w][c] =
                              [v \in Workers |-> line[v][GetOpName(c)][i]]]
        BY <2>1, Zenon DEF Finish
      <4>2. QED
        BY <3>1, <4>1, ZenonT(60)
    <3>3. \A v \in Workers : line[v][n] \in Seq(Calls)
      BY Zenon DEF TypeOK
    <3>4. i \in 1..Len(line[w][n]) /\ Len(line[w][n]) \in Nat
      BY <3>2, <3>3
    <3>5. ASSUME NEW v \in Workers PROVE line[v][n][i] \in Nat
      <4>1. Len(line[v][n]) \in Nat /\ Len(line[v][n]) >= i /\ line[v][n] \in Seq(Calls)
        BY <3>2, <3>3, LenProperties, Zenon
      <4>2. line[v][n][i] \in Calls
        BY <3>4, <4>1
      <4>3. QED
        BY <4>2, CallTypes, Zenon
    <3>6. [v \in Workers |-> line[v][n][i]] \in [Workers -> Nat]
      BY <3>5, Zenon
    <3>7. QED
      BY <3>2, <3>6, Zenon DEF TypeOK
  <2>2. CASE Synchronize(w, c)
    BY <2>2, Zenon DEF Synchronize, TypeOK
  <2>3. QED
    BY <2>1, <2>2, Zenon
<1>9. TypeOK'
  BY <1>2, <1>7, <1>8, Zenon DEF TypeOK
<1>10. ASSUME NEW v \in Workers, NEW d \in Calls PROVE HandleOK(v, d)'
  <2>1. HandleOK(v, d)
    BY Zenon
  <2>2. (Made(v, d)' <=> Made(v, d)) /\ (Listed(v, d)' <=> Listed(v, d))
    BY <1>2, SameMade, SameLines, Zenon
  <2>3. CASE v = w /\ d = c
    <3>1. handle'[v][d] # "none" /\ handle[v][d] # "none"
      BY <2>3, <1>3, <1>7, Zenon DEF InFlight
    <3>2. QED
      BY <2>1, <2>2, <2>3, <3>1, <1>2, <1>4, <1>5, Zenon DEF HandleOK
  <2>4. CASE ~(v = w /\ d = c)
    <3>1. handle'[v][d] = handle[v][d]
      BY <2>4, <1>7, Zenon
    <3>2. QED
      BY <2>1, <2>2, <3>1, <1>2, Zenon DEF HandleOK
  <2>5. QED
    BY <2>3, <2>4, Zenon
<1>11. \A v \in Workers : PhaseOK(v)'
  BY <1>2, Zenon DEF PhaseOK
<1>12. QED
  BY <1>2, <1>3, <1>6, <1>7, <1>9, <1>10, <1>11, Zenon

\* A worker without handles in flight stops, and deletes its queues.
LEMMA PhaseControl ==
  ASSUME Drain, Control, NEW w \in Workers, Suspend(w) \/ DeleteQueues(w)
  PROVE  Control' /\ UNCHANGED <<suspendAt, next, handle, thread, line, summed, resumed>>
<1> USE DEF Control
<1>1. UNCHANGED <<suspendAt, next, handle, thread, line, summed, resumed, error>>
  BY Zenon DEF Suspend, DeleteQueues
<1>2. /\ phase' \in [Workers -> {"up", "stopping", "cleaned"}]
      /\ \A v \in Workers : v # w => phase'[v] = phase[v]
  <2>1. \E x \in {"stopping", "cleaned"} : phase' = [phase EXCEPT ![w] = x]
    BY Zenon DEF Suspend, DeleteQueues
  <2>2. QED
    BY <2>1, Zenon DEF TypeOK
<1>3. TypeOK'
  BY <1>1, <1>2, Zenon DEF TypeOK
<1>4. ~resumed /\ next[w] = suspendAt
  <2>1. CASE Suspend(w)
    BY <2>1, Zenon DEF Suspend
  <2>2. CASE DeleteQueues(w)
    <3>1. phase[w] # "up"
      BY <2>2, Zenon DEF DeleteQueues
    <3>2. QED
      BY <3>1, Zenon DEF PhaseOK
  <2>3. QED
    BY <2>1, <2>2, Zenon
<1>5. \A c \in Calls : handle[w][c] \notin InFlight
  <2>1. CASE Suspend(w)
    BY <2>1, Zenon DEF Suspend, InFlight
  <2>2. CASE DeleteQueues(w)
    <3>1. phase[w] # "up"
      BY <2>2, Zenon DEF DeleteQueues
    <3>2. QED
      BY <3>1, Zenon DEF HandleOK
  <2>3. QED
    BY <2>1, <2>2, Zenon
<1>6. ASSUME NEW v \in Workers, NEW d \in Calls PROVE HandleOK(v, d)'
  <2>1. HandleOK(v, d)
    BY Zenon
  <2>2. (Made(v, d)' <=> Made(v, d)) /\ (Listed(v, d)' <=> Listed(v, d))
    BY <1>1, SameMade, SameLines, Zenon
  <2>3. handle'[v][d] \in InFlight => phase'[v] = "up"
    BY <2>1, <1>1, <1>2, <1>5, Zenon DEF HandleOK
  <2>4. QED
    BY <2>1, <2>2, <2>3, <1>1, Zenon DEF HandleOK
<1>7. ASSUME NEW v \in Workers PROVE PhaseOK(v)'
  BY <1>1, <1>2, <1>4, Zenon DEF PhaseOK
<1>8. QED
  BY <1>1, <1>3, <1>6, <1>7, Zenon

\* Everything is cleared when no worker has a handle in flight.
LEMMA ResumeControl ==
  ASSUME Control, FinalizeAndResume
  PROVE  /\ Control' /\ UNCHANGED <<suspendAt, next, handle, summed>>
         /\ resumed' /\ \A w \in Workers : next[w] = suspendAt
         /\ \A w \in Workers, c \in Calls : handle[w][c] \notin InFlight /\ ~Listed(w, c)'
         /\ \A w \in Workers, n \in Names, i \in Nat, c \in Calls : ~At(w, n, i, c)'
<1> USE DEF Control
<1>1. UNCHANGED <<suspendAt, next, handle, summed, error>> /\ resumed'
  BY Zenon DEF FinalizeAndResume
<1>2. \A w \in Workers : phase[w] # "up"
  <2>1. \A w \in Workers : phase[w] = "cleaned"
    BY Zenon DEF FinalizeAndResume
  <2>2. QED
    BY <2>1, Zenon
<1>3. \A w \in Workers : next[w] = suspendAt
  BY <1>2, Zenon DEF PhaseOK
<1>4. \A w \in Workers, c \in Calls : handle[w][c] \notin InFlight /\ thread[w][c] \notin Busy
  <2> TAKE w \in Workers, c \in Calls
  <2>1. HandleOK(w, c)
    BY Zenon
  <2>2. "pending" \in InFlight
    BY Zenon DEF InFlight
  <2>3. QED
    BY <2>1, <2>2, <1>2, Zenon DEF HandleOK
<1>5. thread' = [w \in Workers |-> [c \in Calls |->
                    IF thread[w][c] = "none" THEN "none"
                    ELSE IF thread[w][c] = "ended" THEN "ended" ELSE "dangling"]]
  BY Zenon DEF FinalizeAndResume
<1>6. \A w \in Workers, c \in Calls : thread'[w][c] \in {"none", "ended"}
  <2> TAKE w \in Workers, c \in Calls
  <2>1. thread[w][c] \in {"none", "ended"}
    <3>1. thread[w][c] \in {"none", "ended"} \cup Busy
      BY Zenon DEF TypeOK
    <3>2. QED
      BY <3>1, <1>4, Zenon
  <2>2. QED
    BY <2>1, <1>5, Zenon
<1>7. thread' \in [Workers -> [Calls -> {"none", "ended"} \cup Busy]]
  <2>1. thread' = [w \in Workers |-> [c \in Calls |-> thread'[w][c]]]
    BY <1>5, Zenon
  <2>2. QED
    BY <2>1, <1>6, Zenon
<1>8. /\ line' = [w \in Workers |-> [n \in Names |-> <<>>]]
      /\ phase' = [w \in Workers |-> "up"]
  BY Zenon DEF FinalizeAndResume
<1>9. /\ line' \in [Workers -> [Names -> Seq(Calls)]]
      /\ phase' \in [Workers -> {"up", "stopping", "cleaned"}]
      /\ \A w \in Workers : phase'[w] = "up"
  BY <1>8
<1>10. \A w \in Workers, n \in Names, i \in Nat, c \in Calls : ~At(w, n, i, c)'
  BY <1>8 DEF At
<1>11. \A w \in Workers, c \in Calls : ~Listed(w, c)'
  <2> TAKE w \in Workers, c \in Calls
  <2>1. PICK n \in Names : n = GetOpName(c)
    BY CallTypes, Zenon
  <2>2. Listed(w, c)' <=> \E i \in Nat : At(w, n, i, c)'
    BY <2>1, Zenon DEF Listed
  <2>3. QED
    BY <2>2, <1>10, Zenon
<1>12. TypeOK'
  BY <1>1, <1>7, <1>9, Zenon DEF TypeOK
<1>13. ASSUME NEW w \in Workers, NEW c \in Calls PROVE HandleOK(w, c)'
  <2>1. thread'[w][c] \notin Busy
    <3>1. thread'[w][c] \in {"none", "ended"}
      BY <1>6, Zenon
    <3>2. QED
      BY <3>1, Zenon DEF Busy
  <2>2. Made(w, c)' <=> Made(w, c)
    BY <1>1, SameMade, Zenon
  <2>3. QED
    BY <2>1, <2>2, <1>1, <1>9, <1>11, Zenon DEF HandleOK
<1>14. ASSUME NEW w \in Workers PROVE PhaseOK(w)'
  <2>1. suspendAt' <= next'[w]
    BY <1>1, <1>3, ProgramAssumption DEF TypeOK
  <2>2. QED
    BY <2>1, <1>9, Zenon DEF PhaseOK
<1>15. QED
  BY <1>1, <1>3, <1>4, <1>10, <1>11, <1>12, <1>13, <1>14, Zenon

\* Every step keeps threads, handles and phases in agreement.
LEMMA ControlStep ==
  ASSUME Drain, Control, Step
  PROVE  Control'
BY CallControl, ThreadControl, HandleControl, PhaseControl, ResumeControl, Zenon
   DEF Step, CallNext

-----------------------------------------------------------------------------
(* Lines: their order, and the agreement of workers.                       *)

\* Calls of one name are calls of one line.
LEMMA SameName ==
  ASSUME Ordered, NEW c \in Calls, NEW d \in Calls
  PROVE  GetOpName(c) = GetOpName(d) <=> NameOf[c] = NameOf[d]
BY Zenon DEF Ordered, GetOpName

\* All workers agree on which calls were made since the last resume.
LEMMA SameCurrent ==
  ASSUME Ordered, TypeOK, NEW v \in Workers, NEW w \in Workers, NEW c
  PROVE  Current(v, c) <=> Current(w, c)
BY Zenon DEF Ordered, TypeOK, Current

\* A worker makes the calls of a name in order.
LEMMA Earlier ==
  ASSUME Ordered, TypeOK, NEW w \in Workers, NEW c \in Calls, NEW d \in Calls,
         NameOf[c] = NameOf[d], c < d, NEW k \in Nat,
         k \in 1..Len(Program[w]), Program[w][k] = d
  PROVE  \E i \in 1..Len(Program[w]) : i < k /\ Program[w][i] = c
<1>1. PICK i \in 1..Len(Program[w]) : Program[w][i] = c
  BY Zenon DEF Ordered
<1>2. c \in Nat /\ d \in Nat
  BY CallTypes, Zenon
<1>3. i # k
  BY <1>1, <1>2
<1>4. ~(k < i)
  <2>1. k < i => d < c
    BY <1>1, Zenon DEF Ordered
  <2>2. QED
    BY <2>1, <1>2
<1>5. i < k
  BY <1>3, <1>4
<1>6. QED
  BY <1>1, <1>5, Zenon

\* So a call is made after the earlier ones of its name.
LEMMA EarlierMade ==
  ASSUME Ordered, TypeOK, NEW w \in Workers, NEW c \in Calls, NEW d \in Calls,
         NameOf[c] = NameOf[d], c < d, Made(w, d)
  PROVE  Made(w, c)
<1>1. PICK k \in 1..next[w] : Program[w][k] = d
  BY Zenon DEF Made
<1>2. next[w] \in Nat /\ next[w] <= Len(Program[w]) /\ Len(Program[w]) \in Nat
  BY CallTypes, Zenon DEF TypeOK
<1>3. k \in Nat /\ k \in 1..Len(Program[w])
  BY <1>2
<1>4. PICK i \in 1..Len(Program[w]) : i < k /\ Program[w][i] = c
  BY <1>1, <1>3, Earlier, ZenonT(60)
<1>5. i \in 1..next[w]
  BY <1>2, <1>4
<1>6. QED
  BY <1>4, <1>5, Zenon DEF Made

\* A listed call is at one place of a line, after the earlier ones of its name.
LEMMA Closed ==
  ASSUME Ordered, Control, Latest, Members,
         NEW v \in Workers, NEW c \in Calls, NEW d \in Calls,
         NameOf[c] = NameOf[d], c < d, Listed(v, d), Current(v, c)
  PROVE  Listed(v, c)
<1> USE DEF Control
<1>1. HandleOK(v, c) /\ HandleOK(v, d)
  BY Zenon
<1>2. handle[v][d] # "none" /\ Made(v, d)
  BY <1>1, Zenon DEF HandleOK
<1>3. Made(v, c)
  BY <1>2, EarlierMade, Zenon
<1>4. handle[v][c] # "none"
  BY <1>1, <1>3, Zenon DEF HandleOK
<1>5. thread[v][c] \notin Busy
  <2>1. ASSUME handle[v][c] = "pending" PROVE FALSE
    <3>1. d <= c
      <4>1. handle[v][c] \in InFlight
        BY <2>1, Zenon DEF InFlight
      <4>2. QED
        BY <4>1, <1>2, Zenon DEF Latest
    <3>2. c \in Nat /\ d \in Nat
      BY CallTypes, Zenon
    <3>3. QED
      BY <3>1, <3>2
  <2>2. QED
    BY <2>1, <1>1, Zenon DEF HandleOK
<1>6. QED
  BY <1>4, <1>5, Zenon DEF Members

\* A place of a line follows other places.
LEMMA Below ==
  ASSUME TypeOK, NEW v \in Workers, NEW n \in Names, NEW k \in Nat, NEW b,
         At(v, n, k, b), NEW j \in Nat, 1 <= j, j < k
  PROVE  \E e \in Calls : At(v, n, j, e)
<1> DEFINE s == line[v][n]
<1>1. s \in Seq(Calls)
  BY Zenon DEF TypeOK
<1>2. k \in 1..Len(s)
  BY Zenon DEF At
<1> HIDE DEF s
<1>3. j \in 1..Len(s) /\ s[j] \in Calls
  BY <1>1, <1>2
<1>4. QED
  BY <1>3, Zenon DEF At, s

\* A call may be enqueued when it is current, and the earlier ones of its name,
\* and only those, have been made and are with no thread.
MayEnqueue(w, c) ==
    /\ phase[w] = "up" /\ ~Listed(w, c) /\ Current(w, c)
    /\ \A d \in Calls : NameOf[d] = NameOf[c] =>
         /\ d < c => handle[w][d] # "none" /\ thread[w][d] \notin Busy
         /\ handle[w][d] # "none" /\ d # c => d < c

\* Then another worker that has as many calls of that name in its line has the
\* same one there.
LEMMA OthersAgree ==
  ASSUME Ordered, Control, Latest, Members, Sorted, Paired,
         NEW w \in Workers, NEW c \in Calls, MayEnqueue(w, c),
         NEW k \in Nat, Grows(w, c, k),
         NEW v \in Workers, NEW b \in Calls, At(v, GetOpName(c), k, b)
  PROVE  b = c
<1> USE DEF Control
<1>1. PICK n \in Names : n = GetOpName(c)
  BY CallTypes, Zenon
<1>2. At(v, n, k, b) /\ GetOpName(b) = n
  BY <1>1, Zenon DEF Members
<1>3. NameOf[b] = NameOf[c] /\ b \in Nat /\ c \in Nat
  BY <1>1, <1>2, SameName, CallTypes, Zenon
<1>4. Listed(v, b)
  BY <1>2, Zenon DEF Listed
<1>5. ASSUME b < c PROVE FALSE
  <2>1. handle[w][b] # "none" /\ thread[w][b] \notin Busy
    BY <1>3, <1>5, Zenon DEF MayEnqueue
  <2>2. Current(w, b)
    BY <1>4, SameCurrent, Zenon DEF Members
  <2>3. Listed(w, b)
    BY <2>1, <2>2, Zenon DEF Members
  <2>4. PICK j \in Nat : At(w, n, j, b)
    BY <2>3, <1>2, Zenon DEF Listed
  <2>5. j < k
    BY <2>4, <1>1, Zenon DEF Grows
  <2>6. 1 <= j
    BY <2>4 DEF At
  <2>7. PICK e \in Calls : At(v, n, j, e)
    BY <2>5, <2>6, <1>2, Below, Zenon
  <2>8. e = b
    BY <2>4, <2>7, Zenon DEF Paired
  <2>9. e < b
    BY <2>5, <2>7, <1>2, Zenon DEF Sorted
  <2>10. QED
    BY <2>8, <2>9, <1>3
<1>6. ASSUME c < b PROVE FALSE
  <2>1. Current(v, c)
    BY SameCurrent, Zenon DEF MayEnqueue
  <2>2. Listed(v, c)
    BY <2>1, <1>3, <1>4, <1>6, Closed, Zenon
  <2>3. PICK j \in Nat : At(v, n, j, c)
    BY <2>2, <1>1, Zenon DEF Listed
  <2>4. j < k
    <3>1. j # k
      <4>1. j = k => b = c
        BY <2>3, <1>2, Zenon DEF Paired
      <4>2. QED
        BY <4>1, <1>3, <1>6
    <3>2. ~(k < j)
      <4>1. k < j => b < c
        BY <2>3, <1>2, Zenon DEF Sorted
      <4>2. QED
        BY <4>1, <1>3, <1>6
    <3>3. QED
      BY <3>1, <3>2
  <2>5. 1 <= j
    BY <2>3 DEF At
  <2>6. PICK e \in Calls : At(w, n, j, e)
    BY <2>4, <2>5, <1>1, Zenon DEF Grows
  <2>7. e = c
    BY <2>3, <2>6, Zenon DEF Paired
  <2>8. Listed(w, c)
    BY <2>6, <2>7, <1>1, Zenon DEF Listed
  <2>9. QED
    BY <2>8, Zenon DEF MayEnqueue
<1>7. QED
  BY <1>3, <1>5, <1>6

\* Lines stay sorted and in agreement when a call is enqueued.
LEMMA EnqueueLines ==
  ASSUME Ordered, Control, Latest, Members, Sorted, Paired,
         NEW w \in Workers, NEW c \in Calls, MayEnqueue(w, c), EnqueueTensor(w, c)
  PROVE  /\ Sorted' /\ Paired'
         /\ \A v \in Workers, n \in Names, i \in Nat, d \in Calls :
              At(v, n, i, d)' => GetOpName(d) = n
<1> USE DEF Control
<1>1. PICK k \in Nat : Grows(w, c, k)
  <2>1. phase[w] = "up"
    BY Zenon DEF MayEnqueue
  <2>2. QED
    BY <2>1, Enqueued, Zenon
<1>2. \A v \in Workers, n \in Names, i \in Nat, d \in Calls :
        At(v, n, i, d)' => GetOpName(d) = n
  <2> TAKE v \in Workers, n \in Names, i \in Nat, d \in Calls
  <2>1. At(v, n, i, d)' => At(v, n, i, d) \/ (n = GetOpName(c) /\ d = c)
    BY <1>1, Zenon DEF Grows
  <2>2. At(v, n, i, d) => GetOpName(d) = n
    BY Zenon DEF Members
  <2>3. QED
    BY <2>1, <2>2, Zenon
<1>3. ASSUME NEW v \in Workers, NEW n \in Names, NEW i \in Nat, NEW j \in Nat,
             NEW a \in Calls, NEW b \in Calls,
             At(v, n, i, a)', At(v, n, j, b)', i < j
      PROVE  a < b
  <2>1. CASE At(v, n, i, a) /\ At(v, n, j, b)
    BY <2>1, <1>3, Zenon DEF Sorted
  <2>2. CASE ~At(v, n, j, b)
    <3>1. v = w /\ n = GetOpName(c) /\ j = k /\ b = c
      BY <2>2, <1>1, <1>3, Zenon DEF Grows
    <3>2. At(w, GetOpName(c), i, a)
      <4>1. i # k
        BY <3>1, <1>3
      <4>2. QED
        BY <3>1, <4>1, <1>1, <1>3, Zenon DEF Grows
    <3>3. GetOpName(a) = GetOpName(c)
      BY <3>1, <3>2, Zenon DEF Members
    <3>4. Listed(w, a)
      BY <3>2, <3>3, Zenon DEF Listed
    <3>5. handle[w][a] # "none" /\ a # c
      BY <3>4, Zenon DEF HandleOK, MayEnqueue
    <3>6. QED
      BY <3>1, <3>3, <3>5, SameName, Zenon DEF MayEnqueue
  <2>3. CASE ~At(v, n, i, a)
    <3>1. v = w /\ n = GetOpName(c) /\ i = k
      BY <2>3, <1>1, <1>3, Zenon DEF Grows
    <3>2. At(w, GetOpName(c), j, b) \/ j = k
      BY <3>1, <1>1, <1>3, Zenon DEF Grows
    <3>3. j < k \/ j = k
      BY <3>2, <1>1, Zenon DEF Grows
    <3>4. QED
      BY <3>1, <3>3, <1>3
  <2>4. QED
    BY <2>1, <2>2, <2>3, Zenon
<1>4. ASSUME NEW v \in Workers, NEW n \in Names, NEW i \in Nat,
             NEW a \in Calls, NEW b \in Calls, At(v, n, i, a)', At(w, n, i, b)', ~At(w, n, i, b)
      PROVE  a = b
  <2>1. n = GetOpName(c) /\ i = k /\ b = c
    BY <1>1, <1>4, Zenon DEF Grows
  <2>2. CASE At(v, n, i, a)
    BY <2>1, <2>2, <1>1, OthersAgree, Zenon
  <2>3. CASE ~At(v, n, i, a)
    BY <2>1, <2>3, <1>1, <1>4, Zenon DEF Grows
  <2>4. QED
    BY <2>2, <2>3, Zenon
<1>5. ASSUME NEW u \in Workers, NEW v \in Workers, NEW n \in Names, NEW i \in Nat,
             NEW a \in Calls, NEW b \in Calls, At(u, n, i, a)', At(v, n, i, b)'
      PROVE  a = b
  <2>1. CASE At(u, n, i, a) /\ At(v, n, i, b)
    BY <2>1, Zenon DEF Paired
  <2>2. CASE ~At(u, n, i, a)
    <3>1. u = w
      BY <2>2, <1>1, <1>5, Zenon DEF Grows
    <3>2. QED
      BY <2>2, <3>1, <1>4, <1>5, Zenon
  <2>3. CASE ~At(v, n, i, b)
    <3>1. v = w
      BY <2>3, <1>1, <1>5, Zenon DEF Grows
    <3>2. QED
      BY <2>3, <3>1, <1>4, <1>5, Zenon
  <2>4. QED
    BY <2>1, <2>2, <2>3, Zenon
<1>6. Sorted'
  BY <1>3, Zenon DEF Sorted
<1>7. Paired'
  BY <1>5, Zenon DEF Paired
<1>8. QED
  BY <1>2, <1>6, <1>7, Zenon

-----------------------------------------------------------------------------
(* The steps.                                                              *)

\* Whether a call is current does not change between resumes.
LEMMA CurrentKept ==
  ASSUME UNCHANGED <<suspendAt, resumed>>
  PROVE  \A v, d : Current(v, d)' <=> Current(v, d)
BY Zenon DEF Current, MadeFirst

\* Lines that do not change stay in order.
LEMMA KeptLines ==
  ASSUME UNCHANGED line, Members, Sorted, Paired
  PROVE  /\ Sorted' /\ Paired'
         /\ \A v \in Workers, n \in Names, i \in Nat, d \in Calls :
              At(v, n, i, d)' => GetOpName(d) = n
<1> USE SameLines
<1>1. Sorted'
  <2> SUFFICES ASSUME NEW w \in Workers, NEW n \in Names, NEW i \in Nat, NEW j \in Nat,
                      NEW c \in Calls, NEW d \in Calls,
                      At(w, n, i, c)', At(w, n, j, d)', i < j
               PROVE  c < d
    BY Zenon DEF Sorted
  <2>1. At(w, n, i, c) /\ At(w, n, j, d)
    BY Zenon
  <2>2. QED
    BY <2>1, Zenon DEF Sorted
<1>2. Paired'
  <2> SUFFICES ASSUME NEW v \in Workers, NEW w \in Workers, NEW n \in Names, NEW i \in Nat,
                      NEW c \in Calls, NEW d \in Calls, At(v, n, i, c)', At(w, n, i, d)'
               PROVE  c = d
    BY Zenon DEF Paired
  <2>1. At(v, n, i, c) /\ At(w, n, i, d)
    BY Zenon
  <2>2. QED
    BY <2>1, Zenon DEF Paired
<1>3. \A v \in Workers, n \in Names, i \in Nat, d \in Calls :
        At(v, n, i, d)' => GetOpName(d) = n
  BY Zenon DEF Members
<1>4. QED
  BY <1>1, <1>2, <1>3, Zenon

\* A call leaves every result as it was.
LEMMA CallPairing ==
  ASSUME Ordered, Inv, NEW w \in Workers, DoPushPull(w)
  PROVE  Inv'
<1> USE DEF Inv
<1>1. PICK c \in Calls :
        /\ c = Program[w][next[w] + 1] /\ next[w] + 1 \in 1..Len(Program[w])
        /\ next[w] \in Nat
        /\ ~Made(w, c) /\ ~Listed(w, c)
        /\ handle[w][c] = "none" /\ thread[w][c] \notin Busy
        /\ ProgramAllows(w, c) /\ phase[w] = "up"
        /\ handle' = [handle EXCEPT ![w][c] = "pending"]
        /\ \/ EnqueueTensor(w, c) /\ UNCHANGED thread
           \/ thread' = [thread EXCEPT ![w][c] = "init"] /\ UNCHANGED line
        /\ next' = [next EXCEPT ![w] = @ + 1]
        /\ UNCHANGED <<suspendAt, summed, phase, resumed, error>>
  BY Call, Zenon
<1>2. TypeOK /\ c \in Nat /\ \A d \in Calls : HandleOK(w, d)
  BY CallTypes, Zenon DEF Control
<1>3. /\ handle'[w][c] = "pending"
      /\ \A v \in Workers, d \in Calls : ~(v = w /\ d = c) => handle'[v][d] = handle[v][d]
  BY <1>1, <1>2, ZenonT(60) DEF TypeOK
<1>4. /\ \A v \in Workers, d \in Calls : ~(v = w /\ d = c) => thread'[v][d] = thread[v][d]
      /\ \/ EnqueueTensor(w, c)
         \/ thread'[w][c] \in Busy /\ UNCHANGED line
  <2>1. CASE EnqueueTensor(w, c) /\ UNCHANGED thread
    BY <2>1, Zenon
  <2>2. CASE thread' = [thread EXCEPT ![w][c] = "init"] /\ UNCHANGED line
    BY <2>2, <1>2, Zenon DEF TypeOK, Busy
  <2>3. QED
    BY <2>1, <2>2, <1>1, Zenon
<1>5. Current(w, c)
  <2>1. SUFFICES ASSUME resumed, c \in MadeFirst(w, suspendAt) PROVE FALSE
    BY Zenon DEF Current
  <2>2. PICK i \in 1..Len(Program[w]) : i <= suspendAt /\ Program[w][i] = c
    BY <2>1, Zenon DEF MadeFirst
  <2>3. suspendAt <= next[w]
    BY <2>1, Zenon DEF Control, PhaseOK
  <2>4. suspendAt \in Nat
    BY <1>2, ProgramAssumption, Zenon DEF TypeOK
  <2>5. i \in 1..next[w]
    BY <2>2, <2>3, <2>4, <1>1
  <2>6. QED
    BY <2>2, <2>5, <1>1, Zenon DEF Made
<1>6. ASSUME NEW d \in Calls, NameOf[d] = NameOf[c]
      PROVE  /\ handle[w][d] \notin InFlight /\ thread[w][d] \notin Busy
             /\ d < c => handle[w][d] # "none"
             /\ handle[w][d] # "none" => d < c
  <2>1. NameOf[c] # ""
    BY Zenon DEF Ordered
  <2>2. handle[w][d] # "pending" /\ handle[w][d] # "done"
    BY <2>1, <1>1, <1>6, Zenon DEF ProgramAllows
  <2>3. handle[w][d] \notin InFlight /\ thread[w][d] \notin Busy
    BY <2>2, <1>2, Zenon DEF InFlight, HandleOK
  <2>4. ASSUME d < c PROVE handle[w][d] # "none"
    <3>1. PICK i \in 1..Len(Program[w]) : i < next[w] + 1 /\ Program[w][i] = d
      <4>1. PICK k \in Nat : k = next[w] + 1
        BY <1>1
      <4>2. k \in 1..Len(Program[w]) /\ Program[w][k] = c
        BY <4>1, <1>1, Zenon
      <4>3. \E i \in 1..Len(Program[w]) : i < k /\ Program[w][i] = d
        <5>1. TypeOK
          BY <1>2, Zenon
        <5>2. QED
          BY <5>1, <4>2, <1>6, <2>4, Earlier, ZenonT(60)
      <4>4. QED
        BY <4>1, <4>3, Zenon
    <3>2. i \in 1..next[w]
      BY <3>1, <1>1
    <3>3. Made(w, d)
      BY <3>1, <3>2, Zenon DEF Made
    <3>4. QED
      BY <3>3, <1>2, Zenon DEF HandleOK
  <2>5. ASSUME handle[w][d] # "none" PROVE d < c
    <3>1. Made(w, d)
      BY <2>5, <1>2, Zenon DEF HandleOK
    <3>2. PICK i \in 1..next[w] : Program[w][i] = d
      BY <3>1, Zenon DEF Made
    <3>3. i \in 1..Len(Program[w]) /\ i < next[w] + 1
      BY <3>2, <1>1
    <3>4. QED
      BY <3>2, <3>3, <1>1, <1>6, Zenon DEF Ordered
  <2>6. QED
    BY <2>3, <2>4, <2>5, Zenon
<1>7. MayEnqueue(w, c)
  BY <1>1, <1>5, <1>6, Zenon DEF MayEnqueue
<1>8. \A v, d : Current(v, d)' <=> Current(v, d)
  BY <1>1, CurrentKept, Zenon
<1>9. Latest'
  <2> SUFFICES ASSUME NEW v \in Workers, NEW e \in Calls, handle'[v][e] \in InFlight
               PROVE  /\ Current(v, e)'
                      /\ \A d \in Calls : NameOf[d] = NameOf[e] /\ handle'[v][d] # "none" => d <= e
    BY Zenon DEF Latest
  <2>1. CASE v = w /\ e = c
    <3>1. \A d \in Calls : NameOf[d] = NameOf[c] /\ handle'[w][d] # "none" => d = c \/ d < c
      BY <1>3, <1>6, Zenon
    <3>2. \A d \in Calls : d = c \/ d < c => d <= c
      BY <1>2, CallTypes
    <3>3. QED
      BY <2>1, <3>1, <3>2, <1>5, <1>8, Zenon
  <2>2. CASE ~(v = w /\ e = c)
    <3>1. handle[v][e] \in InFlight
      BY <2>2, <1>3, Zenon
    <3>2. \A d \in Calls : NameOf[d] = NameOf[e] => ~(v = w /\ d = c)
      BY <3>1, <1>6, Zenon
    <3>3. /\ Current(v, e)
          /\ \A d \in Calls : NameOf[d] = NameOf[e] /\ handle[v][d] # "none" => d <= e
      BY <3>1, Zenon DEF Latest
    <3>4. \A d \in Calls : NameOf[d] = NameOf[e] => handle'[v][d] = handle[v][d]
      BY <3>2, <1>3, Zenon
    <3>5. QED
      BY <3>3, <3>4, <1>8, Zenon
  <2>3. QED
    BY <2>1, <2>2, Zenon
<1>10. Members' /\ Sorted' /\ Paired'
  <2>1. CASE EnqueueTensor(w, c)
    <3>1. /\ Sorted' /\ Paired'
          /\ \A v \in Workers, n \in Names, i \in Nat, d \in Calls :
               At(v, n, i, d)' => GetOpName(d) = n
      BY <1>7, <2>1, EnqueueLines, Zenon
    <3>2. \A v \in Workers, d \in Calls : Listed(v, d)' <=> Listed(v, d) \/ (v = w /\ d = c)
      <4>1. phase[w] = "up"
        BY <1>1, Zenon
      <4>2. QED
        BY <4>1, <1>2, <2>1, EnqueuedListed, Zenon
    <3>3. ASSUME NEW v \in Workers, NEW d \in Calls
          PROVE  /\ Listed(v, d)' => Current(v, d)'
                 /\ handle'[v][d] # "none" /\ thread'[v][d] \notin Busy /\ Current(v, d)'
                      => Listed(v, d)'
      <4>1. CASE v = w /\ d = c
        BY <4>1, <3>2, <1>5, <1>8, Zenon
      <4>2. CASE ~(v = w /\ d = c)
        BY <4>2, <3>2, <1>3, <1>4, <1>8, Zenon DEF Members
      <4>3. QED
        BY <4>1, <4>2, Zenon
    <3>4. Members'
      BY <3>1, <3>3, Zenon DEF Members
    <3>5. QED
      BY <3>1, <3>4, Zenon
  <2>2. CASE thread'[w][c] \in Busy /\ UNCHANGED line
    <3>1. /\ \A v, m, i, d : At(v, m, i, d)' <=> At(v, m, i, d)
          /\ \A v, d : Listed(v, d)' <=> Listed(v, d)
      BY <2>2, SameLines, Zenon
    <3>2. ASSUME NEW v \in Workers, NEW d \in Calls
          PROVE  /\ Listed(v, d)' => Current(v, d)'
                 /\ handle'[v][d] # "none" /\ thread'[v][d] \notin Busy /\ Current(v, d)'
                      => Listed(v, d)'
      BY <3>1, <2>2, <1>3, <1>4, <1>8, Zenon DEF Members
    <3>3. Members'
      BY <3>2, <2>2, KeptLines, Zenon DEF Members
    <3>4. Sorted' /\ Paired'
      BY <2>2, KeptLines, Zenon
    <3>5. QED
      BY <3>3, <3>4, Zenon
  <2>3. QED
    BY <2>1, <2>2, <1>4, Zenon
<1>11. CallsPairUp'
  <2> SUFFICES ASSUME NEW v \in Workers, NEW d \in Calls, handle'[v][d] \in {"done", "released"}
               PROVE  summed'[v][d] = [u \in Workers |-> d]
    BY Zenon DEF CallsPairUp
  <2>1. ~(v = w /\ d = c)
    BY <1>3, Zenon
  <2>2. QED
    BY <2>1, <1>1, <1>3, Zenon DEF CallsPairUp
<1>12. QED
  BY <1>9, <1>10, <1>11, CallControl, Zenon

\* The handles, and so their order, stay as they are.
LEMMA KeptHandles ==
  ASSUME Latest, CallsPairUp, UNCHANGED <<suspendAt, handle, summed, resumed>>
  PROVE  Latest' /\ CallsPairUp'
<1>1. \A v, d : Current(v, d)' <=> Current(v, d)
  BY CurrentKept, Zenon
<1>2. Latest'
  <2> SUFFICES ASSUME NEW v \in Workers, NEW e \in Calls, handle[v][e] \in InFlight
               PROVE  /\ Current(v, e)'
                      /\ \A d \in Calls : NameOf[d] = NameOf[e] /\ handle[v][d] # "none" => d <= e
    BY Zenon DEF Latest
  <2>1. QED
    BY <1>1, Zenon DEF Latest
<1>3. CallsPairUp'
  BY Zenon DEF CallsPairUp
<1>4. QED
  BY <1>2, <1>3, Zenon

\* The detached thread enqueues its call, the latest of its name.
LEMMA ThreadPairing ==
  ASSUME Ordered, Inv, NEW w \in Workers, NEW c \in Calls,
         InitTensor(w, c) \/ Initialized(w, c) \/ StartTask(w, c)
  PROVE  Inv'
<1> USE DEF Inv
<1>1. Control' /\ UNCHANGED <<suspendAt, next, handle, summed, phase, resumed>>
  BY ThreadControl, Zenon
<1>2. Latest' /\ CallsPairUp'
  BY <1>1, KeptHandles, Zenon
<1>3. TypeOK /\ \A d \in Calls : HandleOK(w, d)
  BY Zenon DEF Control
<1>4. thread[w][c] \in Busy
  <2>1. thread[w][c] \in {"init", "waiting", "enqueue", "dangling"}
    BY Zenon DEF InitTensor, Initialized, StartTask
  <2>2. thread[w][c] \in {"none", "ended"} \cup Busy
    BY <1>3, Zenon DEF TypeOK
  <2>3. QED
    BY <2>1, <2>2, Zenon DEF Busy
<1>5. handle[w][c] = "pending" /\ phase[w] = "up" /\ ~Listed(w, c) /\ handle[w][c] \in InFlight
  BY <1>3, <1>4, Zenon DEF HandleOK, InFlight
<1>6. \A v, d : Current(v, d)' <=> Current(v, d)
  BY <1>1, CurrentKept, Zenon
<1>7. \A v \in Workers, d \in Calls : ~(v = w /\ d = c) => thread'[v][d] = thread[v][d]
  <2>1. \E x \in {"enqueue", "waiting", "ended"} : thread' = [thread EXCEPT ![w][c] = x]
    BY Zenon DEF InitTensor, Initialized, StartTask
  <2>2. QED
    BY <2>1, <1>3 DEF TypeOK
<1>8. CASE InitTensor(w, c) \/ Initialized(w, c)
  <2>1. UNCHANGED line
    BY <1>8, Zenon DEF InitTensor, Initialized
  <2>2. thread'[w][c] \in Busy
    <3>1. \E x \in {"enqueue", "waiting"} : thread' = [thread EXCEPT ![w][c] = x]
      BY <1>8, Zenon DEF InitTensor, Initialized
    <3>2. QED
      BY <3>1, <1>3 DEF TypeOK, Busy
  <2>3. ASSUME NEW v \in Workers, NEW d \in Calls
        PROVE  /\ Listed(v, d)' => Current(v, d)'
               /\ handle'[v][d] # "none" /\ thread'[v][d] \notin Busy /\ Current(v, d)'
                    => Listed(v, d)'
    <3>1. Listed(v, d)' <=> Listed(v, d)
      BY <2>1, SameLines, Zenon
    <3>2. thread'[v][d] \notin Busy => thread[v][d] \notin Busy
      BY <2>2, <1>7, Zenon
    <3>3. QED
      BY <3>1, <3>2, <1>1, <1>6, Zenon DEF Members
  <2>4. Members'
    BY <2>1, <2>3, KeptLines, Zenon DEF Members
  <2>5. QED
    BY <2>1, <2>4, <1>1, <1>2, KeptLines, Zenon
<1>9. CASE StartTask(w, c)
  <2>1. EnqueueTensor(w, c)
    <3>1. thread[w][c] # "dangling"
      BY <1>4, Zenon DEF Busy
    <3>2. QED
      BY <3>1, <1>9, Zenon DEF StartTask
  <2>2. MayEnqueue(w, c)
    <3>1. Current(w, c)
      BY <1>5, Zenon DEF Latest
    <3>2. ASSUME NEW d \in Calls, NameOf[d] = NameOf[c]
          PROVE  /\ d < c => handle[w][d] # "none" /\ thread[w][d] \notin Busy
                 /\ handle[w][d] # "none" /\ d # c => d < c
      <4>1. c \in Nat /\ d \in Nat
        BY CallTypes, Zenon
      <4>2. handle[w][d] # "none" => d <= c
        BY <1>5, <3>2, Zenon DEF Latest
      <4>3. handle[w][d] \in InFlight => c <= d
        <5>1. handle[w][c] # "none"
          BY <1>5, Zenon
        <5>2. QED
          BY <5>1, <3>2, Zenon DEF Latest
      <4>4. thread[w][d] \in Busy => handle[w][d] \in InFlight
        <5>1. thread[w][d] \in Busy => handle[w][d] = "pending"
          BY <1>3, Zenon DEF HandleOK
        <5>2. QED
          BY <5>1, Zenon DEF InFlight
      <4>5. ASSUME d < c PROVE handle[w][d] # "none"
        <5>1. Made(w, c)
          BY <1>3, <1>5, Zenon DEF HandleOK
        <5>2. Made(w, d)
          BY <5>1, <4>5, <3>2, <1>3, EarlierMade, Zenon
        <5>3. QED
          BY <5>2, <1>3, Zenon DEF HandleOK
      <4>6. d < c => ~(c <= d)
        BY <4>1
      <4>7. d <= c /\ d # c => d < c
        BY <4>1
      <4>8. QED
        BY <4>2, <4>3, <4>4, <4>5, <4>6, <4>7, Zenon
    <3>3. QED
      BY <3>1, <3>2, <1>5, Zenon DEF MayEnqueue
  <2>3. /\ Sorted' /\ Paired'
        /\ \A v \in Workers, n \in Names, i \in Nat, d \in Calls :
             At(v, n, i, d)' => GetOpName(d) = n
    BY <2>1, <2>2, EnqueueLines, Zenon
  <2>4. \A v \in Workers, d \in Calls : Listed(v, d)' <=> Listed(v, d) \/ (v = w /\ d = c)
    BY <2>1, <1>3, <1>5, EnqueuedListed, Zenon
  <2>5. ASSUME NEW v \in Workers, NEW d \in Calls
        PROVE  /\ Listed(v, d)' => Current(v, d)'
               /\ handle'[v][d] # "none" /\ thread'[v][d] \notin Busy /\ Current(v, d)'
                    => Listed(v, d)'
    <3>1. CASE v = w /\ d = c
      BY <3>1, <2>2, <2>4, <1>6, Zenon DEF MayEnqueue
    <3>2. CASE ~(v = w /\ d = c)
      BY <3>2, <2>4, <1>1, <1>6, <1>7, Zenon DEF Members
    <3>3. QED
      BY <3>1, <3>2, Zenon
  <2>6. Members'
    BY <2>3, <2>5, Zenon DEF Members
  <2>7. QED
    BY <2>3, <2>6, <1>1, <1>2, Zenon
<1>10. QED
  BY <1>8, <1>9, Zenon

\* A result is the sum of what stands at one place of every worker's line.
LEMMA HandlePairing ==
  ASSUME Ordered, Inv, NEW w \in Workers, NEW c \in Calls,
         Finish(w, c) \/ Synchronize(w, c)
  PROVE  Inv'
<1> USE DEF Inv
<1>1. /\ Control'
      /\ UNCHANGED <<suspendAt, next, thread, line, phase, resumed>>
      /\ handle[w][c] \in InFlight /\ handle'[w][c] \in {"done", "released"}
      /\ \A v \in Workers, d \in Calls : ~(v = w /\ d = c) => handle'[v][d] = handle[v][d]
  BY HandleControl, Zenon
<1>2. \A v, d : Current(v, d)' <=> Current(v, d)
  BY <1>1, CurrentKept, Zenon
<1>3. \A v \in Workers, d \in Calls :
        /\ handle'[v][d] # "none" <=> handle[v][d] # "none"
        /\ handle'[v][d] \in InFlight => handle[v][d] \in InFlight
  <2>1. handle'[w][c] # "none" /\ handle[w][c] # "none"
    BY <1>1, Zenon DEF InFlight
  <2>2. QED
    BY <2>1, <1>1, Zenon
<1>4. Latest'
  <2> SUFFICES ASSUME NEW v \in Workers, NEW e \in Calls, handle'[v][e] \in InFlight
               PROVE  /\ Current(v, e)'
                      /\ \A d \in Calls : NameOf[d] = NameOf[e] /\ handle'[v][d] # "none" => d <= e
    BY Zenon DEF Latest
  <2>1. handle[v][e] \in InFlight
    BY <1>3, Zenon
  <2>2. /\ Current(v, e)
        /\ \A d \in Calls : NameOf[d] = NameOf[e] /\ handle[v][d] # "none" => d <= e
    BY <2>1, Zenon DEF Latest
  <2>3. QED
    BY <2>2, <1>2, <1>3, Zenon
<1>5. ASSUME NEW v \in Workers, NEW d \in Calls
      PROVE  /\ Listed(v, d)' => Current(v, d)'
             /\ handle'[v][d] # "none" /\ thread'[v][d] \notin Busy /\ Current(v, d)'
                  => Listed(v, d)'
  <2>1. Listed(v, d)' <=> Listed(v, d)
    BY <1>1, SameLines, Zenon
  <2>2. QED
    BY <2>1, <1>1, <1>2, <1>3, Zenon DEF Members
<1>6. Members'
  BY <1>1, <1>5, KeptLines, Zenon DEF Members
<1>7. CallsPairUp'
  <2>1. /\ summed'[w][c] = [u \in Workers |-> c]
        /\ \A v \in Workers, d \in Calls : ~(v = w /\ d = c) => summed'[v][d] = summed[v][d]
    <3>1. CASE Finish(w, c)
      <4>1. PICK n \in Names : n = GetOpName(c)
        BY CallTypes, Zenon
      <4>2. PICK i \in DOMAIN line[w][n] :
              /\ line[w][n][i] = c
              /\ \A v \in Workers : Len(line[v][n]) >= i
              /\ summed' = [summed EXCEPT ![w][c] = [v \in Workers |-> line[v][n][i]]]
        <5>1. \E i \in DOMAIN line[w][GetOpName(c)] :
                /\ line[w][GetOpName(c)][i] = c
                /\ \A v \in Workers : Len(line[v][GetOpName(c)]) >= i
                /\ summed' = [summed EXCEPT ![w][c] =
                                [v \in Workers |-> line[v][GetOpName(c)][i]]]
          BY <3>1, Zenon DEF Finish
        <5>2. QED
          BY <4>1, <5>1, Zenon
      <4>3. TypeOK /\ \A v \in Workers : line[v][n] \in Seq(Calls)
        BY Zenon DEF Control, TypeOK
      <4>4. i \in 1..Len(line[w][n]) /\ i \in Nat
        BY <4>2, <4>3
      <4>5. At(w, n, i, c)
        BY <4>2, <4>4, Zenon DEF At
      <4>6. ASSUME NEW v \in Workers PROVE line[v][n][i] = c
        <5>1. Len(line[v][n]) \in Nat /\ Len(line[v][n]) >= i /\ line[v][n] \in Seq(Calls)
          BY <4>2, <4>3, LenProperties, Zenon
        <5>2. i \in 1..Len(line[v][n]) /\ line[v][n][i] \in Calls
          BY <4>4, <5>1
        <5>3. At(v, n, i, line[v][n][i])
          BY <5>2, Zenon DEF At
        <5>4. QED
          BY <4>4, <4>5, <5>2, <5>3, Zenon DEF Paired
      <4>7. [v \in Workers |-> line[v][n][i]] = [v \in Workers |-> c]
        BY <4>6, Zenon
      <4>8. summed' = [summed EXCEPT ![w][c] = [v \in Workers |-> c]]
        BY <4>2, <4>7, Zenon
      <4>9. QED
        BY <4>8, <4>3, Zenon DEF TypeOK
    <3>2. CASE Synchronize(w, c)
      <4>1. UNCHANGED summed /\ handle[w][c] = "done"
        BY <3>2, Zenon DEF Synchronize, PollHandle
      <4>2. QED
        BY <4>1, Zenon DEF CallsPairUp
    <3>3. QED
      BY <3>1, <3>2, Zenon
  <2> SUFFICES ASSUME NEW v \in Workers, NEW d \in Calls, handle'[v][d] \in {"done", "released"}
               PROVE  summed'[v][d] = [u \in Workers |-> d]
    BY Zenon DEF CallsPairUp
  <2>2. CASE v = w /\ d = c
    BY <2>1, <2>2, Zenon
  <2>3. CASE ~(v = w /\ d = c)
    <3>1. handle[v][d] \in {"done", "released"} /\ summed'[v][d] = summed[v][d]
      BY <2>1, <2>3, <1>1, Zenon
    <3>2. QED
      BY <3>1, Zenon DEF CallsPairUp
  <2>4. QED
    BY <2>2, <2>3, Zenon
<1>8. QED
  BY <1>1, <1>4, <1>6, <1>7, KeptLines, Zenon

\* Suspending changes nothing that pairs calls up.
LEMMA PhasePairing ==
  ASSUME Drain, Inv, NEW w \in Workers, Suspend(w) \/ DeleteQueues(w)
  PROVE  Inv'
<1> USE DEF Inv
<1>1. Control' /\ UNCHANGED <<suspendAt, next, handle, thread, line, summed, resumed>>
  BY PhaseControl, Zenon
<1>2. Latest' /\ CallsPairUp'
  BY <1>1, KeptHandles, Zenon
<1>3. ASSUME NEW v \in Workers, NEW d \in Calls
      PROVE  /\ Listed(v, d)' => Current(v, d)'
             /\ handle'[v][d] # "none" /\ thread'[v][d] \notin Busy /\ Current(v, d)'
                  => Listed(v, d)'
  <2>1. (Listed(v, d)' <=> Listed(v, d)) /\ (Current(v, d)' <=> Current(v, d))
    BY <1>1, SameLines, CurrentKept, Zenon
  <2>2. QED
    BY <2>1, <1>1, Zenon DEF Members
<1>4. Members'
  BY <1>1, <1>3, KeptLines, Zenon DEF Members
<1>5. QED
  BY <1>1, <1>2, <1>4, KeptLines, Zenon

\* After a resume the lines are empty, and no call made so far is current.
LEMMA ResumePairing ==
  ASSUME Ordered, Inv, FinalizeAndResume
  PROVE  Inv'
<1> USE DEF Inv
<1>1. /\ Control' /\ UNCHANGED <<suspendAt, next, handle, summed>>
      /\ resumed' /\ \A w \in Workers : next[w] = suspendAt
      /\ \A w \in Workers, c \in Calls : handle[w][c] \notin InFlight /\ ~Listed(w, c)'
      /\ \A w \in Workers, n \in Names, i \in Nat, c \in Calls : ~At(w, n, i, c)'
  BY ResumeControl, Zenon
<1>2. ASSUME NEW w \in Workers, NEW c \in Calls, handle[w][c] # "none" PROVE ~Current(w, c)'
  <2>1. HandleOK(w, c) /\ next[w] \in Nat /\ next[w] <= Len(Program[w]) /\ Len(Program[w]) \in Nat
    BY CallTypes, Zenon DEF Control, TypeOK
  <2>2. PICK i \in 1..next[w] : Program[w][i] = c
    BY <2>1, <1>2, Zenon DEF HandleOK, Made
  <2>3. i \in 1..Len(Program[w]) /\ i <= next[w]
    BY <2>1, <2>2
  <2>4. c \in MadeFirst(w, suspendAt)
    BY <2>2, <2>3, <1>1, Zenon DEF MadeFirst
  <2>5. c \in MadeFirst(w, suspendAt')
    BY <2>4, <1>1, Zenon
  <2>6. QED
    BY <2>5, <1>1, Zenon DEF Current
<1>3. Members'
  BY <1>1, <1>2, Zenon DEF Members
<1>4. Sorted' /\ Paired'
  BY <1>1, Zenon DEF Sorted, Paired
<1>5. Latest'
  BY <1>1, Zenon DEF Latest
<1>6. CallsPairUp'
  BY <1>1, Zenon DEF CallsPairUp
<1>7. QED
  BY <1>1, <1>3, <1>4, <1>5, <1>6, Zenon

\* Initially there are neither calls nor lines.
LEMMA InitInv ==
  ASSUME Init
  PROVE  Inv
<1>1. Control
  BY InitControl, Zenon
<1>2. \A w \in Workers, c \in Calls : handle[w][c] = "none"
  BY Zenon DEF Init
<1>3. \A w \in Workers, n \in Names : line[w][n] = <<>>
  BY Zenon DEF Init
<1>4. \A w \in Workers, n \in Names, i \in Nat, c \in Calls : ~At(w, n, i, c)
  BY <1>3 DEF At
<1>5. \A w \in Workers, c \in Calls : ~Listed(w, c)
  BY <1>4, CallTypes, Zenon DEF Listed
<1>6. Members
  BY <1>2, <1>4, <1>5, Zenon DEF Members
<1>7. Sorted /\ Paired
  BY <1>4, Zenon DEF Sorted, Paired
<1>8. Latest /\ CallsPairUp
  BY <1>2, Zenon DEF Latest, CallsPairUp, InFlight
<1>9. QED
  BY <1>1, <1>6, <1>7, <1>8, Zenon DEF Inv

\* The invariants are about these variables only.
LEMMA NoStep ==
  ASSUME UNCHANGED vars
  PROVE  (Control => Control') /\ (Inv => Inv')
<1>1. UNCHANGED <<suspendAt, next, handle, thread, line, summed, phase, resumed, error>>
  BY Zenon DEF vars
<1>2. ASSUME Control PROVE Control'
  <2>1. TypeOK'
    BY <1>1, <1>2, Zenon DEF Control, TypeOK
  <2>2. ASSUME NEW v \in Workers, NEW d \in Calls PROVE HandleOK(v, d)'
    <3>1. (Made(v, d)' <=> Made(v, d)) /\ (Listed(v, d)' <=> Listed(v, d)) /\ HandleOK(v, d)
      BY <1>1, <1>2, SameMade, SameLines, Zenon DEF Control
    <3>2. QED
      BY <3>1, <1>1, Zenon DEF HandleOK
  <2>3. \A v \in Workers : PhaseOK(v)'
    BY <1>1, <1>2, Zenon DEF Control, PhaseOK
  <2>4. QED
    BY <1>1, <1>2, <2>1, <2>2, <2>3, Zenon DEF Control
<1>3. ASSUME Inv PROVE Inv'
  <2> USE <1>3 DEF Inv
  <2>1. Latest' /\ CallsPairUp'
    BY <1>1, KeptHandles, Zenon
  <2>2. ASSUME NEW v \in Workers, NEW d \in Calls
        PROVE  /\ Listed(v, d)' => Current(v, d)'
               /\ handle'[v][d] # "none" /\ thread'[v][d] \notin Busy /\ Current(v, d)'
                    => Listed(v, d)'
    <3>1. (Listed(v, d)' <=> Listed(v, d)) /\ (Current(v, d)' <=> Current(v, d))
      BY <1>1, SameLines, CurrentKept, Zenon
    <3>2. QED
      BY <3>1, <1>1, Zenon DEF Members
  <2>3. Members'
    BY <1>1, <2>2, KeptLines, Zenon DEF Members
  <2>4. QED
    BY <1>1, <1>2, <2>1, <2>3, KeptLines, Zenon
<1>4. QED
  BY <1>2, <1>3, Zenon

-----------------------------------------------------------------------------

\* When workers synchronize their handles before they suspend, threads, handles
\* and phases agree in every reachable state, whatever the workers call.
THEOREM HandleInvariant ==
  ASSUME Drain
  PROVE  Spec => []Control
<1>1. Init => Control
  BY InitControl, Zenon
<1>2. Control /\ [Next]_vars => Control'
  BY ControlStep, NoStep, Zenon DEF Next, Step
<1>3. QED
  BY <1>1, <1>2, PTL DEF Spec

\* Under the same condition no thread uses a queue or a context that Shutdown
\* has deleted.
THEOREM NothingOutlivesShutdown ==
  ASSUME Drain
  PROVE  Spec => []NoUseAfterShutdown
<1>1. Control => NoUseAfterShutdown
  BY Zenon DEF Control, NoUseAfterShutdown
<1>2. QED
  BY <1>1, HandleInvariant, PTL

\* If the workers also make the calls of each name in the same order, and suspend
\* after the same calls, the inductive invariant of the lines holds.
THEOREM PairingInvariant ==
  ASSUME Drain, Ordered
  PROVE  Spec => []Inv
<1>1. Init => Inv
  BY InitInv, Zenon
<1>2. Inv /\ [Next]_vars => Inv'
  BY CallPairing, ThreadPairing, HandlePairing, PhasePairing, ResumePairing, NoStep, Zenon
     DEF Next, CallNext
<1>3. QED
  BY <1>1, <1>2, PTL DEF Spec

\* Then what push_pull returns is the sum of the same call of every worker, before
\* and after a suspend, however calls of other names interleave.
THEOREM EveryCallPairsUp ==
  ASSUME Drain, Ordered
  PROVE  Spec => []CallsPairUp
<1>1. Inv => CallsPairUp
  BY Zenon DEF Inv
<1>2. QED
  BY <1>1, PairingInvariant, PTL

====
