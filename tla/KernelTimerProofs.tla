-------------------------- MODULE KernelTimerProofs --------------------------
(* The list of timers and the calls that work on it, for any number of     *)
(* timers and threads, any periods and any wrap of the tick.               *)
EXTENDS KernelTimer, SequenceTheorems, TLAPS

(* The list holds no timer twice. *)
Injective(s) == \A i, j \in DOMAIN s : s[i] = s[j] => i = j

LEMMA RangeIs ==
  ASSUME NEW S, NEW s \in Seq(S), NEW x
  PROVE  x \in Range(s) <=> \E i \in 1 .. Len(s) : s[i] = x
  BY DEF Range

LEMMA InjectiveIs ==
  ASSUME NEW S, NEW s \in Seq(S)
  PROVE  Injective(s) <=>
           \A i, j \in 1 .. Len(s) : i < j => s[i] # s[j]
<1>1. DOMAIN s = 1 .. Len(s)
  OBVIOUS
<1>2. ASSUME Injective(s)
      PROVE  \A i, j \in 1 .. Len(s) : i < j => s[i] # s[j]
  BY <1>1, <1>2 DEF Injective
<1>3. ASSUME \A i, j \in 1 .. Len(s) : i < j => s[i] # s[j]
      PROVE  Injective(s)
  <2> SUFFICES ASSUME NEW i \in 1 .. Len(s), NEW j \in 1 .. Len(s), i # j
               PROVE  s[i] # s[j]
    BY <1>1 DEF Injective
  <2>1. i < j \/ j < i
    OBVIOUS
  <2> QED
    BY <2>1, <1>3
<1> QED
  BY <1>2, <1>3

(* What RemoveAt and InsertAt do to the elements of a sequence. *)
LEMMA RemoveAtIs ==
  ASSUME NEW S, NEW s \in Seq(S), NEW k \in 1 .. Len(s)
  PROVE  /\ RemoveAt(s, k) \in Seq(S)
         /\ Len(RemoveAt(s, k)) = Len(s) - 1
         /\ \A i \in 1 .. Len(RemoveAt(s, k)) :
              RemoveAt(s, k)[i] = IF i < k THEN s[i] ELSE s[i + 1]
<1> DEFINE r == RemoveAt(s, k)
           front == SubSeq(s, 1, k - 1)
           rest == SubSeq(s, k + 1, Len(s))
<1>1. /\ front \in Seq(S) /\ Len(front) = k - 1
      /\ \A i \in 1 .. k - 1 : front[i] = s[i]
  OBVIOUS
<1>2. /\ rest \in Seq(S) /\ Len(rest) = Len(s) - k
      /\ \A i \in 1 .. Len(s) - k : rest[i] = s[k + i]
  OBVIOUS
<1>3. r = front \o rest
  BY DEF RemoveAt
<1> HIDE DEF front, rest, r
<1>4. r \in Seq(S) /\ Len(r) = Len(s) - 1
  BY <1>1, <1>2, <1>3
<1>5. \A i \in 1 .. Len(r) : r[i] = IF i < k THEN s[i] ELSE s[i + 1]
  <2> TAKE i \in 1 .. Len(r)
  <2>1. CASE i < k
    BY <2>1, <1>1, <1>2, <1>3, <1>4
  <2>2. CASE i >= k
    <3>1. r[i] = rest[i - k + 1]
      BY <2>2, <1>1, <1>2, <1>3, <1>4
    <3>2. i - k + 1 \in 1 .. Len(s) - k /\ k + (i - k + 1) = i + 1
      BY <2>2, <1>4
    <3>3. rest[i - k + 1] = s[k + (i - k + 1)]
      BY <3>2, <1>2
    <3>4. r[i] = s[i + 1] /\ ~(i < k)
      BY <3>1, <3>2, <3>3, <2>2
    <3> QED
      BY <3>4
  <2> QED
    BY <2>1, <2>2, <1>4
<1> QED
  BY <1>4, <1>5 DEF r

LEMMA RemovedAt ==
  ASSUME NEW S, NEW s \in Seq(S), Injective(s), NEW k \in 1 .. Len(s)
  PROVE  /\ RemoveAt(s, k) \in Seq(S)
         /\ Injective(RemoveAt(s, k))
         /\ \A x : x \in Range(RemoveAt(s, k)) <=> x \in Range(s) /\ x # s[k]
<1> DEFINE r == RemoveAt(s, k)
<1>4. r \in Seq(S) /\ Len(r) = Len(s) - 1
  BY RemoveAtIs
<1>5. \A i \in 1 .. Len(r) : r[i] = IF i < k THEN s[i] ELSE s[i + 1]
  BY RemoveAtIs
<1> HIDE DEF r
<1>6. Injective(r)
  <2> DEFINE At(i) == IF i < k THEN i ELSE i + 1
  <2>1. \A i, j \in 1 .. Len(r) :
          i < j => /\ At(i) \in 1 .. Len(s) /\ At(j) \in 1 .. Len(s)
                   /\ At(i) < At(j)
    BY <1>4
  <2>2. \A i \in 1 .. Len(r) : r[i] = s[At(i)]
    BY <1>4, <1>5
  <2> HIDE DEF At
  <2>3. \A i, j \in 1 .. Len(s) : i < j => s[i] # s[j]
    BY InjectiveIs
  <2>4. \A i, j \in 1 .. Len(r) : i < j => r[i] # r[j]
    BY <2>1, <2>2, <2>3
  <2> QED
    BY <2>4, <1>4, InjectiveIs
<1>7. ASSUME NEW x PROVE x \in Range(r) <=> x \in Range(s) /\ x # s[k]
  <2>1. ASSUME NEW i \in 1 .. Len(r), r[i] = x
        PROVE  x \in Range(s) /\ x # s[k]
    <3> DEFINE j == IF i < k THEN i ELSE i + 1
    <3>1. j \in 1 .. Len(s) /\ j # k /\ s[j] = x
      BY <2>1, <1>4, <1>5
    <3> QED
      BY <3>1, RangeIs DEF Injective
  <2>2. ASSUME NEW j \in 1 .. Len(s), s[j] = x, j # k
        PROVE  x \in Range(r)
    <3>1. CASE j < k
      BY <3>1, <2>2, <1>4, <1>5, RangeIs
    <3>2. CASE j > k
      <4>1. j - 1 \in 1 .. Len(r) /\ r[j - 1] = x
        BY <3>2, <2>2, <1>4, <1>5
      <4> QED
        BY <4>1, <1>4, RangeIs
    <3> QED
      BY <3>1, <3>2, <2>2
  <2> QED
    BY <2>1, <2>2, <1>4, RangeIs
<1> QED
  BY <1>4, <1>6, <1>7 DEF r

LEMMA InsertAtIs ==
  ASSUME NEW S, NEW s \in Seq(S), NEW t \in S, NEW k \in 1 .. Len(s) + 1
  PROVE  /\ InsertAt(s, k, t) \in Seq(S)
         /\ Len(InsertAt(s, k, t)) = Len(s) + 1
         /\ \A i \in 1 .. Len(InsertAt(s, k, t)) :
              InsertAt(s, k, t)[i] =
                IF i < k THEN s[i] ELSE IF i = k THEN t ELSE s[i - 1]
<1> DEFINE r == InsertAt(s, k, t)
<1>1. /\ SubSeq(s, 1, k - 1) \in Seq(S)
      /\ SubSeq(s, k, Len(s)) \in Seq(S)
      /\ <<t>> \in Seq(S)
  OBVIOUS
<1>2. /\ Len(SubSeq(s, 1, k - 1)) = k - 1
      /\ Len(SubSeq(s, k, Len(s))) = Len(s) - k + 1
  OBVIOUS
<1>3. /\ \A i \in 1 .. k - 1 : SubSeq(s, 1, k - 1)[i] = s[i]
      /\ \A i \in 1 .. Len(s) - k + 1 :
           SubSeq(s, k, Len(s))[i] = s[k + i - 1]
  OBVIOUS
<1> DEFINE front == SubSeq(s, 1, k - 1) \o <<t>>
<1>f. /\ front \in Seq(S) /\ Len(front) = k
      /\ \A i \in 1 .. k : front[i] = IF i < k THEN s[i] ELSE t
  BY <1>1, <1>2, <1>3
<1>r. r = front \o SubSeq(s, k, Len(s))
  BY DEF InsertAt
<1> HIDE DEF front
<1>4. r \in Seq(S) /\ Len(r) = Len(s) + 1
  BY <1>1, <1>2, <1>f, <1>r
<1>5. \A i \in 1 .. Len(r) :
        r[i] = IF i < k THEN s[i] ELSE IF i = k THEN t ELSE s[i - 1]
  BY <1>1, <1>2, <1>3, <1>4, <1>f, <1>r
<1> HIDE DEF r
<1> QED
  BY <1>4, <1>5 DEF r

LEMMA InsertedAt ==
  ASSUME NEW S, NEW s \in Seq(S), Injective(s), NEW t \in S,
         t \notin Range(s), NEW k \in 1 .. Len(s) + 1
  PROVE  /\ InsertAt(s, k, t) \in Seq(S)
         /\ Injective(InsertAt(s, k, t))
         /\ \A x : x \in Range(InsertAt(s, k, t)) <=> x \in Range(s) \/ x = t
<1> DEFINE r == InsertAt(s, k, t)
<1>4. r \in Seq(S) /\ Len(r) = Len(s) + 1
  BY InsertAtIs
<1>5. \A i \in 1 .. Len(r) :
        r[i] = IF i < k THEN s[i] ELSE IF i = k THEN t ELSE s[i - 1]
  BY InsertAtIs
<1> HIDE DEF r
<1>6. \A i \in 1 .. Len(s) : s[i] # t
  BY RangeIs
<1>7. Injective(r)
  <2> SUFFICES ASSUME NEW i \in 1 .. Len(r), NEW j \in 1 .. Len(r),
                      i < j, r[i] = r[j]
               PROVE  FALSE
    BY <1>4, InjectiveIs
  <2>1. CASE j < k
    BY <2>1, <1>4, <1>5 DEF Injective
  <2>2. CASE j = k
    BY <2>2, <1>4, <1>5, <1>6
  <2>3. CASE j > k /\ i = k
    BY <2>3, <1>4, <1>5, <1>6
  <2>4. CASE j > k /\ i < k
    <3>1. r[i] = s[i] /\ r[j] = s[j - 1]
      BY <2>4, <1>4, <1>5
    <3>2. i \in 1 .. Len(s) /\ j - 1 \in 1 .. Len(s) /\ i < j - 1
      BY <2>4, <1>4
    <3> QED
      BY <3>1, <3>2, InjectiveIs
  <2>5. CASE j > k /\ i > k
    BY <2>5, <1>4, <1>5 DEF Injective
  <2> QED
    BY <2>1, <2>2, <2>3, <2>4, <2>5, <1>4
<1>8. ASSUME NEW x PROVE x \in Range(r) <=> x \in Range(s) \/ x = t
  <2>1. ASSUME NEW i \in 1 .. Len(r), r[i] = x
        PROVE  x \in Range(s) \/ x = t
    <3>1. CASE i < k
      BY <3>1, <2>1, <1>4, <1>5, RangeIs
    <3>2. CASE i = k
      BY <3>2, <2>1, <1>4, <1>5
    <3>3. CASE i > k
      <4>1. i - 1 \in 1 .. Len(s) /\ s[i - 1] = x
        BY <3>3, <2>1, <1>4, <1>5
      <4> QED
        BY <4>1, RangeIs
    <3> QED
      BY <3>1, <3>2, <3>3
  <2>2. ASSUME NEW j \in 1 .. Len(s), s[j] = x PROVE x \in Range(r)
    <3>1. CASE j < k
      BY <3>1, <2>2, <1>4, <1>5, RangeIs
    <3>2. CASE j >= k
      <4>1. j + 1 \in 1 .. Len(r) /\ r[j + 1] = x
        BY <3>2, <2>2, <1>4, <1>5
      <4> QED
        BY <4>1, <1>4, RangeIs
    <3> QED
      BY <3>1, <3>2, <2>2
  <2>3. t \in Range(r)
    BY <1>4, <1>5, RangeIs
  <2> QED
    BY <2>1, <2>2, <2>3, <1>4, RangeIs
<1> QED
  BY <1>4, <1>7, <1>8 DEF r

LEMMA Suffix ==
  ASSUME NEW S, NEW s \in Seq(S), Injective(s), NEW n \in 0 .. Len(s)
  PROVE  LET r == SubSeq(s, n + 1, Len(s)) IN
         /\ r \in Seq(S)
         /\ Injective(r)
         /\ \A x : x \in Range(r) <=>
                     x \in Range(s) /\ \A i \in 1 .. n : s[i] # x
<1> DEFINE r == SubSeq(s, n + 1, Len(s))
<1>1. /\ r \in Seq(S) /\ Len(r) = Len(s) - n
      /\ \A i \in 1 .. Len(s) - n : r[i] = s[n + i]
  OBVIOUS
<1>2. \A i \in 1 .. Len(r) : r[i] = s[n + i]
  BY <1>1
<1> HIDE DEF r
<1>3. Injective(r)
  <2>1. \A i, j \in 1 .. Len(r) :
          i < j => n + i \in 1 .. Len(s) /\ n + j \in 1 .. Len(s)
                   /\ n + i < n + j
    BY <1>1
  <2>2. \A i, j \in 1 .. Len(s) : i < j => s[i] # s[j]
    BY InjectiveIs
  <2>3. \A i, j \in 1 .. Len(r) : i < j => r[i] # r[j]
    BY <2>1, <2>2, <1>2
  <2> QED
    BY <2>3, <1>1, InjectiveIs
<1>4. ASSUME NEW x
      PROVE  x \in Range(r) <=> x \in Range(s) /\ \A i \in 1 .. n : s[i] # x
  <2>1. ASSUME NEW i \in 1 .. Len(r), r[i] = x
        PROVE  x \in Range(s) /\ \A j \in 1 .. n : s[j] # x
    <3>1. n + i \in 1 .. Len(s) /\ s[n + i] = x
      BY <2>1, <1>1, <1>2
    <3> QED
      BY <3>1, RangeIs DEF Injective
  <2>2. ASSUME NEW j \in 1 .. Len(s), s[j] = x, j > n PROVE x \in Range(r)
    <3>1. j - n \in 1 .. Len(r) /\ r[j - n] = x
      BY <2>2, <1>1, <1>2
    <3> QED
      BY <3>1, <1>1, RangeIs
  <2> QED
    <3>1. ASSUME x \in Range(r)
          PROVE  x \in Range(s) /\ \A i \in 1 .. n : s[i] # x
      BY <3>1, <2>1, <1>1, RangeIs
    <3>2. ASSUME x \in Range(s), \A i \in 1 .. n : s[i] # x
          PROVE  x \in Range(r)
      <4>1. PICK j \in 1 .. Len(s) : s[j] = x
        BY <3>2, RangeIs
      <4> QED
        BY <4>1, <3>2, <2>2
    <3> QED
      BY <3>1, <3>2
<1> QED
  BY <1>1, <1>3, <1>4 DEF r

-----------------------------------------------------------------------------
LEMMA ModInRange ==
  ASSUME NEW x \in Int PROVE x % TickMod \in 0 .. TickMod - 1
BY TimerAssumption

LEMMA PeriodIsNat == ASSUME NEW m \in Modes PROVE Period[m] \in Nat
BY TimerAssumption

LEMMA ModeOfTimer ==
  ASSUME NEW t \in Timers, NEW m \in ModesOf[t] PROVE m \in Modes
BY TimerAssumption

(* A thread in a call, and its timer. *)
Working(th, t) == call[th] # Out /\ call[th].timer = t

LEMMA CallFields ==
  ASSUME TypeOK, NEW th \in Threads, NEW step \in Steps, Runs(th, step)
  PROVE  /\ call[th] \in [step : Steps, timer : Timers, ticks : Nat]
         /\ call[th].timer \in Timers /\ call[th].ticks \in Nat
         /\ call[th] # Out /\ call[th].step = step
BY DEF TypeOK, Runs, Calls, Out, Steps

LEMMA MovedCall ==
  ASSUME TypeOK, NEW th \in Threads, NEW step \in Steps, Runs(th, step),
         NEW next \in Steps, Goes(th, next)
  PROVE  /\ call' \in [Threads -> Calls]
         /\ call'[th].step = next /\ call'[th] # Out
         /\ call'[th].timer = call[th].timer
         /\ call'[th].ticks = call[th].ticks
         /\ \A o \in Threads \ {th} : call'[o] = call[o]
<1>1. call[th] \in [step : Steps, timer : Timers, ticks : Nat]
  BY CallFields
<1>2. call'[th] = [call[th] EXCEPT !.step = next]
  BY DEF Goes, TypeOK
<1>3. call'[th] \in [step : Steps, timer : Timers, ticks : Nat]
  BY <1>1, <1>2
<1>4. call' \in [Threads -> Calls]
  BY <1>3 DEF Goes, TypeOK, Calls
<1>5. call'[th].step = next /\ call'[th].timer = call[th].timer
      /\ call'[th].ticks = call[th].ticks
  BY <1>1, <1>2
<1>6. call'[th] # Out
  BY <1>5 DEF Out, Steps
<1>7. \A o \in Threads \ {th} : call'[o] = call[o]
  BY DEF Goes, TypeOK
<1> QED
  BY <1>4, <1>5, <1>6, <1>7

LEMMA ReturnedCall ==
  ASSUME TypeOK, NEW th \in Threads, Returns(th)
  PROVE  /\ call' \in [Threads -> Calls] /\ call'[th] = Out
         /\ \A o \in Threads \ {th} : call'[o] = call[o]
BY DEF Returns, TypeOK, Calls

(* What removing and inserting a timer does to the list. *)
LEMMA ListUnlinked ==
  ASSUME list \in Seq(Timers), Injective(list), NEW t \in Timers
  PROVE  /\ Unlinked(t) \in Seq(Timers) /\ Injective(Unlinked(t))
         /\ \A u : u \in Range(Unlinked(t)) <=> Linked(u) /\ u # t
<1>1. CASE Linked(t)
  <2> DEFINE k == CHOOSE i \in DOMAIN list : list[i] = t
  <2>1. \E i \in DOMAIN list : list[i] = t
    BY <1>1 DEF Linked, Range
  <2>2. k \in DOMAIN list /\ list[k] = t
    BY <2>1
  <2>3. k \in 1 .. Len(list)
    BY <2>2
  <2>4. Unlinked(t) = RemoveAt(list, k)
    BY <1>1 DEF Unlinked
  <2> HIDE DEF k
  <2> QED
    BY <2>2, <2>3, <2>4, RemovedAt DEF Linked
<1>2. CASE ~Linked(t)
  BY <1>2 DEF Unlinked, Linked
<1> QED
  BY <1>1, <1>2

LEMMA ListInserted ==
  ASSUME NEW seq \in Seq(Timers), Injective(seq), NEW t \in Timers,
         t \notin Range(seq), NEW d, InsertedInto(seq, t, d)
  PROVE  /\ list' \in Seq(Timers) /\ Injective(list')
         /\ \A u : u \in Range(list') <=> u \in Range(seq) \/ u = t
<1>1. PICK place \in 1 .. Len(seq) + 1 : list' = InsertAt(seq, place, t)
  BY DEF InsertedInto
<1> QED
  BY <1>1, InsertedAt

-----------------------------------------------------------------------------
(* Every variable has its type, and no timer is in the list twice. *)
ListInv == TypeOK /\ Injective(list)

LEMMA EmptyList ==
  ASSUME list = <<>>
  PROVE  list \in Seq(Timers) /\ Injective(list) /\ \A t : ~Linked(t)
<1>1. list \in Seq(Timers) /\ Len(list) = 0
  BY EmptySeq
<1>2. 1 .. Len(list) = {}
  BY <1>1
<1>3. DOMAIN list = {}
  BY <1>1, <1>2
<1>4. Injective(list)
  BY <1>3 DEF Injective
<1>5. ASSUME NEW t PROVE ~Linked(t)
  BY <1>3 DEF Linked, Range
<1> QED
  BY <1>1, <1>4, <1>5

LEMMA ListInvInit == Init => ListInv
<1> SUFFICES ASSUME Init PROVE ListInv
  OBVIOUS
<1>1. tick \in 0 .. TickMod - 1 /\ checking \in BOOLEAN
  <2>1. tick = 0 /\ checking = FALSE
    BY DEF Init
  <2>2. 0 \in 0 .. TickMod - 1
    BY TimerAssumption
  <2>3. tick \in 0 .. TickMod - 1
    BY <2>1, <2>2
  <2>4. checking \in BOOLEAN
    BY <2>1
  <2> QED
    BY <2>3, <2>4
<1>2. list \in Seq(Timers) /\ Injective(list)
  BY EmptyList DEF Init
<1>3. due \in [Timers -> 0 .. TickMod - 1]
  BY TimerAssumption DEF Init
<1>4. mode \in [Timers -> Modes]
  BY DEF Init
<1>5. period \in [Timers -> Nat]
  <2>1. \A t \in Timers : InitialPeriod(t) \in Nat
    BY <1>4, PeriodIsNat DEF InitialPeriod
  <2> QED
    BY <2>1 DEF Init
<1>6. activated \in [Timers -> BOOLEAN]
  BY DEF Init
<1>7. call \in [Threads -> Calls]
  BY DEF Init, Calls
<1>8. damaged \in BOOLEAN /\ overlap \subseteq Timers
  BY DEF Init
<1> QED
  BY <1>1, <1>2, <1>3, <1>4, <1>5, <1>6, <1>7, <1>8 DEF ListInv, TypeOK

LEMMA OverlapTyped ==
  ASSUME TypeOK, NEW t \in Timers, overlap' = Overlap(t)
  PROVE  overlap' \subseteq Timers
BY DEF Overlap, TypeOK

(* A call that begins. *)
LEMMA BegunCall ==
  ASSUME TypeOK, NEW th \in Threads, NEW t \in Timers, NEW step \in Steps,
         NEW n \in Nat,
         call' = [call EXCEPT ![th] = [step |-> step, timer |-> t,
                                       ticks |-> n]]
  PROVE  /\ call' \in [Threads -> Calls]
         /\ call'[th].step = step /\ call'[th].timer = t
         /\ call'[th].ticks = n /\ call'[th] # Out
         /\ \A o \in Threads \ {th} : call'[o] = call[o]
<1>1. call'[th] = [step |-> step, timer |-> t, ticks |-> n]
  BY DEF TypeOK
<1>2. call' \in [Threads -> Calls]
  BY DEF TypeOK, Calls
<1>3. call'[th] # Out
  BY <1>1 DEF Out, Steps
<1>4. \A o \in Threads \ {th} : call'[o] = call[o]
  BY DEF TypeOK
<1> QED
  BY <1>1, <1>2, <1>3, <1>4

LEMMA ListInvBegin ==
  ASSUME ListInv, NEW th \in Threads, NEW t \in Timers,
         \/ \E m \in ModesOf[t] : CallEnable(th, t, m)
         \/ CallStart(th, t)
         \/ CallDisable(th, t)
  PROVE  ListInv'
<1>1. ASSUME NEW m \in ModesOf[t], CallEnable(th, t, m) PROVE ListInv'
  <2>1. Period[m] \in Nat /\ m \in Modes
    BY PeriodIsNat, ModeOfTimer
  <2>2. call' \in [Threads -> Calls]
    BY <1>1, <2>1, BegunCall DEF CallEnable, ListInv, Steps
  <2>3. mode' \in [Timers -> Modes]
    BY <1>1, <2>1 DEF CallEnable, ListInv, TypeOK
  <2>4. overlap' \subseteq Timers
    BY <1>1, OverlapTyped DEF CallEnable, ListInv
  <2> QED
    BY <1>1, <2>2, <2>3, <2>4 DEF CallEnable, ListInv, TypeOK, Injective
<1>2. ASSUME CallStart(th, t) PROVE ListInv'
  <2>1. call' \in [Threads -> Calls]
    BY <1>2, BegunCall DEF CallStart, ListInv, Steps
  <2>2. overlap' \subseteq Timers
    BY <1>2, OverlapTyped DEF CallStart, ListInv
  <2> QED
    BY <1>2, <2>1, <2>2 DEF CallStart, ListInv, TypeOK, Injective
<1>3. ASSUME CallDisable(th, t) PROVE ListInv'
  <2>1. call' \in [Threads -> Calls]
    BY <1>3, BegunCall DEF CallDisable, ListInv, Steps
  <2>2. overlap' \subseteq Timers
    BY <1>3, OverlapTyped DEF CallDisable, ListInv
  <2> QED
    BY <1>3, <2>1, <2>2 DEF CallDisable, ListInv, TypeOK, Injective
<1> QED
  BY <1>1, <1>2, <1>3

LEMMA ListInvGoOn ==
  ASSUME ListInv, NEW th \in Threads,
         \/ SetTime(th) \/ RemoveTimer(th) \/ ComputeDue(th)
         \/ InsertTimer(th) \/ Unlink(th) \/ ClearFlag(th)
  PROVE  ListInv'
<1> USE DEF ListInv
<1>1. ASSUME SetTime(th) PROVE ListInv'
  <2>1. call' \in [Threads -> Calls]
    BY <1>1, MovedCall DEF SetTime, Steps
  <2>2. call[th].ticks \in Nat
    BY <1>1, CallFields DEF SetTime, Steps
  <2>3. period' \in [Timers -> Nat]
    BY <1>1, <2>2 DEF SetTime, TypeOK
  <2> QED
    BY <1>1, <2>1, <2>3 DEF SetTime, TypeOK, Injective
<1>2. ASSUME RemoveTimer(th) PROVE ListInv'
  <2>1. call' \in [Threads -> Calls]
    BY <1>2, MovedCall DEF RemoveTimer, Steps
  <2>2. call[th].timer \in Timers
    BY <1>2, CallFields DEF RemoveTimer, Steps
  <2>3. list' \in Seq(Timers) /\ Injective(list')
    BY <1>2, <2>2, ListUnlinked DEF RemoveTimer, TypeOK
  <2>4. activated' \in [Timers -> BOOLEAN]
    BY <1>2, <2>2 DEF RemoveTimer, TypeOK
  <2> QED
    BY <1>2, <2>1, <2>3, <2>4 DEF RemoveTimer, TypeOK, Injective
<1>3. ASSUME ComputeDue(th) PROVE ListInv'
  <2>1. call' \in [Threads -> Calls]
    BY <1>3, MovedCall DEF ComputeDue, Steps
  <2>2. call[th].timer \in Timers
    BY <1>3, CallFields DEF ComputeDue, Steps
  <2>3. tick + period[call[th].timer] \in Int
    BY <2>2, TimerAssumption DEF TypeOK
  <2>4. DueNow(call[th].timer) \in 0 .. TickMod - 1
    BY <2>3, ModInRange DEF DueNow
  <2>5. due' \in [Timers -> 0 .. TickMod - 1]
    BY <1>3, <2>4 DEF ComputeDue, TypeOK
  <2> QED
    BY <1>3, <2>1, <2>5 DEF ComputeDue, TypeOK, Injective
<1>4. ASSUME InsertTimer(th) PROVE ListInv'
  <2>1. call' \in [Threads -> Calls]
    BY <1>4, ReturnedCall DEF InsertTimer
  <2>2. call[th].timer \in Timers
    BY <1>4, CallFields DEF InsertTimer, Steps
  <2>3. CASE Linked(call[th].timer)
    BY <1>4, <2>1, <2>3 DEF InsertTimer, TypeOK, Injective
  <2>4. CASE ~Linked(call[th].timer)
    <3>1. list' \in Seq(Timers) /\ Injective(list')
      BY <1>4, <2>2, <2>4, ListInserted DEF InsertTimer, TypeOK, Linked
    <3>2. activated' \in [Timers -> BOOLEAN]
      BY <1>4, <2>2, <2>4 DEF InsertTimer, TypeOK
    <3> QED
      BY <1>4, <2>1, <2>4, <3>1, <3>2 DEF InsertTimer, TypeOK, Injective
  <2> QED
    BY <2>3, <2>4
<1>5. ASSUME Unlink(th) PROVE ListInv'
  <2>1. call' \in [Threads -> Calls]
    BY <1>5, MovedCall DEF Unlink, Steps
  <2>2. call[th].timer \in Timers
    BY <1>5, CallFields DEF Unlink, Steps
  <2>3. list' \in Seq(Timers) /\ Injective(list')
    BY <1>5, <2>2, ListUnlinked DEF Unlink, TypeOK
  <2> QED
    BY <1>5, <2>1, <2>3 DEF Unlink, TypeOK, Injective
<1>6. ASSUME ClearFlag(th) PROVE ListInv'
  <2>1. call' \in [Threads -> Calls]
    BY <1>6, ReturnedCall DEF ClearFlag
  <2>2. activated' \in [Timers -> BOOLEAN]
    BY <1>6 DEF ClearFlag, TypeOK
  <2> QED
    BY <1>6, <2>1, <2>2 DEF ClearFlag, TypeOK, Injective
<1> QED
  BY <1>1, <1>2, <1>3, <1>4, <1>5, <1>6

(* What an interrupt that starts a timer does to the list. *)
LEMMA IsrList ==
  ASSUME ListInv, NEW t \in IsrTimers, NEW m \in ModesOf[t], IsrEnable(t, m)
  PROVE  /\ list' \in Seq(Timers) /\ Injective(list')
         /\ \A u : u \in Range(list') <=> Linked(u) \/ u = t
<1>1. t \in Timers
  BY TimerAssumption
<1>2. /\ Unlinked(t) \in Seq(Timers) /\ Injective(Unlinked(t))
      /\ \A u : u \in Range(Unlinked(t)) <=> Linked(u) /\ u # t
  BY <1>1, ListUnlinked DEF ListInv, TypeOK
<1>3. InsertedInto(Unlinked(t), t, (tick + Period[m]) % TickMod)
  BY DEF IsrEnable
<1>4. t \notin Range(Unlinked(t))
  BY <1>2
<1>5. /\ list' \in Seq(Timers) /\ Injective(list')
      /\ \A u : u \in Range(list') <=> u \in Range(Unlinked(t)) \/ u = t
  BY <1>1, <1>2, <1>3, <1>4, ListInserted
<1> QED
  BY <1>2, <1>5

(* What the check of the list does to it. *)
LEMMA CheckList ==
  ASSUME ListInv, Check
  PROVE  /\ list' \in Seq(Timers) /\ Injective(list')
         /\ activated' \in [Timers -> BOOLEAN]
         /\ \A t \in Timers :
              \E gone \in BOOLEAN :
                /\ t \in Range(list') <=> Linked(t) /\ ~gone
                /\ activated'[t] <=> activated[t] /\ ~gone
<1>1. PICK n \in 0 .. Len(list) :
        /\ list' = SubSeq(list, n + 1, Len(list))
        /\ activated' = [t \in Timers |->
                           activated[t] /\ \A i \in 1 .. n : list[i] # t]
  BY DEF Check
<1>2. /\ list' \in Seq(Timers) /\ Injective(list')
      /\ \A t : t \in Range(list') <=>
                  Linked(t) /\ \A i \in 1 .. n : list[i] # t
  BY <1>1, Suffix DEF ListInv, TypeOK, Linked
<1>3. activated' \in [Timers -> BOOLEAN]
  BY <1>1 DEF ListInv, TypeOK
<1>4. ASSUME NEW t \in Timers
      PROVE  \E gone \in BOOLEAN :
               /\ t \in Range(list') <=> Linked(t) /\ ~gone
               /\ activated'[t] <=> activated[t] /\ ~gone
  <2> DEFINE gone == ~ \A i \in 1 .. n : list[i] # t
  <2>1. t \in Range(list') <=> Linked(t) /\ ~gone
    BY <1>2
  <2>2. activated'[t] <=> activated[t] /\ ~gone
    BY <1>1
  <2>3. gone \in BOOLEAN
    OBVIOUS
  <2> HIDE DEF gone
  <2> QED
    BY <2>1, <2>2, <2>3
<1> QED
  BY <1>2, <1>3, <1>4

LEMMA ListInvNext == ListInv /\ [Next]_vars => ListInv'
<1> SUFFICES ASSUME ListInv, [Next]_vars PROVE ListInv'
  OBVIOUS
<1>1. ASSUME NEW th \in Threads, NEW t \in Timers,
             \/ \E m \in ModesOf[t] : CallEnable(th, t, m)
             \/ CallStart(th, t)
             \/ CallDisable(th, t)
      PROVE  ListInv'
  BY <1>1, ListInvBegin
<1>2. ASSUME NEW th \in Threads,
             \/ SetTime(th) \/ RemoveTimer(th) \/ ComputeDue(th)
             \/ InsertTimer(th) \/ Unlink(th) \/ ClearFlag(th)
      PROVE  ListInv'
  BY <1>2, ListInvGoOn
<1>3. ASSUME NEW t \in IsrTimers, NEW m \in ModesOf[t], IsrEnable(t, m)
      PROVE  ListInv'
  <2>1. t \in Timers
    BY TimerAssumption
  <2>2. m \in Modes /\ Period[m] \in Nat
    BY <2>1, ModeOfTimer, PeriodIsNat
  <2>3. list' \in Seq(Timers) /\ Injective(list')
    BY <1>3, IsrList
  <2>4. mode' \in [Timers -> Modes] /\ period' \in [Timers -> Nat]
    BY <1>3, <2>2 DEF IsrEnable, ListInv, TypeOK
  <2>5. tick + Period[m] \in Int
    BY <2>2, TimerAssumption DEF ListInv, TypeOK
  <2>6. due' \in [Timers -> 0 .. TickMod - 1]
    BY <1>3, <2>5, ModInRange DEF IsrEnable, ListInv, TypeOK
  <2>7. activated' \in [Timers -> BOOLEAN]
    BY <1>3 DEF IsrEnable, ListInv, TypeOK
  <2>8. overlap' \subseteq Timers
    BY <1>3, <2>1, OverlapTyped DEF IsrEnable, ListInv
  <2> QED
    BY <1>3, <2>3, <2>4, <2>6, <2>7, <2>8 DEF IsrEnable, ListInv, TypeOK
<1>4. CASE Tick
  <2>1. tick + 1 \in Int
    BY TimerAssumption DEF ListInv, TypeOK
  <2>2. tick' \in 0 .. TickMod - 1
    BY <1>4, <2>1, ModInRange DEF Tick
  <2> QED
    BY <1>4, <2>2 DEF Tick, ListInv, TypeOK, Injective
<1>5. CASE Check
  <2>1. /\ list' \in Seq(Timers) /\ Injective(list')
        /\ activated' \in [Timers -> BOOLEAN]
    BY <1>5, CheckList
  <2> QED
    BY <1>5, <2>1 DEF Check, ListInv, TypeOK
<1>6. CASE UNCHANGED vars
  BY <1>6 DEF vars, ListInv, TypeOK, Injective
<1> QED
  BY <1>1, <1>2, <1>3, <1>4, <1>5, <1>6 DEF Next

(* Type correctness: the times stay within the range of the tick, and the  *)
(* list a list of timers, across any number of wraps (timer.c).            *)
THEOREM TimerTypeCorrect == Spec => []TypeOK
<1>1. ListInv => TypeOK
  BY DEF ListInv
<1> QED
  BY <1>1, ListInvInit, ListInvNext, PTL DEF Spec

-----------------------------------------------------------------------------
(* A timer that nobody works on. *)
Settled(t) ==
  /\ activated[t] <=> Linked(t)
  /\ Linked(t) \/ {mode[t]} = ModesOf[t] => period[t] = Period[mode[t]]

(* How far the call of a thread has come with its timer, if no other call  *)
(* disturbs it.                                                            *)
Progress(th, t) ==
  LET step == call[th].step IN
  /\ step = "set_time" => call[th].ticks = Period[mode[t]]
  /\ step # "set_time" => period[t] = Period[mode[t]]
  /\ step \in {"set_time", "remove", "unlink"} => (activated[t] <=> Linked(t))
  /\ step \in {"compute", "insert", "clear"} => ~Linked(t)
  /\ step \in {"compute", "insert"} => ~activated[t]

(* A timer that was never worked on twice at a time: one thread at most    *)
(* works on it, and everything agrees with how far that one has come.      *)
Undisturbed(t) ==
  /\ (\A th \in Threads : ~Working(th, t)) => Settled(t)
  /\ \A th \in Threads : Working(th, t) => Progress(th, t)
  /\ \A th, o \in Threads : Working(th, t) /\ Working(o, t) => th = o

TimersInv ==
  /\ damaged => overlap # {}
  /\ \A t \in Timers \ overlap : Undisturbed(t)

LEMMA BusyIs ==
  ASSUME NEW t \in Timers
  PROVE  Busy(t) <=> \E th \in Threads : Working(th, t)
BY DEF Busy, Working

(* What no step of the thread th concerns. *)
LEMMA OtherTimer ==
  ASSUME NEW th \in Threads, NEW u \in Timers, Undisturbed(u),
         \A o \in Threads \ {th} : call'[o] = call[o],
         ~Working(th, u), ~Working(th, u)',
         mode'[u] = mode[u], period'[u] = period[u],
         activated'[u] = activated[u], Linked(u)' <=> Linked(u)
  PROVE  Undisturbed(u)'
<1>1. \A o \in Threads : Working(o, u)' <=> Working(o, u)
  BY DEF Working
<1>2. \A o \in Threads : Working(o, u) => call'[o] = call[o]
  OBVIOUS
<1>3. (\A o \in Threads : ~Working(o, u)') => Settled(u)'
  BY <1>1 DEF Undisturbed, Settled
<1>4. \A o \in Threads : Working(o, u)' => Progress(o, u)'
  BY <1>1, <1>2 DEF Undisturbed, Progress
<1>5. \A o, p \in Threads : Working(o, u)' /\ Working(p, u)' => o = p
  BY <1>1 DEF Undisturbed
<1> QED
  BY <1>3, <1>4, <1>5 DEF Undisturbed

(* The timer of a call that begins, goes on and returns. *)
LEMMA TimerBegins ==
  ASSUME NEW th \in Threads, NEW t \in Timers,
         \A o \in Threads : ~Working(o, t),
         \A o \in Threads \ {th} : call'[o] = call[o],
         Working(th, t)', Progress(th, t)'
  PROVE  Undisturbed(t)'
<1>1. \A o \in Threads : Working(o, t)' => o = th
  BY DEF Working
<1> QED
  BY <1>1 DEF Undisturbed

LEMMA TimerGoesOn ==
  ASSUME NEW th \in Threads, NEW t \in Timers, Undisturbed(t),
         Working(th, t), Working(th, t)',
         \A o \in Threads \ {th} : call'[o] = call[o],
         Progress(th, t)'
  PROVE  Undisturbed(t)'
<1>1. \A o \in Threads : Working(o, t)' => o = th
  BY DEF Working, Undisturbed
<1> QED
  BY <1>1 DEF Undisturbed

LEMMA TimerReturns ==
  ASSUME NEW th \in Threads, NEW t \in Timers, Undisturbed(t),
         Working(th, t), ~Working(th, t)',
         \A o \in Threads \ {th} : call'[o] = call[o],
         Settled(t)'
  PROVE  Undisturbed(t)'
<1>1. \A o \in Threads : ~Working(o, t)'
  BY DEF Working, Undisturbed
<1> QED
  BY <1>1 DEF Undisturbed

LEMMA TimersInvInit == Init => TimersInv
<1> SUFFICES ASSUME Init PROVE TimersInv
  OBVIOUS
<1>1. \A th \in Threads, t \in Timers : ~Working(th, t)
  BY DEF Init, Working
<1>2. ASSUME NEW t \in Timers PROVE Settled(t)
  <2>1. ~Linked(t)
    BY EmptyList DEF Init
  <2>2. period[t] = InitialPeriod(t) /\ mode[t] \in Modes /\ ~activated[t]
    BY DEF Init
  <2>3. {mode[t]} = ModesOf[t] => period[t] = Period[mode[t]]
    BY <2>2, PeriodIsNat DEF InitialPeriod
  <2> QED
    BY <2>1, <2>2, <2>3 DEF Settled
<1> QED
  BY <1>1, <1>2 DEF Init, TimersInv, Undisturbed

(* Each step of a call: on its own timer, and on the others. *)
LEMMA InvBegin ==
  ASSUME ListInv, TimersInv, NEW th \in Threads, NEW t \in Timers,
         \/ \E m \in ModesOf[t] : CallEnable(th, t, m)
         \/ CallStart(th, t)
         \/ CallDisable(th, t)
  PROVE  TimersInv'
<1>1. /\ overlap' = Overlap(t) /\ list' = list /\ activated' = activated
      /\ period' = period /\ damaged' = damaged /\ ~damaged
      /\ call[th].step = "out"
  BY DEF CallEnable, CallStart, CallDisable, Runs
<1>2. call[th] = Out
  BY <1>1 DEF ListInv, TypeOK, Calls, Steps
<1>3. /\ \A o \in Threads \ {th} : call'[o] = call[o]
      /\ Working(th, t)'
  <2>1. ASSUME NEW m \in ModesOf[t], CallEnable(th, t, m)
        PROVE  /\ \A o \in Threads \ {th} : call'[o] = call[o]
               /\ Working(th, t)'
    <3>1. Period[m] \in Nat
      BY PeriodIsNat, ModeOfTimer
    <3> QED
      BY <2>1, <3>1, BegunCall DEF CallEnable, ListInv, Steps, Working
  <2>2. ASSUME CallStart(th, t) \/ CallDisable(th, t)
        PROVE  /\ \A o \in Threads \ {th} : call'[o] = call[o]
               /\ Working(th, t)'
    BY <2>2, BegunCall DEF CallStart, CallDisable, ListInv, Steps, Working
  <2> QED
    BY <2>1, <2>2
<1>4. \A u \in Timers \ {t} : mode'[u] = mode[u]
  BY DEF CallEnable, CallStart, CallDisable, ListInv, TypeOK
<1>5. ASSUME NEW u \in Timers \ overlap', u # t PROVE Undisturbed(u)'
  <2>1. Undisturbed(u)
    BY <1>1, <1>5 DEF TimersInv, Overlap
  <2>2. ~Working(th, u) /\ ~Working(th, u)'
    BY <1>2, <1>3, <1>5 DEF Working
  <2>3. Linked(u)' <=> Linked(u)
    BY <1>1 DEF Linked
  <2> QED
    BY <1>1, <1>3, <1>4, <1>5, <2>1, <2>2, <2>3, OtherTimer
<1>6. ASSUME t \notin overlap' PROVE Undisturbed(t)'
  <2>1. t \notin overlap /\ ~Busy(t)
    BY <1>1, <1>6 DEF Overlap
  <2>2. Settled(t) /\ \A o \in Threads : ~Working(o, t)
    BY <2>1, BusyIs DEF TimersInv, Undisturbed
  <2>3. Linked(t)' <=> Linked(t)
    BY <1>1 DEF Linked
  <2>4. Progress(th, t)'
    <3>1. ASSUME NEW m \in ModesOf[t], CallEnable(th, t, m)
          PROVE  Progress(th, t)'
      <4>1. Period[m] \in Nat
        BY PeriodIsNat, ModeOfTimer
      <4>2. call'[th].step = "set_time" /\ call'[th].ticks = Period[m]
        BY <3>1, <4>1, BegunCall DEF CallEnable, ListInv, Steps
      <4>3. mode'[t] = m
        BY <3>1 DEF CallEnable, ListInv, TypeOK
      <4> QED
        BY <4>2, <4>3, <2>2, <2>3, <1>1 DEF Progress, Settled
    <3>2. ASSUME CallStart(th, t) PROVE Progress(th, t)'
      <4>1. call'[th].step = "remove" /\ mode' = mode
        BY <3>2, BegunCall DEF CallStart, ListInv, Steps
      <4>2. {mode[t]} = ModesOf[t]
        BY <3>2 DEF CallStart
      <4> QED
        BY <4>1, <4>2, <2>2, <2>3, <1>1 DEF Progress, Settled
    <3>3. ASSUME CallDisable(th, t) PROVE Progress(th, t)'
      <4>1. call'[th].step = "unlink" /\ mode' = mode
        BY <3>3, BegunCall DEF CallDisable, ListInv, Steps
      <4>2. activated[t]
        BY <3>3 DEF CallDisable
      <4> QED
        BY <4>1, <4>2, <2>2, <2>3, <1>1 DEF Progress, Settled
    <3> QED
      BY <3>1, <3>2, <3>3
  <2> QED
    BY <1>3, <2>2, <2>4, TimerBegins
<1> QED
  BY <1>1, <1>5, <1>6 DEF TimersInv

LEMMA InvGoOn ==
  ASSUME ListInv, TimersInv, NEW th \in Threads,
         \/ SetTime(th) \/ RemoveTimer(th) \/ ComputeDue(th) \/ Unlink(th)
  PROVE  TimersInv'
<1>0. PICK t \in Timers : t = call[th].timer
  BY CallFields DEF SetTime, RemoveTimer, ComputeDue, Unlink, ListInv, Steps
<1>1. /\ overlap' = overlap /\ mode' = mode /\ damaged' = damaged /\ ~damaged
  BY DEF SetTime, RemoveTimer, ComputeDue, Unlink, Runs
<1>2. /\ t \in Timers /\ call[th] # Out /\ call'[th] # Out
      /\ call'[th].timer = t /\ call'[th].ticks = call[th].ticks
      /\ \A o \in Threads \ {th} : call'[o] = call[o]
  BY <1>0, CallFields, MovedCall
     DEF SetTime, RemoveTimer, ComputeDue, Unlink, ListInv, Steps
<1>3. /\ SetTime(th) => call[th].step = "set_time" /\ call'[th].step = "remove"
      /\ RemoveTimer(th) => call[th].step = "remove"
                             /\ call'[th].step = "compute"
      /\ ComputeDue(th) => call[th].step = "compute"
                            /\ call'[th].step = "insert"
      /\ Unlink(th) => call[th].step = "unlink" /\ call'[th].step = "clear"
  BY <1>0, CallFields, MovedCall
     DEF SetTime, RemoveTimer, ComputeDue, Unlink, ListInv, Steps
<1>4. /\ RemoveTimer(th) \/ Unlink(th) =>
           \A u : Linked(u)' <=> Linked(u) /\ u # t
      /\ SetTime(th) \/ ComputeDue(th) => \A u : Linked(u)' <=> Linked(u)
  BY <1>0, <1>2, ListUnlinked
     DEF SetTime, RemoveTimer, ComputeDue, Unlink, ListInv, TypeOK, Linked
<1>5. /\ SetTime(th) => /\ period' = [period EXCEPT ![t] = call[th].ticks]
                         /\ activated' = activated
      /\ RemoveTimer(th) => /\ activated' = [activated EXCEPT ![t] = FALSE]
                             /\ period' = period
      /\ ComputeDue(th) \/ Unlink(th) =>
           period' = period /\ activated' = activated
  BY <1>0 DEF SetTime, RemoveTimer, ComputeDue, Unlink
<1>6. period \in [Timers -> Nat] /\ activated \in [Timers -> BOOLEAN]
  BY DEF ListInv, TypeOK
<1>7. ASSUME NEW u \in Timers \ overlap, u # t PROVE Undisturbed(u)'
  <2>1. Undisturbed(u)
    BY <1>7 DEF TimersInv
  <2>2. ~Working(th, u) /\ ~Working(th, u)'
    BY <1>0, <1>2, <1>7 DEF Working
  <2>3. Linked(u)' <=> Linked(u)
    BY <1>4, <1>7
  <2>4. period'[u] = period[u]
    BY <1>5, <1>6, <1>7
  <2>5. activated'[u] = activated[u]
    BY <1>5, <1>6, <1>7
  <2> QED
    BY <1>1, <1>2, <1>7, <2>1, <2>2, <2>3, <2>4, <2>5, OtherTimer
<1>8. ASSUME t \notin overlap PROVE Undisturbed(t)'
  <2>1. Undisturbed(t)
    BY <1>2, <1>8 DEF TimersInv
  <2>2. Working(th, t) /\ Working(th, t)'
    BY <1>0, <1>2 DEF Working
  <2>3. Progress(th, t)
    BY <2>1, <2>2 DEF Undisturbed
  <2>4. Progress(th, t)'
    <3>1. CASE SetTime(th)
      <4>1. period'[t] = call[th].ticks
        BY <3>1, <1>2, <1>5, <1>6
      <4> QED
        BY <3>1, <4>1, <2>3, <1>1, <1>3, <1>4, <1>5 DEF Progress
    <3>2. CASE RemoveTimer(th)
      <4>1. activated'[t] = FALSE
        BY <3>2, <1>2, <1>5, <1>6
      <4> QED
        BY <3>2, <4>1, <2>3, <1>1, <1>3, <1>4, <1>5 DEF Progress
    <3>3. CASE ComputeDue(th)
      BY <3>3, <2>3, <1>1, <1>3, <1>4, <1>5 DEF Progress
    <3>4. CASE Unlink(th)
      BY <3>4, <2>3, <1>1, <1>3, <1>4, <1>5 DEF Progress
    <3> QED
      BY <3>1, <3>2, <3>3, <3>4
  <2> QED
    BY <1>2, <2>1, <2>2, <2>4, TimerGoesOn
<1> QED
  BY <1>1, <1>7, <1>8 DEF TimersInv

LEMMA InvReturn ==
  ASSUME ListInv, TimersInv, NEW th \in Threads,
         InsertTimer(th) \/ ClearFlag(th)
  PROVE  TimersInv'
<1>0. PICK t \in Timers : t = call[th].timer
  BY CallFields DEF InsertTimer, ClearFlag, ListInv, Steps
<1>1. /\ overlap' = overlap /\ mode' = mode /\ period' = period /\ ~damaged
  BY DEF InsertTimer, ClearFlag, Runs
<1>2. /\ t \in Timers /\ call[th] # Out /\ call'[th] = Out
      /\ \A o \in Threads \ {th} : call'[o] = call[o]
  BY <1>0, CallFields, ReturnedCall DEF InsertTimer, ClearFlag, ListInv, Steps
<1>3. /\ InsertTimer(th) => call[th].step = "insert"
      /\ ClearFlag(th) => call[th].step = "clear"
  BY DEF InsertTimer, ClearFlag, Runs
<1>4. /\ list \in Seq(Timers) /\ Injective(list)
      /\ activated \in [Timers -> BOOLEAN]
  BY DEF ListInv, TypeOK
<1>5. /\ InsertTimer(th) /\ Linked(t) =>
           damaged' = TRUE /\ list' = list /\ activated' = activated
      /\ InsertTimer(th) /\ ~Linked(t) =>
           /\ damaged' = damaged
           /\ activated' = [activated EXCEPT ![t] = TRUE]
           /\ InsertedInto(list, t, due[t])
      /\ ClearFlag(th) =>
           /\ damaged' = damaged /\ list' = list
           /\ activated' = [activated EXCEPT ![t] = FALSE]
  BY <1>0 DEF InsertTimer, ClearFlag
<1>6. InsertTimer(th) /\ ~Linked(t) =>
        \A u : Linked(u)' <=> Linked(u) \/ u = t
  BY <1>2, <1>4, <1>5, ListInserted DEF Linked
<1>7. ~(InsertTimer(th) /\ ~Linked(t)) => \A u : Linked(u)' <=> Linked(u)
  BY <1>5 DEF Linked
<1>8. Working(th, t) /\ ~Working(th, t)'
  BY <1>0, <1>2 DEF Working
<1>9. ASSUME NEW u \in Timers \ overlap, u # t PROVE Undisturbed(u)'
  <2>1. Undisturbed(u)
    BY <1>9 DEF TimersInv
  <2>2. ~Working(th, u) /\ ~Working(th, u)'
    BY <1>0, <1>2, <1>9 DEF Working
  <2>3. Linked(u)' <=> Linked(u)
    BY <1>6, <1>7, <1>9
  <2>4. activated'[u] = activated[u]
    BY <1>4, <1>5, <1>9
  <2> QED
    BY <1>1, <1>2, <1>9, <2>1, <2>2, <2>3, <2>4, OtherTimer
<1>10. ASSUME t \notin overlap PROVE Undisturbed(t)' /\ damaged' = damaged
  <2>1. Undisturbed(t)
    BY <1>2, <1>10 DEF TimersInv
  <2>2. Progress(th, t)
    BY <2>1, <1>8 DEF Undisturbed
  <2>3. ~Linked(t) /\ period[t] = Period[mode[t]]
    BY <2>2, <1>3 DEF Progress
  <2>4. Settled(t)'
    <3>1. CASE InsertTimer(th)
      <4>1. activated'[t] = TRUE /\ Linked(t)'
        BY <3>1, <2>3, <1>2, <1>4, <1>5, <1>6
      <4> QED
        BY <4>1, <2>3, <1>1 DEF Settled
    <3>2. CASE ClearFlag(th)
      <4>1. activated'[t] = FALSE /\ ~Linked(t)'
        BY <3>2, <2>3, <1>2, <1>4, <1>5, <1>7
      <4> QED
        BY <4>1, <2>3, <1>1 DEF Settled
    <3> QED
      BY <3>1, <3>2
  <2>5. Undisturbed(t)'
    BY <1>2, <1>8, <2>1, <2>4, TimerReturns
  <2> QED
    BY <2>3, <2>5, <1>5
<1>11. damaged' => overlap' # {}
  BY <1>1, <1>10
<1> QED
  BY <1>1, <1>9, <1>10, <1>11 DEF TimersInv

(* A timer whose fields an interrupt or the tick has changed, or not. *)
LEMMA CallsUntouched ==
  ASSUME NEW t \in Timers, Undisturbed(t), call' = call,
         mode'[t] = mode[t], period'[t] = period[t],
         NEW gone \in BOOLEAN,
         Linked(t)' <=> Linked(t) /\ ~gone,
         activated'[t] <=> activated[t] /\ ~gone
  PROVE  Undisturbed(t)'
<1>1. \A th \in Threads : Working(th, t)' <=> Working(th, t)
  BY DEF Working
<1>2. Settled(t) => Settled(t)'
  BY DEF Settled
<1>3. \A th \in Threads : Progress(th, t) => Progress(th, t)'
  BY DEF Progress
<1> QED
  BY <1>1, <1>2, <1>3 DEF Undisturbed

LEMMA InvIsr ==
  ASSUME ListInv, TimersInv, NEW t \in IsrTimers, NEW m \in ModesOf[t],
         IsrEnable(t, m)
  PROVE  TimersInv'
<1>1. t \in Timers
  BY TimerAssumption
<1>2. \A u : Linked(u)' <=> Linked(u) \/ u = t
  BY IsrList DEF Linked
<1>3. /\ call' = call /\ damaged' = damaged /\ ~damaged
      /\ overlap' = Overlap(t)
  BY DEF IsrEnable, Begins
<1>4. /\ mode' = [mode EXCEPT ![t] = m] /\ mode \in [Timers -> Modes]
      /\ period' = [period EXCEPT ![t] = Period[m]]
      /\ period \in [Timers -> Nat]
      /\ activated' = [activated EXCEPT ![t] = TRUE]
      /\ activated \in [Timers -> BOOLEAN]
  BY DEF IsrEnable, ListInv, TypeOK
<1>5. ASSUME NEW u \in Timers \ overlap', u # t PROVE Undisturbed(u)'
  <2>1. Undisturbed(u)
    BY <1>3, <1>5 DEF TimersInv, Overlap
  <2>2. /\ mode'[u] = mode[u] /\ period'[u] = period[u]
        /\ activated'[u] = activated[u]
    BY <1>4, <1>5
  <2>3. Linked(u)' <=> Linked(u)
    BY <1>2, <1>5
  <2> QED
    BY <1>3, <1>5, <2>1, <2>2, <2>3, CallsUntouched
<1>6. ASSUME t \notin overlap' PROVE Undisturbed(t)'
  <2>1. \A th \in Threads : ~Working(th, t)
    BY <1>1, <1>3, <1>6, BusyIs DEF Overlap
  <2>2. \A th \in Threads : ~Working(th, t)'
    BY <2>1, <1>3 DEF Working
  <2>3. Settled(t)'
    <3>1. mode'[t] = m /\ period'[t] = Period[m] /\ activated'[t] = TRUE
      BY <1>1, <1>4
    <3>2. Linked(t)'
      BY <1>2
    <3> QED
      BY <3>1, <3>2 DEF Settled
  <2> QED
    BY <2>2, <2>3 DEF Undisturbed
<1> QED
  BY <1>3, <1>5, <1>6 DEF TimersInv

LEMMA InvCheck == ASSUME ListInv, TimersInv, Check PROVE TimersInv'
<1>1. /\ call' = call /\ damaged' = damaged /\ overlap' = overlap
      /\ mode' = mode /\ period' = period
  BY DEF Check
<1>2. ASSUME NEW t \in Timers \ overlap PROVE Undisturbed(t)'
  <2>1. PICK gone \in BOOLEAN :
          /\ t \in Range(list') <=> Linked(t) /\ ~gone
          /\ activated'[t] <=> activated[t] /\ ~gone
    BY <1>2, CheckList
  <2>2. Linked(t)' <=> Linked(t) /\ ~gone
    BY <2>1 DEF Linked
  <2>3. Undisturbed(t)
    BY <1>2 DEF TimersInv
  <2> QED
    BY <1>1, <1>2, <2>1, <2>2, <2>3, CallsUntouched
<1> QED
  BY <1>1, <1>2 DEF TimersInv

LEMMA InvUnchanged ==
  ASSUME TimersInv, UNCHANGED <<list, period, mode, activated, call, damaged,
                                overlap>>
  PROVE  TimersInv'
BY DEF TimersInv, Undisturbed, Settled, Progress, Working, Linked

LEMMA TimersInvNext == ListInv /\ TimersInv /\ [Next]_vars => TimersInv'
<1> SUFFICES ASSUME ListInv, TimersInv, [Next]_vars PROVE TimersInv'
  OBVIOUS
<1>1. ASSUME NEW th \in Threads, NEW t \in Timers,
             \/ \E m \in ModesOf[t] : CallEnable(th, t, m)
             \/ CallStart(th, t)
             \/ CallDisable(th, t)
      PROVE  TimersInv'
  BY <1>1, InvBegin
<1>2. ASSUME NEW th \in Threads,
             \/ SetTime(th) \/ RemoveTimer(th) \/ ComputeDue(th) \/ Unlink(th)
      PROVE  TimersInv'
  BY <1>2, InvGoOn
<1>3. ASSUME NEW th \in Threads, InsertTimer(th) \/ ClearFlag(th)
      PROVE  TimersInv'
  BY <1>3, InvReturn
<1>4. ASSUME NEW t \in IsrTimers, NEW m \in ModesOf[t], IsrEnable(t, m)
      PROVE  TimersInv'
  BY <1>4, InvIsr
<1>5. CASE Tick
  BY <1>5, InvUnchanged DEF Tick
<1>6. CASE Check
  BY <1>6, InvCheck
<1>7. CASE UNCHANGED vars
  BY <1>7, InvUnchanged DEF vars
<1> QED
  BY <1>1, <1>2, <1>3, <1>4, <1>5, <1>6, <1>7 DEF Next

LEMMA TimersInvariant == Spec => [](ListInv /\ TimersInv)
BY ListInvInit, ListInvNext, TimersInvInit, TimersInvNext, PTL DEF Spec

(* The list is damaged only after a timer was started while it was being   *)
(* started or stopped: preemption between the two masked parts of          *)
(* rt_timer_start, by ticks or calls for other timers, never does it.      *)
THEOREM OnlyOverlapDamages == Spec => []DamageNeedsOverlap
<1>1. TimersInv => DamageNeedsOverlap
  BY DEF TimersInv, DamageNeedsOverlap
<1> QED
  BY <1>1, TimersInvariant, PTL

(* The flag that rt_timer_stop reads unmasked (timer.c:423) says whether   *)
(* the timer is linked.                                                    *)
THEOREM FlagAlwaysMatches == Spec => []FlagMatchesList
<1>1. TimersInv => FlagMatchesList
  BY BusyIs DEF TimersInv, Undisturbed, Settled, FlagMatchesList
<1> QED
  BY <1>1, TimersInvariant, PTL

(* The three calls of porttimer_m.c leave a timer with the time of its     *)
(* mode.                                                                   *)
THEOREM PeriodAlwaysMatches == Spec => []ModeMatchesPeriod
<1>1. TimersInv => ModeMatchesPeriod
  BY BusyIs DEF TimersInv, Undisturbed, Settled, ModeMatchesPeriod
<1> QED
  BY <1>1, TimersInvariant, PTL

-----------------------------------------------------------------------------
(* Unsigned arithmetic modulo TickMod, for differences of two times.       *)
LEMMA ModOnce ==
  ASSUME NEW x \in Int
  PROVE  /\ 0 <= x /\ x < TickMod => x % TickMod = x
         /\ x < 0 /\ 0 - TickMod <= x => x % TickMod = x + TickMod
         /\ TickMod <= x /\ x < 2 * TickMod => x % TickMod = x - TickMod
<1>1. TickMod \in Nat \ {0}
  BY TimerAssumption
<1>2. 0 <= x /\ x < TickMod => x % TickMod = x
  BY <1>1
<1>3. x < 0 /\ 0 - TickMod <= x => x % TickMod = x + TickMod
  BY <1>1
<1>4. TickMod <= x /\ x < 2 * TickMod => x % TickMod = x - TickMod
  BY <1>1
<1> QED
  BY <1>2, <1>3, <1>4

LEMMA HalfIs ==
  /\ TickMod \in Nat /\ Half \in Nat /\ MaxPreempt \in Nat
  /\ 2 * Half < TickMod /\ TickMod <= 2 * Half + 2
BY TimerAssumption DEF Half

Times == 0 .. TickMod - 1

LEMMA AheadIs ==
  ASSUME NEW a \in Times, NEW b \in Times
  PROVE  Ahead(a, b) = IF a <= b THEN b - a ELSE b - a + TickMod
<1>1. b - a \in Int /\ b - a < TickMod /\ 0 - TickMod <= b - a
  BY HalfIs DEF Times
<1>2. CASE a <= b
  BY <1>1, <1>2, ModOnce, HalfIs DEF Ahead, Times
<1>3. CASE b < a
  BY <1>1, <1>3, ModOnce, HalfIs DEF Ahead, Times
<1> QED
  BY <1>2, <1>3, HalfIs DEF Times

(* How far the time d lies after the time now, negative if it lies before. *)
Signed(now, d) ==
  LET a == d - now IN
  IF a > Half THEN a - TickMod ELSE IF a < -Half THEN a + TickMod ELSE a

Off(t) == Signed(tick, due[t])

LEMMA SignedIs ==
  ASSUME NEW now \in Times, NEW d \in Times
  PROVE  Signed(now, d) \in Int
BY HalfIs DEF Signed, Times

(* The comparisons of timer.c are those of the signed distances, as long   *)
(* as these are less than half of the range apart.                         *)
LEMMA AheadOfOther ==
  ASSUME NEW now \in Times, NEW a \in Times, NEW b \in Times,
         Signed(now, a) - Signed(now, b) < Half,
         Signed(now, b) - Signed(now, a) < Half
  PROVE  /\ Ahead(a, b) < Half <=> Signed(now, a) <= Signed(now, b)
         /\ a = b <=> Signed(now, a) = Signed(now, b)
BY AheadIs, HalfIs DEF Signed, Times

LEMMA AheadOfNow ==
  ASSUME NEW now \in Times, NEW d \in Times,
         Signed(now, d) < Half, -Half < Signed(now, d)
  PROVE  Ahead(d, now) < Half <=> Signed(now, d) <= 0
BY AheadIs, HalfIs DEF Signed, Times

(* A tick brings every time one nearer, across the wrap.                   *)
LEMMA SignedTicks ==
  ASSUME NEW now \in Times, NEW d \in Times, -Half < Signed(now, d)
  PROVE  Signed((now + 1) % TickMod, d) = Signed(now, d) - 1
<1>1. (now + 1) % TickMod = IF now + 1 < TickMod THEN now + 1 ELSE 0
  BY ModOnce, HalfIs DEF Times
<1>2. CASE now + 1 < TickMod
  BY <1>1, <1>2, HalfIs DEF Signed, Times
<1>3. CASE now + 1 = TickMod
  BY <1>1, <1>3, HalfIs DEF Signed, Times
<1> QED
  BY <1>2, <1>3, HalfIs DEF Times

LEMMA SignedSum ==
  ASSUME NEW now \in Times, NEW n \in Nat, n < Half
  PROVE  Signed(now, (now + n) % TickMod) = n
<1>1. (now + n) % TickMod = IF now + n < TickMod THEN now + n
                            ELSE now + n - TickMod
  BY ModOnce, HalfIs DEF Times
<1>2. CASE now + n < TickMod
  BY <1>1, <1>2, HalfIs DEF Signed, Times
<1>3. CASE TickMod <= now + n
  BY <1>1, <1>3, HalfIs DEF Signed, Times
<1> QED
  BY <1>2, <1>3, HalfIs DEF Times

(* What the guard of Tick says: the ticks since the time was computed.     *)
LEMMA LateIs ==
  ASSUME NEW now \in Times, NEW d \in Times, NEW p \in Nat,
         p < Half, Signed(now, d) <= p, p - Signed(now, d) < Half
  PROVE  Ahead(d - p, now) = p - Signed(now, d)
<1>1. now - (d - p) \in Int /\ now - (d - p) < 2 * TickMod
      /\ 0 - TickMod <= now - (d - p)
  BY HalfIs DEF Times
<1> DEFINE x == now - (d - p)
<1>2. p - Signed(now, d) \in {x, x + TickMod, x - TickMod}
  BY HalfIs DEF Signed, Times
<1>3. 0 <= p - Signed(now, d) /\ p - Signed(now, d) < TickMod
  BY SignedIs, HalfIs
<1>4. x % TickMod = p - Signed(now, d)
  BY <1>1, <1>2, <1>3, ModOnce, HalfIs
<1> QED
  BY <1>4 DEF Ahead

-----------------------------------------------------------------------------
(* Sequences whose elements have values that do not fall along it.         *)
Ascending(s, f) == \A i, j \in 1 .. Len(s) : i < j => f[s[i]] <= f[s[j]]

LEMMA SameValues ==
  ASSUME NEW S, NEW s \in Seq(S), NEW f \in [S -> Int], NEW g \in [S -> Int],
         Ascending(s, f), NEW d \in Int,
         \A x \in Range(s) : g[x] = f[x] - d
  PROVE  Ascending(s, g)
<1>1. ASSUME NEW i \in 1 .. Len(s), NEW j \in 1 .. Len(s), i < j
      PROVE  g[s[i]] <= g[s[j]]
  <2>1. s[i] \in S /\ s[j] \in S /\ s[i] \in Range(s) /\ s[j] \in Range(s)
    BY RangeIs
  <2>2. f[s[i]] \in Int /\ f[s[j]] \in Int /\ f[s[i]] <= f[s[j]]
    BY <1>1, <2>1 DEF Ascending
  <2>3. g[s[i]] = f[s[i]] - d /\ g[s[j]] = f[s[j]] - d
    BY <2>1
  <2> QED
    BY <2>2, <2>3
<1> QED
  BY <1>1 DEF Ascending

LEMMA AscendingRemoved ==
  ASSUME NEW S, NEW s \in Seq(S), NEW f \in [S -> Int],
         Ascending(s, f), NEW k \in 1 .. Len(s)
  PROVE  Ascending(RemoveAt(s, k), f)
<1> DEFINE r == RemoveAt(s, k)
<1>1. /\ Len(r) = Len(s) - 1
      /\ \A i \in 1 .. Len(r) : r[i] = IF i < k THEN s[i] ELSE s[i + 1]
  BY RemoveAtIs
<1> HIDE DEF r
<1>2. ASSUME NEW i \in 1 .. Len(r), NEW j \in 1 .. Len(r), i < j
      PROVE  f[r[i]] <= f[r[j]]
  <2> DEFINE m == IF i < k THEN i ELSE i + 1
             n == IF j < k THEN j ELSE j + 1
  <2>1. r[i] = s[m] /\ r[j] = s[n]
    BY <1>1
  <2>2. m \in 1 .. Len(s) /\ n \in 1 .. Len(s)
    BY <1>1
  <2>3. m < n
    BY <1>2
  <2> HIDE DEF m, n
  <2> QED
    BY <2>1, <2>2, <2>3 DEF Ascending
<1>3. Ascending(r, f)
  BY <1>2 DEF Ascending
<1> QED
  BY <1>3 DEF r

LEMMA AscendingInserted ==
  ASSUME NEW S, NEW s \in Seq(S), NEW t \in S, NEW f \in [S -> Int],
         Ascending(s, f), NEW k \in 1 .. Len(s) + 1,
         k <= Len(s) => f[t] < f[s[k]],
         \A i \in 1 .. k - 1 : f[s[i]] <= f[t]
  PROVE  Ascending(InsertAt(s, k, t), f)
<1> DEFINE r == InsertAt(s, k, t)
<1>6. Len(r) = Len(s) + 1
  BY InsertAtIs
<1>7. \A i \in 1 .. Len(r) :
        r[i] = IF i < k THEN s[i] ELSE IF i = k THEN t ELSE s[i - 1]
  BY InsertAtIs
<1>8. \A i \in 1 .. Len(s) : s[i] \in S /\ f[s[i]] \in Int
  OBVIOUS
<1>9. f[t] \in Int
  OBVIOUS
<1> HIDE DEF r
<1>10. ASSUME NEW i \in 1 .. Len(s), i >= k PROVE f[t] <= f[s[i]]
  <2>1. k \in 1 .. Len(s) /\ f[t] < f[s[k]]
    BY <1>10
  <2>2. f[s[k]] <= f[s[i]]
    BY <1>10, <2>1, <1>8 DEF Ascending
  <2> QED
    BY <2>1, <2>2, <1>8, <1>9
<1>11. ASSUME NEW i \in 1 .. Len(r), NEW j \in 1 .. Len(r), i < j
       PROVE  f[r[i]] <= f[r[j]]
  <2>1. CASE j < k
    <3>1. r[i] = s[i] /\ r[j] = s[j]
      BY <2>1, <1>11, <1>7
    <3>2. i \in 1 .. Len(s) /\ j \in 1 .. Len(s)
      BY <2>1, <1>11, <1>6
    <3> QED
      BY <3>1, <3>2, <1>11 DEF Ascending
  <2>2. CASE j = k
    BY <2>2, <1>11, <1>6, <1>7
  <2>3. CASE j > k /\ i < k
    <3>1. r[i] = s[i] /\ r[j] = s[j - 1]
      BY <2>3, <1>7
    <3>2. j - 1 \in 1 .. Len(s) /\ i \in 1 .. Len(s) /\ i < j - 1
      BY <2>3, <1>6
    <3>3. f[s[i]] <= f[s[j - 1]]
      BY <3>2 DEF Ascending
    <3> QED
      BY <3>1, <3>3
  <2>4. CASE i = k
    <3>1. r[i] = t /\ r[j] = s[j - 1] /\ j - 1 \in 1 .. Len(s) /\ j - 1 >= k
      BY <2>4, <1>11, <1>6, <1>7
    <3> QED
      BY <3>1, <1>10
  <2>5. CASE i > k
    <3>1. r[i] = s[i - 1] /\ r[j] = s[j - 1] /\ j - 1 \in 1 .. Len(s)
          /\ i - 1 \in 1 .. Len(s) /\ i - 1 < j - 1
      BY <2>5, <1>11, <1>6, <1>7
    <3> QED
      BY <3>1 DEF Ascending
  <2> QED
    BY <2>1, <2>2, <2>3, <2>4, <2>5, <1>6
<1>12. Ascending(r, f)
  BY <1>11 DEF Ascending
<1> QED
  BY <1>12 DEF r

LEMMA AscendingSuffix ==
  ASSUME NEW S, NEW s \in Seq(S), NEW f \in [S -> Int],
         Ascending(s, f), NEW n \in 0 .. Len(s)
  PROVE  Ascending(SubSeq(s, n + 1, Len(s)), f)
<1> DEFINE r == SubSeq(s, n + 1, Len(s))
<1>1. Len(r) = Len(s) - n /\ \A i \in 1 .. Len(s) - n : r[i] = s[n + i]
  OBVIOUS
<1> HIDE DEF r
<1>2. ASSUME NEW i \in 1 .. Len(r), NEW j \in 1 .. Len(r), i < j
      PROVE  f[r[i]] <= f[r[j]]
  <2>1. n + i \in 1 .. Len(s) /\ n + j \in 1 .. Len(s) /\ n + i < n + j
    BY <1>1, <1>2
  <2>2. r[i] = s[n + i] /\ r[j] = s[n + j]
    BY <1>1
  <2> QED
    BY <2>1, <2>2 DEF Ascending
<1>3. Ascending(r, f)
  BY <1>2 DEF Ascending
<1> QED
  BY <1>3 DEF r

-----------------------------------------------------------------------------
(* The order of the list.  The signed distance of a time from the tick is  *)
(* positive while the time lies ahead.  A linked timer may be late by less *)
(* than MaxPreempt ticks, and by one more until the list is checked: it    *)
(* was due before it was inserted.  It lies less than half of the range    *)
(* ahead with MaxPreempt to spare, so any two linked timers can be         *)
(* compared.                                                               *)
OffTable == [t \in Timers |-> Off(t)]

InWindow(t) ==
  /\ 0 < Off(t) + MaxPreempt + IF checking THEN 1 ELSE 0
  /\ Off(t) + MaxPreempt < Half

(* A thread that has computed a time is late by at most MaxPreempt ticks.  *)
LittleLate(t) == Off(t) <= period[t] /\ period[t] <= Off(t) + MaxPreempt

Ordered ==
  /\ \A t \in Timers : Linked(t) => InWindow(t)
  /\ Ascending(list, OffTable)
  /\ \A th \in Threads :
       call[th].step = "insert" => LittleLate(call[th].timer)

OrderInv == ~damaged /\ overlap = {} => Ordered

LEMMA OffTyped ==
  ASSUME TypeOK
  PROVE  /\ tick \in Times /\ due \in [Timers -> Times]
         /\ OffTable \in [Timers -> Int]
         /\ \A t \in Timers : Off(t) \in Int /\ OffTable[t] = Off(t)
<1>1. tick \in Times /\ due \in [Timers -> Times]
  BY DEF TypeOK, Times
<1>2. \A t \in Timers : Off(t) \in Int
  BY <1>1, SignedIs DEF Off
<1> QED
  BY <1>1, <1>2 DEF OffTable

LEMMA OffTypedNext ==
  ASSUME TypeOK'
  PROVE  /\ tick' \in Times /\ due' \in [Timers -> Times]
         /\ OffTable' \in [Timers -> Int]
         /\ \A t \in Timers : Off(t)' \in Int /\ OffTable'[t] = Off(t)'
<1>1. tick' \in Times /\ due' \in [Timers -> Times]
  BY DEF TypeOK, Times
<1>2. \A t \in Timers : Off(t)' \in Int
  BY <1>1, SignedIs DEF Off
<1> QED
  BY <1>1, <1>2 DEF OffTable

LEMMA PeriodFits ==
  ASSUME TypeOK, NEW t \in Timers
  PROVE  /\ Period[mode[t]] \in Nat /\ 0 < Period[mode[t]]
         /\ Period[mode[t]] + MaxPreempt < Half
BY TimerAssumption DEF TypeOK

LEMMA WindowIs ==
  ASSUME TypeOK, NEW t \in Timers, InWindow(t)
  PROVE  -Half < Off(t) /\ Off(t) < Half
<1>1. checking \in BOOLEAN
  BY DEF TypeOK
<1>2. 0 < Off(t) + MaxPreempt + 1 /\ Off(t) + MaxPreempt < Half
  BY <1>1, OffTyped, HalfIs DEF InWindow
<1> QED
  BY <1>2, PeriodFits, OffTyped, HalfIs

(* Any two timers in the window can be compared. *)
LEMMA WindowWidth ==
  ASSUME TypeOK, NEW t \in Timers, NEW u \in Timers, InWindow(t), InWindow(u)
  PROVE  Off(t) - Off(u) < Half
<1>1. checking \in BOOLEAN
  BY DEF TypeOK
<1>2. 0 < Off(u) + MaxPreempt + 1 /\ Off(t) + MaxPreempt < Half
  BY <1>1, OffTyped, HalfIs DEF InWindow
<1> QED
  BY <1>2, OffTyped, HalfIs

LEMMA GoesBeforeIs ==
  ASSUME TypeOK, NEW u \in Timers, NEW d \in Times,
         Off(u) - Signed(tick, d) < Half, Signed(tick, d) - Off(u) < Half
  PROVE  GoesBefore(u, d) <=> Signed(tick, d) < Off(u)
<1>1. tick \in Times /\ due[u] \in Times
  BY OffTyped
<1>2. /\ Ahead(d, due[u]) < Half <=> Signed(tick, d) <= Off(u)
      /\ d = due[u] <=> Signed(tick, d) = Off(u)
  BY <1>1, AheadOfOther DEF Off
<1>3. Signed(tick, d) \in Int /\ Off(u) \in Int
  BY <1>1, OffTyped, SignedIs
<1> QED
  BY <1>2, <1>3 DEF GoesBefore

LEMMA OrderInserted ==
  ASSUME TypeOK, NEW seq \in Seq(Timers), NEW t \in Timers, NEW d \in Times,
         NEW f \in [Timers -> Int], f[t] = Signed(tick, d),
         \A u \in Range(seq) : /\ f[u] = Off(u)
                               /\ f[u] - f[t] < Half /\ f[t] - f[u] < Half,
         Ascending(seq, f), InsertedInto(seq, t, d)
  PROVE  Ascending(list', f)
<1>1. PICK place \in 1 .. Len(seq) + 1 :
        /\ place <= Len(seq) => GoesBefore(seq[place], d)
        /\ \A i \in 1 .. place - 1 : ~GoesBefore(seq[i], d)
        /\ list' = InsertAt(seq, place, t)
  BY DEF InsertedInto
<1>2. ASSUME NEW i \in 1 .. Len(seq)
      PROVE  GoesBefore(seq[i], d) <=> f[t] < f[seq[i]]
  <2>1. seq[i] \in Range(seq) /\ seq[i] \in Timers
    BY RangeIs
  <2> QED
    BY <2>1, GoesBeforeIs
<1>3. place <= Len(seq) => f[t] < f[seq[place]]
  BY <1>1, <1>2
<1>4. \A i \in 1 .. place - 1 : f[seq[i]] <= f[t]
  <2> TAKE i \in 1 .. place - 1
  <2>1. i \in 1 .. Len(seq) /\ seq[i] \in Timers
    OBVIOUS
  <2>2. ~(f[t] < f[seq[i]])
    BY <1>1, <1>2, <2>1
  <2>3. f[t] \in Int /\ f[seq[i]] \in Int
    BY <2>1
  <2> QED
    BY <2>2, <2>3
<1>5. Ascending(InsertAt(seq, place, t), f)
  BY <1>3, <1>4, AscendingInserted
<1> QED
  BY <1>1, <1>5

LEMMA UnlinkedAscending ==
  ASSUME TypeOK, NEW t \in Timers, NEW f \in [Timers -> Int],
         Ascending(list, f)
  PROVE  Ascending(Unlinked(t), f)
<1>1. list \in Seq(Timers)
  BY DEF TypeOK
<1>2. CASE Linked(t)
  <2> DEFINE k == CHOOSE i \in DOMAIN list : list[i] = t
  <2>1. \E i \in DOMAIN list : list[i] = t
    BY <1>2 DEF Linked, Range
  <2>2. k \in DOMAIN list
    BY <2>1
  <2>4. k \in 1 .. Len(list)
    BY <1>1, <2>2
  <2>3. Unlinked(t) = RemoveAt(list, k)
    BY <1>2 DEF Unlinked
  <2> HIDE DEF k
  <2> QED
    BY <1>1, <2>3, <2>4, AscendingRemoved
<1>3. CASE ~Linked(t)
  BY <1>3 DEF Unlinked
<1> QED
  BY <1>2, <1>3

LEMMA OrderInit == Init => OrderInv
<1> SUFFICES ASSUME Init PROVE Ordered
  BY DEF OrderInv
<1>1. list \in Seq(Timers) /\ Len(list) = 0 /\ \A t : ~Linked(t)
  BY EmptyList, EmptySeq DEF Init
<1>2. Ascending(list, OffTable)
  BY <1>1 DEF Ascending
<1>3. \A th \in Threads : call[th].step # "insert"
  BY DEF Init, Out
<1> QED
  BY <1>1, <1>2, <1>3 DEF Ordered

(* Times and tick as they are: the list may lose timers, and only threads  *)
(* that computed their time before are about to insert.                    *)
LEMMA OrderStays ==
  ASSUME TypeOK, Ordered, UNCHANGED <<tick, checking>>,
         \A t \in Timers : Linked(t)' => Linked(t) /\ due'[t] = due[t],
         Ascending(list', OffTable'),
         \A th \in Threads :
           call'[th].step = "insert" => LittleLate(call[th].timer)'
  PROVE  Ordered'
<1>1. ASSUME NEW t \in Timers, Linked(t)' PROVE InWindow(t)'
  <2>1. InWindow(t) /\ due'[t] = due[t]
    BY <1>1 DEF Ordered
  <2> QED
    BY <2>1 DEF InWindow, Off
<1> QED
  BY <1>1 DEF Ordered

LEMMA SameOffs ==
  ASSUME UNCHANGED <<tick, due>>
  PROVE  OffTable' = OffTable /\ \A t : Off(t)' = Off(t)
BY DEF OffTable, Off

(* A thread about to insert a timer works on it, alone. *)
LEMMA Inserting ==
  ASSUME ListInv, TimersInv, overlap = {},
         NEW o \in Threads, call[o].step = "insert"
  PROVE  LET t == call[o].timer IN
         /\ t \in Timers /\ Working(o, t) /\ ~Linked(t)
         /\ period[t] = Period[mode[t]]
         /\ \A th \in Threads : Working(th, t) => th = o
<1>1. call[o] \in Calls /\ call[o] # Out
  BY DEF ListInv, TypeOK, Out
<1>2. call[o].timer \in Timers
  BY <1>1 DEF Calls
<1>3. Working(o, call[o].timer)
  BY <1>1 DEF Working
<1>4. Undisturbed(call[o].timer)
  BY <1>2 DEF TimersInv
<1>5. Progress(o, call[o].timer)
  BY <1>3, <1>4 DEF Undisturbed
<1>6. \A th \in Threads : Working(th, call[o].timer) => th = o
  BY <1>3, <1>4 DEF Undisturbed
<1>7. ~Linked(call[o].timer)
      /\ period[call[o].timer] = Period[mode[call[o].timer]]
  BY <1>5 DEF Progress
<1> QED
  BY <1>2, <1>3, <1>6, <1>7

LEMMA OrderOthers ==
  ASSUME ListInv, TimersInv, overlap = {}, Ordered,
         NEW th \in Threads, NEW t \in Timers, Working(th, t), tick' = tick,
         \A o \in Threads \ {th} : call'[o] = call[o],
         \A u \in Timers \ {t} : due'[u] = due[u] /\ period'[u] = period[u],
         NEW o \in Threads \ {th}, call'[o].step = "insert"
  PROVE  LittleLate(call[o].timer)'
<1>1. call'[o] = call[o] /\ call[o].step = "insert"
  OBVIOUS
<1>2. call[o].timer \in Timers \ {t}
  BY <1>1, Inserting
<1>3. LittleLate(call[o].timer)
  BY <1>1 DEF Ordered
<1>4. /\ due'[call[o].timer] = due[call[o].timer]
      /\ period'[call[o].timer] = period[call[o].timer]
  BY <1>2
<1> QED
  BY <1>1, <1>3, <1>4 DEF LittleLate, Off

LEMMA OrderBegin ==
  ASSUME ListInv, Ordered, NEW th \in Threads, NEW t \in Timers,
         \/ \E m \in ModesOf[t] : CallEnable(th, t, m)
         \/ CallStart(th, t)
         \/ CallDisable(th, t)
  PROVE  Ordered'
<1>1. UNCHANGED <<tick, checking, list, due, period>>
  BY DEF CallEnable, CallStart, CallDisable
<1>2. /\ \A o \in Threads \ {th} : call'[o] = call[o]
      /\ call'[th].step # "insert"
  <2>1. ASSUME NEW m \in ModesOf[t], CallEnable(th, t, m)
        PROVE  /\ \A o \in Threads \ {th} : call'[o] = call[o]
               /\ call'[th].step # "insert"
    <3>1. Period[m] \in Nat
      BY PeriodIsNat, ModeOfTimer
    <3> QED
      BY <2>1, <3>1, BegunCall DEF CallEnable, ListInv, Steps
  <2>2. ASSUME CallStart(th, t) \/ CallDisable(th, t)
        PROVE  /\ \A o \in Threads \ {th} : call'[o] = call[o]
               /\ call'[th].step # "insert"
    BY <2>2, BegunCall DEF CallStart, CallDisable, ListInv, Steps
  <2> QED
    BY <2>1, <2>2
<1>3. OffTable' = OffTable /\ \A u : Off(u)' = Off(u)
  BY <1>1, SameOffs
<1>4. Ascending(list', OffTable')
  BY <1>1, <1>3 DEF Ordered
<1>5. \A o \in Threads :
        call'[o].step = "insert" => LittleLate(call[o].timer)'
  BY <1>1, <1>2, <1>3 DEF Ordered, LittleLate
<1>6. \A u \in Timers : Linked(u)' => Linked(u) /\ due'[u] = due[u]
  BY <1>1 DEF Linked
<1> QED
  BY <1>1, <1>4, <1>5, <1>6, OrderStays DEF ListInv

LEMMA OrderGoOn ==
  ASSUME ListInv, TimersInv, overlap = {}, Ordered, NEW th \in Threads,
         \/ SetTime(th) \/ RemoveTimer(th) \/ Unlink(th) \/ ClearFlag(th)
  PROVE  Ordered'
<1>0. PICK t \in Timers : t = call[th].timer
  BY CallFields
     DEF SetTime, RemoveTimer, Unlink, ClearFlag, ListInv, Steps
<1>1. UNCHANGED <<tick, checking, due>>
  BY DEF SetTime, RemoveTimer, Unlink, ClearFlag
<1>2. /\ Working(th, t)
      /\ \A o \in Threads \ {th} : call'[o] = call[o]
      /\ call'[th].step # "insert"
  <2>1. CASE SetTime(th) \/ RemoveTimer(th) \/ Unlink(th)
    BY <2>1, <1>0, CallFields, MovedCall
       DEF SetTime, RemoveTimer, Unlink, ListInv, Steps, Working
  <2>2. CASE ClearFlag(th)
    BY <2>2, <1>0, CallFields, ReturnedCall
       DEF ClearFlag, ListInv, Steps, Working, Out
  <2> QED
    BY <2>1, <2>2
<1>3. \A u \in Timers \ {t} : due'[u] = due[u] /\ period'[u] = period[u]
  BY <1>0, <1>1 DEF SetTime, RemoveTimer, Unlink, ClearFlag, ListInv, TypeOK
<1>4. list' = list \/ list' = Unlinked(t)
  BY <1>0 DEF SetTime, RemoveTimer, Unlink, ClearFlag
<1>5. OffTable' = OffTable
  BY <1>1, SameOffs
<1>6. OffTable \in [Timers -> Int] /\ Ascending(list, OffTable)
  BY OffTyped DEF ListInv, Ordered
<1>7. Ascending(list', OffTable')
  BY <1>4, <1>5, <1>6, UnlinkedAscending DEF ListInv
<1>8. \A u \in Timers : Linked(u)' => Linked(u) /\ due'[u] = due[u]
  BY <1>1, <1>4, ListUnlinked DEF ListInv, TypeOK, Linked
<1>9. \A o \in Threads :
        call'[o].step = "insert" => LittleLate(call[o].timer)'
  BY <1>1, <1>2, <1>3, OrderOthers
<1> QED
  BY <1>1, <1>7, <1>8, <1>9, OrderStays DEF ListInv

LEMMA OrderCompute ==
  ASSUME ListInv, TimersInv, overlap = {}, Ordered, NEW th \in Threads,
         ComputeDue(th)
  PROVE  Ordered'
<1>0. PICK t \in Timers : t = call[th].timer
  BY CallFields DEF ComputeDue, ListInv, Steps
<1>1. UNCHANGED <<tick, checking, list, period>>
  BY DEF ComputeDue
<1>2. /\ Working(th, t) /\ call[th].step = "compute" /\ call'[th].timer = t
      /\ \A o \in Threads \ {th} : call'[o] = call[o]
  BY <1>0, CallFields, MovedCall DEF ComputeDue, ListInv, Steps, Working
<1>3. ~Linked(t) /\ period[t] = Period[mode[t]]
  <2>1. Undisturbed(t)
    BY DEF TimersInv
  <2>2. Progress(th, t)
    BY <1>2, <2>1 DEF Undisturbed
  <2> QED
    BY <1>2, <2>2 DEF Progress
<1>4. due' = [due EXCEPT ![t] = (tick + period[t]) % TickMod]
  BY <1>0 DEF ComputeDue, DueNow
<1>5. tick \in Times /\ due \in [Timers -> Times]
  BY OffTyped DEF ListInv
<1>6. due'[t] = (tick + period[t]) % TickMod
      /\ \A u \in Timers \ {t} : due'[u] = due[u]
  BY <1>4, <1>5
<1>7. LittleLate(t)'
  <2>1. period[t] \in Nat /\ period[t] < Half
    BY <1>3, PeriodFits, HalfIs DEF ListInv
  <2>2. Off(t)' = period[t]
    BY <1>1, <1>5, <1>6, <2>1, SignedSum DEF Off
  <2> QED
    BY <1>1, <2>1, <2>2, HalfIs DEF LittleLate
<1>8. \A u \in Timers : Linked(u)' => Linked(u) /\ due'[u] = due[u]
  BY <1>1, <1>3, <1>6 DEF Linked
<1>9. \A o \in Threads :
        call'[o].step = "insert" => LittleLate(call[o].timer)'
  BY <1>1, <1>2, <1>6, <1>7, OrderOthers
<1>10. Ascending(list', OffTable')
  <2>1. TypeOK'
    BY ListInvNext DEF ListInv, Next
  <2>2. OffTable \in [Timers -> Int] /\ OffTable' \in [Timers -> Int]
    BY <2>1, OffTyped, OffTypedNext DEF ListInv
  <2>3. ASSUME NEW u \in Range(list) PROVE OffTable'[u] = OffTable[u] - 0
    <3>3. list \in Seq(Timers)
      BY DEF ListInv, TypeOK
    <3>1. u \in Timers /\ u # t
      BY <2>3, <1>3, <3>3, RangeIs DEF Linked
    <3>2. Off(u)' = Off(u)
      BY <1>1, <1>6, <3>1 DEF Off
    <3> QED
      BY <2>1, <3>1, <3>2, OffTyped, OffTypedNext DEF ListInv
  <2>4. list \in Seq(Timers) /\ Ascending(list, OffTable) /\ 0 \in Int
    BY DEF ListInv, TypeOK, Ordered
  <2>5. Ascending(list, OffTable')
    BY <2>2, <2>3, <2>4, SameValues
  <2> QED
    BY <1>1, <2>5
<1> QED
  BY <1>1, <1>8, <1>9, <1>10, OrderStays DEF ListInv

LEMMA OrderInsert ==
  ASSUME ListInv, TimersInv, overlap = {}, Ordered, NEW th \in Threads,
         InsertTimer(th)
  PROVE  Ordered'
<1>0. PICK t \in Timers : t = call[th].timer
  BY CallFields DEF InsertTimer, ListInv, Steps
<1>1. UNCHANGED <<tick, checking, due, period>>
  BY DEF InsertTimer
<1>2. call[th].step = "insert" /\ Working(th, t)
  BY <1>0, CallFields DEF InsertTimer, Runs, ListInv, Steps, Working
<1>3. ~Linked(t) /\ period[t] = Period[mode[t]]
  BY <1>0, <1>2, Inserting
<1>4. call'[th].step # "insert" /\ \A o \in Threads \ {th} : call'[o] = call[o]
  BY ReturnedCall DEF InsertTimer, ListInv, Out
<1>5. InsertedInto(list, t, due[t])
  BY <1>0, <1>3 DEF InsertTimer
<1>6. list \in Seq(Timers) /\ Injective(list) /\ t \notin Range(list)
  BY <1>3 DEF ListInv, TypeOK, Linked
<1>7. \A u : Linked(u)' <=> Linked(u) \/ u = t
  BY <1>5, <1>6, ListInserted DEF Linked
<1>8. InWindow(t)
  <2>1. LittleLate(t)
    BY <1>0, <1>2 DEF Ordered
  <2>2. 0 < period[t] /\ period[t] + MaxPreempt < Half /\ period[t] \in Nat
    BY <1>3, PeriodFits DEF ListInv
  <2>3. Off(t) \in Int
    BY OffTyped DEF ListInv
  <2>4. 0 < Off(t) + MaxPreempt /\ Off(t) + MaxPreempt < Half
    BY <2>1, <2>2, <2>3, HalfIs DEF LittleLate
  <2>5. 0 <= IF checking THEN 1 ELSE 0
    OBVIOUS
  <2> QED
    BY <2>3, <2>4, <2>5, HalfIs DEF InWindow
<1>9. \A u \in Timers : Linked(u)' => InWindow(u)'
  <2> SUFFICES ASSUME NEW u \in Timers, Linked(u)' PROVE InWindow(u)'
    OBVIOUS
  <2>1. InWindow(u)
    BY <1>7, <1>8 DEF Ordered
  <2> QED
    BY <1>1, <2>1 DEF InWindow, Off
<1>10. OffTable \in [Timers -> Int] /\ OffTable[t] = Signed(tick, due[t])
       /\ due[t] \in Times
  BY OffTyped DEF ListInv, Off
<1>11. \A u \in Range(list) : /\ OffTable[u] = Off(u)
                              /\ OffTable[u] - OffTable[t] < Half
                              /\ OffTable[t] - OffTable[u] < Half
  <2> TAKE u \in Range(list)
  <2>1. u \in Timers /\ Linked(u)
    BY <1>6, RangeIs DEF Linked
  <2>2. InWindow(u)
    BY <2>1 DEF Ordered
  <2>3. OffTable[u] = Off(u) /\ OffTable[t] = Off(t)
    BY <2>1, OffTyped DEF ListInv
  <2> QED
    BY <1>8, <2>1, <2>2, <2>3, WindowWidth DEF ListInv
<1>12. Ascending(list, OffTable)
  BY DEF Ordered
<1>13. Ascending(list', OffTable)
  BY <1>5, <1>6, <1>10, <1>11, <1>12, OrderInserted DEF ListInv
<1>14. Ascending(list', OffTable')
  BY <1>1, <1>13, SameOffs
<1>15. \A o \in Threads :
         call'[o].step = "insert" => LittleLate(call[o].timer)'
  BY <1>1, <1>2, <1>4, OrderOthers
<1> QED
  BY <1>9, <1>14, <1>15 DEF Ordered

LEMMA OrderIsr ==
  ASSUME ListInv, TimersInv, overlap' = {}, Ordered,
         NEW t \in IsrTimers, NEW m \in ModesOf[t], IsrEnable(t, m)
  PROVE  Ordered'
<1>0. /\ t \in Timers /\ m \in Modes /\ overlap = {}
      /\ \A th \in Threads : ~Working(th, t)
  <2>1. t \in Timers
    BY TimerAssumption
  <2>2. overlap = {} /\ ~Busy(t)
    BY DEF IsrEnable, Overlap
  <2> QED
    BY <2>1, <2>2, ModeOfTimer, BusyIs
<1>1. UNCHANGED <<tick, checking, call>>
  BY DEF IsrEnable
<1> DEFINE d == (tick + Period[m]) % TickMod
<1>2. /\ due' = [due EXCEPT ![t] = d]
      /\ period' = [period EXCEPT ![t] = Period[m]]
      /\ InsertedInto(Unlinked(t), t, d)
  BY DEF IsrEnable
<1>3. /\ tick \in Times /\ due \in [Timers -> Times]
      /\ period \in [Timers -> Nat]
  BY OffTyped DEF ListInv, TypeOK
<1>4. \A u \in Timers \ {t} :
        due'[u] = due[u] /\ period'[u] = period[u] /\ Off(u)' = Off(u)
  BY <1>1, <1>2, <1>3 DEF Off
<1>5. TypeOK'
  BY <1>0, ListInvNext DEF ListInv, Next
<1>6. /\ Period[m] \in Nat /\ 0 < Period[m]
      /\ Period[m] + MaxPreempt < Half /\ Period[m] < Half
  BY TimerAssumption, HalfIs, <1>0
<1>7. Off(t)' = Period[m] /\ Signed(tick, d) = Period[m] /\ due'[t] = d
  BY <1>0, <1>1, <1>2, <1>3, <1>6, SignedSum DEF Off
<1>8. d \in Times
  BY <1>3, <1>6, HalfIs, ModInRange DEF Times
<1> HIDE DEF d
<1>9. InWindow(t)'
  <2>1. 0 <= IF checking' THEN 1 ELSE 0
    OBVIOUS
  <2> QED
    BY <1>6, <1>7, <2>1, HalfIs DEF InWindow
<1>10. /\ Unlinked(t) \in Seq(Timers) /\ Injective(Unlinked(t))
       /\ \A u : u \in Range(Unlinked(t)) <=> Linked(u) /\ u # t
  BY <1>0, ListUnlinked DEF ListInv, TypeOK
<1>11. \A u : Linked(u)' <=> Linked(u) \/ u = t
  BY IsrList DEF Linked
<1>12. \A u \in Timers : Linked(u)' => InWindow(u)'
  <2> SUFFICES ASSUME NEW u \in Timers, Linked(u)', u # t PROVE InWindow(u)'
    BY <1>9
  <2>1. InWindow(u)
    BY <1>11 DEF Ordered
  <2> QED
    BY <1>1, <1>4, <2>1 DEF InWindow
<1>13. /\ OffTable \in [Timers -> Int] /\ OffTable' \in [Timers -> Int]
       /\ \A u \in Timers : OffTable[u] = Off(u) /\ OffTable'[u] = Off(u)'
  BY <1>5, OffTyped, OffTypedNext DEF ListInv
<1>14. Ascending(Unlinked(t), OffTable')
  <2>1. Ascending(Unlinked(t), OffTable)
    BY <1>0, <1>13, UnlinkedAscending DEF ListInv, Ordered
  <2>2. ASSUME NEW u \in Range(Unlinked(t))
        PROVE  OffTable'[u] = OffTable[u] - 0
    <3>1. u \in Timers /\ u # t
      BY <1>10, <2>2, RangeIs
    <3>2. OffTable'[u] = OffTable[u] /\ OffTable[u] \in Int
      BY <1>4, <1>13, <3>1
    <3> QED
      BY <3>2
  <2>3. 0 \in Int
    OBVIOUS
  <2> QED
    BY <1>10, <1>13, <2>1, <2>2, <2>3, SameValues
<1>15. \A u \in Range(Unlinked(t)) :
         /\ OffTable'[u] = Off(u)
         /\ OffTable'[u] - OffTable'[t] < Half
         /\ OffTable'[t] - OffTable'[u] < Half
  <2> TAKE u \in Range(Unlinked(t))
  <2>1. u \in Timers /\ u # t /\ Linked(u)
    BY <1>10, RangeIs
  <2>2. InWindow(u) /\ checking \in BOOLEAN /\ Off(u) \in Int
    BY <2>1, OffTyped DEF Ordered, ListInv, TypeOK
  <2>3. 0 < Off(u) + MaxPreempt + 1 /\ Off(u) + MaxPreempt < Half
    BY <2>2, HalfIs DEF InWindow
  <2>4. OffTable'[u] = Off(u) /\ OffTable'[t] = Period[m]
    BY <1>0, <1>4, <1>7, <1>13, <2>1
  <2> QED
    BY <1>6, <2>2, <2>3, <2>4, HalfIs
<1>16. Ascending(list', OffTable')
  <2>1. OffTable'[t] = Signed(tick, d)
    BY <1>0, <1>7, <1>13
  <2> QED
    BY <1>0, <1>2, <1>8, <1>10, <1>13, <1>14, <1>15, <2>1, OrderInserted
       DEF ListInv
<1>17. \A o \in Threads :
         call'[o].step = "insert" => LittleLate(call[o].timer)'
  <2> SUFFICES ASSUME NEW o \in Threads, call[o].step = "insert"
               PROVE  LittleLate(call[o].timer)'
    BY <1>1
  <2>1. call[o].timer \in Timers /\ call[o].timer # t
    BY <1>0, Inserting
  <2>2. LittleLate(call[o].timer)
    BY DEF Ordered
  <2> QED
    BY <1>1, <1>4, <2>1, <2>2 DEF LittleLate
<1> QED
  BY <1>12, <1>16, <1>17 DEF Ordered

LEMMA OrderTick ==
  ASSUME ListInv, TimersInv, overlap = {}, Ordered, Tick
  PROVE  Ordered'
<1>1. /\ tick' = (tick + 1) % TickMod /\ ~checking /\ checking' = TRUE
      /\ UNCHANGED <<list, due, period, call>>
  BY DEF Tick
<1>2. tick \in Times /\ due \in [Timers -> Times]
  BY OffTyped DEF ListInv
<1>3. TypeOK'
  BY ListInvNext DEF ListInv, Next
<1>4. ASSUME NEW t \in Timers, -Half < Off(t) PROVE Off(t)' = Off(t) - 1
  BY <1>1, <1>2, <1>4, SignedTicks DEF Off
<1>5. ASSUME NEW t \in Timers, Linked(t)
      PROVE  InWindow(t)' /\ Off(t)' = Off(t) - 1
  <2>1. InWindow(t)
    BY <1>5 DEF Ordered
  <2>2. -Half < Off(t)
    BY <2>1, WindowIs DEF ListInv
  <2>3. Off(t)' = Off(t) - 1
    BY <1>4, <2>2
  <2>4. 0 < Off(t) + MaxPreempt /\ Off(t) + MaxPreempt < Half
        /\ Off(t) \in Int
    BY <1>1, <2>1, OffTyped, HalfIs DEF InWindow, ListInv
  <2>5. InWindow(t)'
    BY <1>1, <2>3, <2>4, HalfIs DEF InWindow
  <2> QED
    BY <2>3, <2>5
<1>6. \A t \in Timers : Linked(t)' => InWindow(t)'
  BY <1>1, <1>5 DEF Linked
<1>7. /\ OffTable \in [Timers -> Int] /\ OffTable' \in [Timers -> Int]
      /\ \A t \in Timers : OffTable[t] = Off(t) /\ OffTable'[t] = Off(t)'
  BY <1>3, OffTyped, OffTypedNext DEF ListInv
<1>8. list \in Seq(Timers) /\ Ascending(list, OffTable) /\ 1 \in Int
  BY DEF ListInv, TypeOK, Ordered
<1>9. \A t \in Range(list) : OffTable'[t] = OffTable[t] - 1
  <2> TAKE t \in Range(list)
  <2>1. t \in Timers /\ Linked(t)
    BY <1>8, RangeIs DEF Linked
  <2> QED
    BY <1>5, <1>7, <2>1
<1>10. Ascending(list, OffTable')
  BY <1>7, <1>8, <1>9, SameValues
<1>11. ASSUME NEW o \in Threads, call[o].step = "insert"
       PROVE  LittleLate(call[o].timer)'
  <2>1. PICK t \in Timers : t = call[o].timer
    BY <1>11, Inserting
  <2>2. LittleLate(t) /\ period[t] = Period[mode[t]]
    BY <1>11, <2>1, Inserting DEF Ordered
  <2>3. /\ period[t] \in Nat /\ 0 < period[t]
        /\ period[t] + MaxPreempt < Half /\ Off(t) \in Int
    BY <2>2, PeriodFits, OffTyped DEF ListInv
  <2>4. Off(t) <= period[t] /\ period[t] <= Off(t) + MaxPreempt
    BY <2>2 DEF LittleLate
  <2>5. period[t] < Half /\ period[t] - Off(t) < Half /\ -Half < Off(t)
    BY <2>3, <2>4, HalfIs
  <2>6. Ahead(due[t] - period[t], tick) = period[t] - Off(t)
    BY <1>2, <2>3, <2>4, <2>5, LateIs DEF Off
  <2>7. Ahead(due[t] - period[t], tick) < MaxPreempt
    BY <1>11, <2>1 DEF Tick
  <2>8. Off(t)' = Off(t) - 1
    BY <1>4, <2>5
  <2>9. LittleLate(t)'
    BY <1>1, <2>3, <2>4, <2>6, <2>7, <2>8, HalfIs DEF LittleLate
  <2> QED
    BY <2>1, <2>9, <1>1
<1>12. \A o \in Threads :
         call'[o].step = "insert" => LittleLate(call[o].timer)'
  BY <1>1, <1>11
<1> QED
  BY <1>1, <1>6, <1>10, <1>12 DEF Ordered

(* All that the check leaves in the list lies ahead, although it stops at  *)
(* the first timer that does.                                              *)
LEMMA CheckLeaves ==
  ASSUME ListInv, Ordered, Check
  PROVE  /\ list' \in Seq(Timers) /\ Ascending(list', OffTable)
         /\ \A i \in 1 .. Len(list') : Linked(list'[i]) /\ 0 < Off(list'[i])
<1>1. PICK n \in 0 .. Len(list) :
        Expire(n) /\ list' = SubSeq(list, n + 1, Len(list))
  BY DEF Check
<1>2. /\ list \in Seq(Timers) /\ Ascending(list, OffTable)
      /\ OffTable \in [Timers -> Int] /\ Injective(list)
  BY OffTyped DEF ListInv, TypeOK, Ordered
<1>3. Ascending(list', OffTable)
  BY <1>1, <1>2, AscendingSuffix
<1>4. /\ list' \in Seq(Timers) /\ Len(list') = Len(list) - n
      /\ \A i \in 1 .. Len(list) - n : list'[i] = list[n + i]
  BY <1>1, <1>2
<1>5. ASSUME NEW i \in 1 .. Len(list')
      PROVE  Linked(list'[i]) /\ 0 < Off(list'[i])
  <2>1. n + 1 \in 1 .. Len(list) /\ n + i \in 1 .. Len(list) /\ n < Len(list)
    BY <1>2, <1>4, <1>5
  <2>2. PICK t \in Timers : t = list[n + 1]
    BY <1>2, <2>1
  <2>12. list'[i] = list[n + i] /\ list[n + i] \in Timers
    BY <1>2, <1>4, <1>5, <2>1
  <2>3. PICK u \in Timers : u = list'[i] /\ u = list[n + i]
    BY <2>12
  <2>4. Linked(t) /\ Linked(u)
    BY <1>2, <2>1, <2>2, <2>3, RangeIs DEF Linked
  <2>5. ~Overdue(t)
    BY <1>1, <2>1, <2>2 DEF Expire
  <2>6. -Half < Off(t) /\ Off(t) < Half /\ Off(t) \in Int /\ Off(u) \in Int
    BY <2>4, WindowIs, OffTyped DEF ListInv, Ordered
  <2>7. tick \in Times /\ due[t] \in Times
    BY OffTyped DEF ListInv
  <2>8. Overdue(t) <=> Off(t) <= 0
    BY <2>6, <2>7, AheadOfNow DEF Overdue, Off
  <2>9. 0 < Off(t)
    BY <2>5, <2>6, <2>8
  <2>10. OffTable[t] = Off(t) /\ OffTable[u] = Off(u)
    BY OffTyped DEF ListInv
  <2>11. Off(t) <= Off(u)
    <3>1. CASE i = 1
      BY <3>1, <2>2, <2>3, <2>6
    <3>2. CASE 1 < i
      BY <3>2, <1>2, <2>1, <2>2, <2>3, <2>10 DEF Ascending
    <3> QED
      BY <3>1, <3>2, <1>4
  <2> QED
    BY <2>3, <2>4, <2>6, <2>9, <2>11
<1> QED
  BY <1>3, <1>4, <1>5

LEMMA OrderCheck ==
  ASSUME ListInv, Ordered, Check
  PROVE  Ordered'
<1>1. UNCHANGED <<tick, due, period, call>> /\ checking' = FALSE
  BY DEF Check
<1>2. /\ list' \in Seq(Timers) /\ Ascending(list', OffTable)
      /\ \A i \in 1 .. Len(list') : Linked(list'[i]) /\ 0 < Off(list'[i])
  BY CheckLeaves
<1>3. OffTable' = OffTable /\ \A t : Off(t)' = Off(t)
  BY <1>1, SameOffs
<1>4. ASSUME NEW t \in Timers, Linked(t)' PROVE InWindow(t)'
  <2>1. Linked(t) /\ 0 < Off(t)
    BY <1>2, <1>4, RangeIs DEF Linked
  <2>2. Off(t) + MaxPreempt < Half /\ Off(t) \in Int
    BY <2>1, OffTyped DEF Ordered, InWindow, ListInv
  <2> QED
    BY <1>1, <1>3, <2>1, <2>2, HalfIs DEF InWindow
<1>5. \A o \in Threads :
        call'[o].step = "insert" => LittleLate(call[o].timer)'
  BY <1>1, <1>3 DEF Ordered, LittleLate
<1> QED
  BY <1>2, <1>3, <1>4, <1>5 DEF Ordered

LEMMA OrderInvNext ==
  ListInv /\ TimersInv /\ OrderInv /\ [Next]_vars => OrderInv'
<1> SUFFICES ASSUME ListInv, TimersInv, OrderInv, [Next]_vars,
                    ~damaged', overlap' = {}
             PROVE  Ordered'
  BY DEF OrderInv
<1>1. ASSUME NEW th \in Threads, NEW t \in Timers,
             \/ \E m \in ModesOf[t] : CallEnable(th, t, m)
             \/ CallStart(th, t)
             \/ CallDisable(th, t)
      PROVE  Ordered'
  <2>1. ~damaged /\ overlap' = Overlap(t)
    BY <1>1 DEF CallEnable, CallStart, CallDisable, Begins
  <2>2. Ordered
    BY <2>1 DEF OrderInv, Overlap
  <2> QED
    BY <1>1, <2>2, OrderBegin
<1>2. ASSUME NEW th \in Threads,
             \/ SetTime(th) \/ RemoveTimer(th) \/ ComputeDue(th)
             \/ InsertTimer(th) \/ Unlink(th) \/ ClearFlag(th)
      PROVE  Ordered'
  <2>1. ~damaged /\ overlap = {}
    BY <1>2
       DEF SetTime, RemoveTimer, ComputeDue, InsertTimer, Unlink, ClearFlag,
           Runs
  <2>2. Ordered
    BY <2>1 DEF OrderInv
  <2> QED
    BY <1>2, <2>1, <2>2, OrderGoOn, OrderCompute, OrderInsert
<1>3. ASSUME NEW t \in IsrTimers, NEW m \in ModesOf[t], IsrEnable(t, m)
      PROVE  Ordered'
  <2>1. ~damaged /\ overlap' = Overlap(t)
    BY <1>3 DEF IsrEnable, Begins
  <2>2. Ordered
    BY <2>1 DEF OrderInv, Overlap
  <2> QED
    BY <1>3, <2>2, OrderIsr
<1>4. CASE Tick
  <2>1. Ordered /\ overlap = {}
    BY <1>4 DEF Tick, OrderInv
  <2> QED
    BY <1>4, <2>1, OrderTick
<1>5. CASE Check
  <2>1. Ordered
    BY <1>5 DEF Check, OrderInv
  <2> QED
    BY <1>5, <2>1, OrderCheck
<1>6. CASE UNCHANGED vars
  <2>1. Ordered
    BY <1>6 DEF vars, OrderInv
  <2>2. UNCHANGED <<tick, checking, list, due, period, call>>
    BY <1>6 DEF vars
  <2>3. OffTable' = OffTable /\ \A t : Off(t)' = Off(t)
    BY <2>2, SameOffs
  <2> QED
    BY <2>1, <2>2, <2>3 DEF Ordered, InWindow, LittleLate, Linked
<1> QED
  BY <1>1, <1>2, <1>3, <1>4, <1>5, <1>6 DEF Next

LEMMA OrderInvariant == Spec => [](ListInv /\ OrderInv)
BY TimersInvariant, OrderInit, OrderInvNext, PTL DEF Spec

(* rt_timer_start keeps the list in the order of the times, for any length *)
(* of the tick's range and any number of wraps, as long as no timer is     *)
(* worked on twice at a time (timer.c:355).                                *)
THEOREM ListAlwaysSorted == Spec => []ListSorted
<1>1. ListInv /\ OrderInv => ListSorted
  <2> SUFFICES ASSUME ListInv, Ordered,
                      NEW i \in DOMAIN list, NEW j \in DOMAIN list, i < j
               PROVE  /\ list[i] # list[j]
                      /\ Ahead(due[list[i]], due[list[j]]) < Half
    BY DEF ListSorted, OrderInv
  <2>1. list \in Seq(Timers) /\ Injective(list) /\ Ascending(list, OffTable)
    BY DEF ListInv, TypeOK, Ordered
  <2>2. i \in 1 .. Len(list) /\ j \in 1 .. Len(list)
    BY <2>1
  <2>3. PICK t \in Timers : t = list[i]
    BY <2>1, <2>2
  <2>4. PICK u \in Timers : u = list[j]
    BY <2>1, <2>2
  <2>5. InWindow(t) /\ InWindow(u)
    BY <2>1, <2>2, <2>3, <2>4, RangeIs DEF Ordered, Linked
  <2>6. Off(t) - Off(u) < Half /\ Off(u) - Off(t) < Half
    BY <2>5, WindowWidth DEF ListInv
  <2>7. Off(t) <= Off(u)
    BY <2>1, <2>2, <2>3, <2>4, OffTyped DEF Ascending, ListInv
  <2>8. tick \in Times /\ due[t] \in Times /\ due[u] \in Times
    BY OffTyped DEF ListInv
  <2>9. Ahead(due[t], due[u]) < Half
    BY <2>6, <2>7, <2>8, AheadOfOther DEF Off
  <2>10. list[i] # list[j]
    BY <2>1, <2>2, InjectiveIs
  <2> QED
    BY <2>3, <2>4, <2>9, <2>10
<1> QED
  BY <1>1, OrderInvariant, PTL

(* rt_timer_check stops at the first timer that is not due and leaves none *)
(* behind it that is (timer.c:541).                                        *)
THEOREM CheckNeverMisses == Spec => CheckMissesNone
<1>1. ASSUME ListInv, OrderInv, [Next]_vars
      PROVE  [(Check /\ overlap = {}) =>
                \A i \in DOMAIN list' : ~Overdue(list'[i])]_vars
  <2> SUFFICES ASSUME Check, overlap = {}, NEW i \in DOMAIN list'
               PROVE  ~Overdue(list'[i])
    OBVIOUS
  <2>1. Ordered
    BY <1>1 DEF Check, OrderInv
  <2>2. /\ list' \in Seq(Timers)
        /\ \A k \in 1 .. Len(list') : Linked(list'[k]) /\ 0 < Off(list'[k])
    BY <1>1, <2>1, CheckLeaves
  <2>3. PICK t \in Timers : t = list'[i]
    BY <2>2
  <2>4. Linked(t) /\ 0 < Off(t)
    BY <2>2, <2>3
  <2>5. -Half < Off(t) /\ Off(t) < Half /\ Off(t) \in Int
    BY <1>1, <2>1, <2>4, WindowIs, OffTyped DEF ListInv, Ordered
  <2>6. tick \in Times /\ due[t] \in Times
    BY <1>1, OffTyped DEF ListInv
  <2>7. Overdue(t) <=> Off(t) <= 0
    BY <2>5, <2>6, AheadOfNow DEF Overdue, Off
  <2> QED
    BY <2>3, <2>4, <2>5, <2>7
<1> QED
  BY <1>1, OrderInvariant, PTL DEF Spec, CheckMissesNone
=============================================================================
