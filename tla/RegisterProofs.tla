--------------------------- MODULE RegisterProofs ---------------------------
(***************************************************************************)
(* Proofs about RegisterExchange: the table of function handlers, what     *)
(* requests do to the memory of the slave, and how far the copies of the   *)
(* master agree with that memory.                                          *)
(***************************************************************************)
EXTENDS RegisterExchange, FiniteSetTheorems, WellFoundedInduction, TLAPS

(***************************************************************************)
(* Least elements.                                                         *)
(***************************************************************************)

\* Every set of naturals that has an element has a least one.
LEMMA LeastExists ==
  ASSUME NEW S \in SUBSET Nat, S # {}
  PROVE  \E i \in S : \A j \in S : i <= j
<1>1. IsWellFoundedOn(OpToRel(<, Nat), Nat)
  BY NatLessThanWellFounded
<1>2. PICK i \in S : \A j \in S : ~(<<j, i>> \in OpToRel(<, Nat))
  BY <1>1, WFMin
<1>3. \A j \in S : ~(j < i)
  BY <1>2 DEF OpToRel
<1> QED
  BY <1>3

\* First gives the least element of a set of naturals that has one.
LEMMA FirstIsLeast ==
  ASSUME NEW S \in SUBSET Nat, S # {}
  PROVE  First(S) \in S /\ \A j \in S : First(S) <= j
<1>1. \E i \in S : \A j \in S : i <= j
  BY LeastExists
<1> QED
  BY <1>1 DEF First

-----------------------------------------------------------------------------
(***************************************************************************)
(* The table of handlers.                                                  *)
(***************************************************************************)

(* An entry is a hole or the handler of a code that is not removed.        *)
OwnHandlers ==
  \A i \in 1 .. FuncHandlersMax :
    \/ xFuncHandlers[i] = Hole
    \/ \E c \in Functions \ removed :
         xFuncHandlers[i] = [code |-> c, handler |-> c]

(* No code is in two entries. *)
NoneTwice ==
  \A i, j \in 1 .. FuncHandlersMax :
    (/\ xFuncHandlers[i].code \in Functions
     /\ xFuncHandlers[i].code = xFuncHandlers[j].code) => i = j

(* A code that is not removed is in one of the first nine entries: where a *)
(* handler goes that is registered again, another one was removed before.  *)
AmongFirstNine ==
  \A c \in Functions \ removed : \E i \in 1 .. 9 : xFuncHandlers[i].code = c

TableInv ==
  /\ xFuncHandlers \in Tables
  /\ DOMAIN xFuncHandlers = 1 .. FuncHandlersMax
  /\ removed \subseteq Functions
  /\ OwnHandlers /\ NoneTwice /\ AmongFirstNine

LEMMA NineFunctions == IsFiniteSet(Functions) /\ Cardinality(Functions) = 9
<1> DEFINE order == <<"ReadInputs", "ReadHoldings", "WriteHoldings",
                      "WriteHolding", "ReadWriteHoldings", "ReadCoils",
                      "WriteCoil", "WriteCoils", "ReadDiscretes">>
           f == [i \in 1 .. 9 |-> order[i]]
<1>1. f \in [1 .. 9 -> Functions]
  BY DEF Functions
<1>2. \A i, j \in 1 .. 9 : f[i] = f[j] => i = j
  OBVIOUS
<1>3. \A c \in Functions : \E i \in 1 .. 9 : f[i] = c
  BY DEF Functions
<1> HIDE DEF f
<1>4. f \in Bijection(1 .. 9, Functions)
  BY <1>1, <1>2, <1>3 DEF Bijection, Injection, Surjection, IsInjective
<1>5. ExistsBijection(1 .. 9, Functions)
  BY <1>4 DEF ExistsBijection
<1> QED
  BY <1>5, FS_NatBijection, FS_CountingElements

LEMMA FirstNine == IsFiniteSet(1 .. 9) /\ Cardinality(1 .. 9) = 9
<1>1. 1 \in Int /\ 9 \in Int
  OBVIOUS
<1>2. /\ IsFiniteSet(1 .. 9)
      /\ Cardinality(1 .. 9) = IF 1 > 9 THEN 0 ELSE 9 - 1 + 1
  BY <1>1, FS_Interval, Zenon
<1> QED
  BY <1>2

\* When a code is removed, one of the first nine entries is a hole: the
\* codes that are left are too few.
LEMMA HoleAmongFirstNine ==
  ASSUME TableInv, NEW code \in removed
  PROVE  \E i \in 1 .. 9 : xFuncHandlers[i] = Hole
<1> DEFINE left == Functions \ {code}
           f == [i \in 1 .. 9 |-> xFuncHandlers[i].code]
<1>1. IsFiniteSet(left) /\ Cardinality(left) < Cardinality(1 .. 9)
  <2>1. code \in Functions
    BY DEF TableInv
  <2>2. IsFiniteSet(left) /\ Cardinality(left) = Cardinality(Functions) - 1
    BY <2>1, NineFunctions, FS_RemoveElement
  <2> QED
    BY <2>2, NineFunctions, FirstNine
<1>2. 1 .. 9 \subseteq 1 .. FuncHandlersMax
  BY LimitsAssumption
<1> SUFFICES ASSUME \A i \in 1 .. 9 : xFuncHandlers[i] # Hole
             PROVE  FALSE
  OBVIOUS
<1>3. f \in [1 .. 9 -> left]
  <2> SUFFICES ASSUME NEW i \in 1 .. 9
               PROVE  xFuncHandlers[i].code \in left
    OBVIOUS
  <2>1. PICK c \in Functions \ removed :
          xFuncHandlers[i] = [code |-> c, handler |-> c]
    BY <1>2 DEF TableInv, OwnHandlers
  <2> QED
    BY <2>1
<1>4. PICK i, j \in 1 .. 9 : i # j /\ f[i] = f[j]
  <2> HIDE DEF f, left
  <2> QED
    BY <1>1, <1>3, FirstNine, FS_PigeonHole
<1>5. /\ xFuncHandlers[i].code \in Functions
      /\ xFuncHandlers[i].code = xFuncHandlers[j].code
  BY <1>3, <1>4
<1> QED
  BY <1>2, <1>4, <1>5 DEF TableInv, NoneTwice

\* When none is removed, none of the first nine entries is a hole: there
\* are nine codes.
LEMMA NoHoleAmongFirstNine ==
  ASSUME TableInv, removed = {}
  PROVE  \A i \in 1 .. 9 : xFuncHandlers[i] # Hole
<1> SUFFICES ASSUME NEW h \in 1 .. 9, xFuncHandlers[h] = Hole
             PROVE  FALSE
  OBVIOUS
<1> DEFINE full == (1 .. 9) \ {h}
           f == [c \in Functions |->
                   CHOOSE i \in full : xFuncHandlers[i].code = c]
<1>1. IsFiniteSet(full) /\ Cardinality(full) < Cardinality(Functions)
  BY NineFunctions, FirstNine, FS_RemoveElement
<1>2. \A c \in Functions : \E i \in full : xFuncHandlers[i].code = c
  <2> SUFFICES ASSUME NEW c \in Functions
               PROVE  \E i \in full : xFuncHandlers[i].code = c
    OBVIOUS
  <2>1. PICK i \in 1 .. 9 : xFuncHandlers[i].code = c
    BY DEF TableInv, AmongFirstNine
  <2>2. c # "0"
    BY DEF Functions
  <2> QED
    BY <2>1, <2>2 DEF Hole
<1>3. \A c \in Functions : f[c] \in full /\ xFuncHandlers[f[c]].code = c
  BY <1>2
<1> HIDE DEF f
<1>4. f \in [Functions -> full]
  BY <1>3 DEF f
<1>5. PICK c, d \in Functions : c # d /\ f[c] = f[d]
  BY <1>1, <1>4, NineFunctions, FS_PigeonHole
<1> QED
  BY <1>3, <1>5

\* Removing a handler clears its entry and keeps the others.
LEMMA RemovedKeeps ==
  ASSUME TableInv, NEW code \in Functions \ removed
  PROVE  \E k \in 1 .. FuncHandlersMax :
           /\ xFuncHandlers[k].code = code
           /\ Removed(xFuncHandlers, code) = [xFuncHandlers EXCEPT ![k] = Hole]
<1> DEFINE S == {i \in DOMAIN xFuncHandlers : xFuncHandlers[i].code = code}
<1>1. PICK i \in 1 .. 9 : xFuncHandlers[i].code = code
  BY DEF TableInv, AmongFirstNine
<1>2. S # {} /\ S \in SUBSET Nat
  BY <1>1, LimitsAssumption DEF TableInv
<1>3. First(S) \in S
  BY <1>2, FirstIsLeast
<1> QED
  BY <1>2, <1>3 DEF Removed, TableInv

\* A handler that is registered again fills a hole among the first nine.
LEMMA RegisteredFills ==
  ASSUME TableInv, NEW code \in removed
  PROVE  \E k \in 1 .. 9 :
           /\ xFuncHandlers[k] = Hole
           /\ Registered(xFuncHandlers, code, code)
                = [xFuncHandlers EXCEPT ![k] = [code |-> code,
                                                handler |-> code]]
<1> DEFINE S == {i \in DOMAIN xFuncHandlers :
                   xFuncHandlers[i].handler \in {"NULL", code}}
<1>1. PICK h \in 1 .. 9 : xFuncHandlers[h] = Hole
  BY HoleAmongFirstNine
<1>2. h \in S
  BY <1>1, LimitsAssumption DEF TableInv, Hole
<1>3. S \in SUBSET Nat
  BY LimitsAssumption DEF TableInv
<1>4. First(S) \in S /\ First(S) <= h
  BY <1>2, <1>3, FirstIsLeast
<1> HIDE DEF S
<1>5. First(S) \in 1 .. 9
  <2>1. First(S) \in 1 .. FuncHandlersMax
    BY <1>4, LimitsAssumption DEF S, TableInv
  <2> QED
    BY <1>4, <2>1, LimitsAssumption
<1>6. xFuncHandlers[First(S)] = Hole
  <2>1. First(S) \in 1 .. FuncHandlersMax
    BY <1>4 DEF S, TableInv
  <2>2. \A c \in Functions \ removed :
          xFuncHandlers[First(S)] # [code |-> c, handler |-> c]
    <3>1. xFuncHandlers[First(S)].handler \in {"NULL", code}
      BY <1>4 DEF S
    <3> QED
      BY <3>1 DEF Functions
  <2> QED
    BY <2>1, <2>2 DEF TableInv, OwnHandlers
<1> QED
  BY <1>2, <1>5, <1>6 DEF Registered, S

LEMMA TableInit == Init => TableInv
<1> SUFFICES ASSUME Init PROVE TableInv
  OBVIOUS
<1> USE DEF Init, xFuncHandlersInit
<1> DEFINE order == <<"ReadInputs", "ReadHoldings", "WriteHoldings",
                      "WriteHolding", "ReadWriteHoldings", "ReadCoils",
                      "WriteCoil", "WriteCoils", "ReadDiscretes">>
<1>1. /\ DOMAIN xFuncHandlers = 1 .. FuncHandlersMax
      /\ removed = {}
  OBVIOUS
<1>2. \A i \in 1 .. 9 :
        xFuncHandlers[i] = [code |-> order[i], handler |-> order[i]]
  BY LimitsAssumption
<1>3. \A i \in 1 .. FuncHandlersMax :
        i \notin 1 .. 9 => xFuncHandlers[i] = Hole
  BY LimitsAssumption
<1>4. /\ \A i \in 1 .. 9 : order[i] \in Functions
      /\ \A i, j \in 1 .. 9 : order[i] = order[j] => i = j
      /\ \A c \in Functions : \E i \in 1 .. 9 : order[i] = c
  BY DEF Functions
<1>5. Hole.code \notin Functions
  BY DEF Hole, Functions
<1>9. xFuncHandlers \in Tables
  <2>1. \A i \in 1 .. FuncHandlersMax :
          (IF i <= Len(order) THEN [code |-> order[i], handler |-> order[i]]
           ELSE Hole) \in [code : Functions, handler : Functions] \cup {Hole}
    BY <1>4, LimitsAssumption
  <2> QED
    BY <2>1 DEF Tables
<1> HIDE DEF order, Init, xFuncHandlersInit
<1>6. OwnHandlers
  BY <1>1, <1>2, <1>3, <1>4 DEF OwnHandlers
<1>7. NoneTwice
  BY <1>2, <1>3, <1>4, <1>5 DEF NoneTwice
<1>8. AmongFirstNine
  BY <1>1, <1>2, <1>4 DEF AmongFirstNine
<1> QED
  BY <1>1, <1>6, <1>7, <1>8, <1>9 DEF TableInv

LEMMA TableRemove ==
  ASSUME TableInv, NEW code \in Removable, Remove(code)
  PROVE  TableInv'
<1>1. code \in Functions \ removed
  BY ExchangeAssumption DEF Remove
<1>2. PICK k \in 1 .. FuncHandlersMax :
        /\ xFuncHandlers[k].code = code
        /\ xFuncHandlers' = [xFuncHandlers EXCEPT ![k] = Hole]
  BY <1>1, RemovedKeeps DEF Remove
<1>3. DOMAIN xFuncHandlers = 1 .. FuncHandlersMax
  BY DEF TableInv
<1>4. /\ DOMAIN xFuncHandlers' = 1 .. FuncHandlersMax
      /\ xFuncHandlers'[k] = Hole
      /\ \A i \in 1 .. FuncHandlersMax :
           i # k => xFuncHandlers'[i] = xFuncHandlers[i]
  BY <1>2, <1>3
<1>5. removed' = removed \cup {code} /\ removed' \subseteq Functions
  BY <1>1 DEF Remove, TableInv
<1>6. Hole.code \notin Functions
  BY DEF Hole, Functions
<1>7. \A i \in 1 .. FuncHandlersMax :
        i # k => xFuncHandlers[i].code # code
  BY <1>1, <1>2 DEF TableInv, NoneTwice
<1>8. OwnHandlers'
  <2> SUFFICES ASSUME NEW i \in 1 .. FuncHandlersMax, i # k,
                      xFuncHandlers[i] # Hole
               PROVE  \E c \in Functions \ removed' :
                        xFuncHandlers'[i] = [code |-> c, handler |-> c]
    BY <1>4 DEF OwnHandlers
  <2>1. PICK c \in Functions \ removed :
          xFuncHandlers[i] = [code |-> c, handler |-> c]
    BY DEF TableInv, OwnHandlers
  <2> QED
    BY <1>4, <1>5, <1>7, <2>1
<1>9. NoneTwice'
  BY <1>4, <1>6 DEF TableInv, NoneTwice
<1>10. AmongFirstNine'
  <2> SUFFICES ASSUME NEW c \in Functions \ removed'
               PROVE  \E i \in 1 .. 9 : xFuncHandlers'[i].code = c
    BY DEF AmongFirstNine
  <2>1. PICK i \in 1 .. 9 : xFuncHandlers[i].code = c
    BY <1>5 DEF TableInv, AmongFirstNine
  <2>2. i # k
    BY <1>2, <1>5, <2>1
  <2>3. xFuncHandlers'[i].code = c
    BY <1>4, <2>1, <2>2, LimitsAssumption
  <2> QED
    BY <2>3
<1>11. xFuncHandlers' \in Tables
  BY <1>2 DEF TableInv, Tables
<1> QED
  BY <1>4, <1>5, <1>8, <1>9, <1>10, <1>11 DEF TableInv

LEMMA TableRegister ==
  ASSUME TableInv, NEW code \in Removable, Register(code)
  PROVE  TableInv'
<1>1. code \in Functions /\ code \in removed
  BY ExchangeAssumption DEF Register
<1>2. PICK k \in 1 .. 9 :
        /\ xFuncHandlers[k] = Hole
        /\ xFuncHandlers' = [xFuncHandlers EXCEPT ![k] =
                               [code |-> code, handler |-> code]]
  BY <1>1, RegisteredFills DEF Register
<1>3. /\ DOMAIN xFuncHandlers = 1 .. FuncHandlersMax
      /\ k \in 1 .. FuncHandlersMax
  BY LimitsAssumption DEF TableInv
<1>4. /\ DOMAIN xFuncHandlers' = 1 .. FuncHandlersMax
      /\ xFuncHandlers'[k] = [code |-> code, handler |-> code]
      /\ \A i \in 1 .. FuncHandlersMax :
           i # k => xFuncHandlers'[i] = xFuncHandlers[i]
  BY <1>2, <1>3
<1>5. removed' = removed \ {code} /\ removed' \subseteq Functions
  BY <1>1 DEF Register, TableInv
<1>6. \A i \in 1 .. FuncHandlersMax : xFuncHandlers[i].code # code
  <2> SUFFICES ASSUME NEW i \in 1 .. FuncHandlersMax
               PROVE  xFuncHandlers[i].code # code
    OBVIOUS
  <2>1. CASE xFuncHandlers[i] = Hole
    BY <1>1, <2>1 DEF Hole, Functions
  <2>2. ASSUME NEW c \in Functions \ removed,
               xFuncHandlers[i] = [code |-> c, handler |-> c]
        PROVE  xFuncHandlers[i].code # code
    BY <1>1, <2>2
  <2> QED
    BY <2>1, <2>2 DEF TableInv, OwnHandlers
<1>7. OwnHandlers'
  <2> SUFFICES ASSUME NEW i \in 1 .. FuncHandlersMax,
                      xFuncHandlers'[i] # Hole
               PROVE  \E c \in Functions \ removed' :
                        xFuncHandlers'[i] = [code |-> c, handler |-> c]
    BY DEF OwnHandlers
  <2>1. CASE i = k
    BY <1>1, <1>4, <1>5, <2>1
  <2>2. CASE i # k
    BY <1>4, <1>5, <2>2 DEF TableInv, OwnHandlers
  <2> QED
    BY <2>1, <2>2
<1>8. NoneTwice'
  BY <1>4, <1>6 DEF TableInv, NoneTwice
<1>9. AmongFirstNine'
  <2> SUFFICES ASSUME NEW c \in Functions \ removed'
               PROVE  \E i \in 1 .. 9 : xFuncHandlers'[i].code = c
    BY DEF AmongFirstNine
  <2>1. CASE c = code
    BY <1>4, <2>1, <1>3
  <2>2. ASSUME c # code, NEW i \in 1 .. 9, xFuncHandlers[i].code = c
        PROVE  \E j \in 1 .. 9 : xFuncHandlers'[j].code = c
    <3>1. i # k
      BY <1>2, <2>2 DEF Hole, Functions
    <3>2. xFuncHandlers'[i].code = c
      BY <1>4, <2>2, <3>1, LimitsAssumption
    <3> QED
      BY <3>2
  <2> QED
    BY <1>5, <2>1, <2>2 DEF TableInv, AmongFirstNine
<1>10. xFuncHandlers' \in Tables
  <2>1. [code |-> code, handler |-> code]
          \in [code : Functions, handler : Functions] \cup {Hole}
    BY <1>1
  <2> QED
    BY <1>2, <1>3, <2>1 DEF TableInv, Tables
<1> QED
  BY <1>4, <1>5, <1>7, <1>8, <1>9, <1>10 DEF TableInv

LEMMA TableStep == TableInv /\ [Next]_vars => TableInv'
<1> SUFFICES ASSUME TableInv, [Next]_vars PROVE TableInv'
  OBVIOUS
<1>1. CASE UNCHANGED <<xFuncHandlers, removed>>
  BY <1>1 DEF TableInv, OwnHandlers, NoneTwice, AmongFirstNine
<1>2. ASSUME NEW code \in Removable, Remove(code) \/ Register(code)
      PROVE  TableInv'
  BY <1>2, TableRemove, TableRegister
<1>3. CASE UNCHANGED vars
  BY <1>1, <1>3 DEF vars
<1>4. ASSUME NEW d \in Dests, NEW q \in Requests, Ask(d, q)
      PROVE  TableInv'
  BY <1>1, <1>4 DEF Ask
<1>5. ASSUME NEW q \in ForeignRequests, AskElsewhere(q)
      PROVE  TableInv'
  BY <1>1, <1>5 DEF AskElsewhere
<1>6. CASE \/ AskRefused \/ Serve \/ Receive \/ ExecuteBroadcast \/ TimeOut
           \/ LoseRequest \/ LoseAnswer
  BY <1>1, <1>6 DEF AskRefused, Serve, Receive, ExecuteBroadcast, TimeOut,
                    LoseRequest, LoseAnswer
<1> QED
  BY <1>2, <1>3, <1>4, <1>5, <1>6 DEF Next

LEMMA TableAlways == Spec => []TableInv
BY TableInit, TableStep, PTL DEF Spec

(* When every handler that was removed is registered again, whatever the   *)
(* order, each function is served by its own handler: no hole is left      *)
(* before an entry, where the loop of EV_EXECUTE would end (mb.c:229,      *)
(* mb.c:378).                                                              *)
THEOREM EveryFunctionServed == Spec => []RegisteredServed
<1>1. TableInv => RegisteredServed
  <2> SUFFICES ASSUME TableInv, removed = {}, NEW code \in Functions
               PROVE  LET S == {i \in DOMAIN xFuncHandlers :
                                  xFuncHandlers[i].code = code}
                      IN  /\ Served(xFuncHandlers, code)
                          /\ xFuncHandlers[First(S)].handler = code
    BY DEF RegisteredServed
  <2> DEFINE S == {i \in DOMAIN xFuncHandlers : xFuncHandlers[i].code = code}
  <2>1. 1 .. 9 \subseteq 1 .. FuncHandlersMax
    BY LimitsAssumption
  <2>2. DOMAIN xFuncHandlers = 1 .. FuncHandlersMax
    BY DEF TableInv
  <2>3. PICK i \in 1 .. 9 : xFuncHandlers[i].code = code
    BY DEF TableInv, AmongFirstNine
  <2>4. \A j \in 1 .. 9 : xFuncHandlers[j].code # "0"
    <3> SUFFICES ASSUME NEW j \in 1 .. 9
                 PROVE  xFuncHandlers[j].code # "0"
      OBVIOUS
    <3>1. PICK c \in Functions :
            xFuncHandlers[j] = [code |-> c, handler |-> c]
      BY <2>1, NoHoleAmongFirstNine DEF TableInv, OwnHandlers
    <3> QED
      BY <3>1 DEF Functions
  <2>5. Served(xFuncHandlers, code)
    <3>1. \A j \in 1 .. i : xFuncHandlers[j].code # "0"
      BY <2>4
    <3> QED
      BY <2>1, <2>2, <2>3, <3>1 DEF Served
  <2>6. First(S) \in S
    <3>1. S # {} /\ S \in SUBSET Nat
      BY <2>1, <2>2, <2>3
    <3> QED
      BY <3>1, FirstIsLeast
  <2>7. xFuncHandlers[First(S)].handler = code
    <3>1. /\ First(S) \in 1 .. FuncHandlersMax
          /\ xFuncHandlers[First(S)].code = code
      BY <2>2, <2>6
    <3>2. xFuncHandlers[First(S)] # Hole
      BY <3>1 DEF Hole, Functions
    <3> QED
      BY <3>1, <3>2 DEF TableInv, OwnHandlers
  <2> QED
    BY <2>5, <2>7
<1> QED
  BY <1>1, TableAlways, PTL

\* What a code is served by, when it is served at all, is its own handler.
LEMMA ExecutedBy ==
  ASSUME TableInv, NEW mem, NEW q, Served(xFuncHandlers, q.fc)
  PROVE  /\ q.fc \in Functions
         /\ Execute(xFuncHandlers, mem, q) = Handle(q.fc, mem, q)
<1> DEFINE S == {i \in DOMAIN xFuncHandlers : xFuncHandlers[i].code = q.fc}
<1>1. S # {} /\ S \in SUBSET Nat
  BY DEF Served, TableInv
<1>2. First(S) \in S
  BY <1>1, FirstIsLeast
<1>3. PICK i \in 1 .. FuncHandlersMax :
        /\ xFuncHandlers[i].code = q.fc /\ q.fc # "0"
  BY DEF Served, TableInv
<1>4. PICK c \in Functions :
        xFuncHandlers[First(S)] = [code |-> c, handler |-> c]
  <2>1. /\ First(S) \in 1 .. FuncHandlersMax
        /\ xFuncHandlers[First(S)].code = q.fc
    BY <1>2 DEF TableInv
  <2>2. xFuncHandlers[First(S)] # Hole
    BY <1>3, <2>1 DEF Hole
  <2> QED
    BY <2>1, <2>2 DEF TableInv, OwnHandlers
<1>5. c = q.fc
  BY <1>2, <1>4
<1> QED
  BY <1>4, <1>5 DEF Execute

-----------------------------------------------------------------------------
(***************************************************************************)
(* A refused request.                                                      *)
(***************************************************************************)

\* The exceptions of every handler but the last come with the old memory.
LEMMA HandlerRefuses ==
  ASSUME NEW c \in Functions, NEW mem, NEW q
  PROVE  LET h == Handle(c, mem, q) IN
         \/ h.ex = "NONE"
         \/ h.mem = mem
         \/ c = "ReadWriteHoldings" /\ ~InRange(q.addr, q.word, NHoldings)
<1> USE DEF Refused, BadAddress, Done, ReadAnswer, Read
<1>1. CASE c = "ReadCoils"
  <2>1. Handle(c, mem, q) = eMBFuncReadCoils(mem, q)
    BY <1>1 DEF Handle
  <2> QED
    BY <2>1 DEF eMBFuncReadCoils
<1>2. CASE c = "ReadDiscretes"
  <2>1. Handle(c, mem, q) = eMBFuncReadDiscreteInputs(mem, q)
    BY <1>2 DEF Handle
  <2> QED
    BY <2>1 DEF eMBFuncReadDiscreteInputs
<1>3. CASE c = "ReadInputs"
  <2>1. Handle(c, mem, q) = eMBFuncReadInputRegister(mem, q)
    BY <1>3 DEF Handle
  <2> QED
    BY <2>1 DEF eMBFuncReadInputRegister
<1>4. CASE c = "ReadHoldings"
  <2>1. Handle(c, mem, q) = eMBFuncReadHoldingRegister(mem, q)
    BY <1>4 DEF Handle
  <2> QED
    BY <2>1 DEF eMBFuncReadHoldingRegister
<1>5. CASE c = "WriteCoil"
  <2>1. Handle(c, mem, q) = eMBFuncWriteCoil(mem, q)
    BY <1>5 DEF Handle
  <2> QED
    BY <2>1 DEF eMBFuncWriteCoil
<1>6. CASE c = "WriteCoils"
  <2>1. Handle(c, mem, q) = eMBFuncWriteMultipleCoils(mem, q)
    BY <1>6 DEF Handle
  <2> QED
    BY <2>1 DEF eMBFuncWriteMultipleCoils
<1>7. CASE c = "WriteHolding"
  <2>1. Handle(c, mem, q) = eMBFuncWriteHoldingRegister(mem, q)
    BY <1>7 DEF Handle
  <2> QED
    BY <2>1 DEF eMBFuncWriteHoldingRegister
<1>8. CASE c = "WriteHoldings"
  <2>1. Handle(c, mem, q) = eMBFuncWriteMultipleHoldingRegister(mem, q)
    BY <1>8 DEF Handle
  <2> QED
    BY <2>1 DEF eMBFuncWriteMultipleHoldingRegister
<1>9. CASE c = "ReadWriteHoldings"
  <2>1. Handle(c, mem, q) = eMBFuncReadWriteMultipleHoldingRegister(mem, q)
    BY <1>9 DEF Handle
  <2> QED
    BY <1>9, <2>1 DEF eMBFuncReadWriteMultipleHoldingRegister
<1> QED
  BY <1>1, <1>2, <1>3, <1>4, <1>5, <1>6, <1>7, <1>8, <1>9 DEF Functions

(* A refused request changes nothing, whatever handlers are removed and    *)
(* whatever its length and its counts, unless it is a ReadWrite that wrote *)
(* before it could not read (mbfuncholding.c:270).                         *)
THEOREM RefusalsKeepMemory == Spec => RefusedChangesNothing
<1>1. TableInv /\ Serve =>
        LET q == Head(toSlave).pdu IN
        \/ Execute(xFuncHandlers, memory, q).ex = "NONE"
        \/ memory' = memory
        \/ q.fc = "ReadWriteHoldings" /\ ~InRange(q.addr, q.word, NHoldings)
  <2> SUFFICES ASSUME TableInv, Serve
               PROVE  LET q == Head(toSlave).pdu IN
                      \/ Execute(xFuncHandlers, memory, q).ex = "NONE"
                      \/ memory' = memory
                      \/ /\ q.fc = "ReadWriteHoldings"
                         /\ ~InRange(q.addr, q.word, NHoldings)
    OBVIOUS
  <2> DEFINE q == Head(toSlave).pdu
             h == Execute(xFuncHandlers, memory, q)
  <2>1. memory' = h.mem
    BY DEF Serve
  <2>2. CASE ~Served(xFuncHandlers, q.fc)
    BY <2>1, <2>2 DEF Execute, Refused
  <2>3. CASE Served(xFuncHandlers, q.fc)
    <3>1. q.fc \in Functions /\ h = Handle(q.fc, memory, q)
      BY <2>3, ExecutedBy
    <3> QED
      BY <2>1, <3>1, HandlerRefuses
  <2> QED
    BY <2>2, <2>3
<1>2. TableInv /\ [Next]_vars =>
        [Serve =>
           LET q == Head(toSlave).pdu IN
           \/ Execute(xFuncHandlers, memory, q).ex = "NONE"
           \/ memory' = memory
           \/ /\ q.fc = "ReadWriteHoldings"
              /\ ~InRange(q.addr, q.word, NHoldings)]_vars
  BY <1>1
<1> QED
  BY <1>2, TableAlways, PTL DEF Spec, RefusedChangesNothing

-----------------------------------------------------------------------------
(***************************************************************************)
(* Bits and bytes.                                                         *)
(***************************************************************************)

\* Induction, over a set of naturals.
LEMMA SetInduction ==
  ASSUME NEW S \in SUBSET Nat, 0 \in S, \A n \in S : n + 1 \in S
  PROVE  S = Nat
<1> SUFFICES ASSUME Nat \ S # {} PROVE FALSE
  OBVIOUS
<1>1. PICK n \in Nat \ S : \A m \in Nat \ S : n <= m
  BY LeastExists
<1>2. n # 0 /\ n - 1 \in Nat /\ n - 1 \notin Nat \ S
  BY <1>1
<1> QED
  BY <1>1, <1>2

LEMMA DivMod ==
  ASSUME NEW a \in Nat, NEW b \in Nat \ {0}
  PROVE  /\ a % b \in 0 .. b - 1 /\ a \div b \in Nat
         /\ a = b * (a \div b) + (a % b)
OBVIOUS

LEMMA DivModUnique ==
  ASSUME NEW b \in Nat \ {0}, NEW q \in Nat, NEW r \in 0 .. b - 1
  PROVE  (b * q + r) \div b = q /\ (b * q + r) % b = r
OBVIOUS

\* xMBUtilSetBits sets n bits and leaves the others, when no bit of the value
\* is set beyond the first n.
LEMMA SetBitsIs ==
  ASSUME NEW buf, DOMAIN buf \in SUBSET Int, NEW off \in Nat,
         NEW n \in 0 .. BitsUchar, NEW value,
         \A k \in n .. BitsUchar - 1 : value[k] = 0
  PROVE  xMBUtilSetBits(buf, off, n, value) =
           [i \in DOMAIN buf |-> IF i \in off .. off + n - 1
                                 THEN value[i - off] ELSE buf[i]]
<1> DEFINE shift == off % BitsUchar
           first == off - shift
           Shifted(k) == IF k \in shift .. shift + BitsUchar - 1
                         THEN value[k - shift] ELSE 0
           Masked(k) == k \in shift .. shift + n - 1
<1>1. BitsUchar \in Nat \ {0} /\ shift \in 0 .. BitsUchar - 1
  BY SizesAssumption, DivMod
<1>2. xMBUtilSetBits(buf, off, n, value) =
        [i \in DOMAIN buf |->
           IF /\ i - first \in 0 .. 2 * BitsUchar - 1
              /\ Masked(i - first) \/ Shifted(i - first) = 1
           THEN Shifted(i - first) ELSE buf[i]]
  BY DEF xMBUtilSetBits
<1> HIDE DEF shift
<1>3. ASSUME NEW i \in DOMAIN buf
      PROVE  (IF /\ i - first \in 0 .. 2 * BitsUchar - 1
                 /\ Masked(i - first) \/ Shifted(i - first) = 1
              THEN Shifted(i - first) ELSE buf[i])
             = IF i \in off .. off + n - 1 THEN value[i - off] ELSE buf[i]
  <2>1. i \in Int /\ first \in Int
    BY <1>1
  <2>2. CASE i \in off .. off + n - 1
    <3>1. /\ i - first \in 0 .. 2 * BitsUchar - 1
          /\ Masked(i - first)
          /\ i - first \in shift .. shift + BitsUchar - 1
          /\ i - first - shift = i - off
      BY <1>1, <2>1, <2>2
    <3> QED
      BY <2>2, <3>1
  <2>3. CASE i \notin off .. off + n - 1
    <3>1. ~Masked(i - first)
      BY <1>1, <2>1, <2>3
    <3>2. Shifted(i - first) # 1
      <4>1. CASE i - first \in shift .. shift + BitsUchar - 1
        <5>1. i - first - shift \in n .. BitsUchar - 1
          BY <1>1, <2>1, <2>3, <4>1
        <5> QED
          BY <4>1, <5>1
      <4> QED
        BY <4>1
    <3> QED
      BY <2>3, <3>1, <3>2
  <2> QED
    BY <2>2, <2>3
<1> HIDE DEF first, Shifted, Masked
<1> QED
  BY <1>2, <1>3

(* An array, whose indices are numbers. *)
Array(buf) ==
  buf = [i \in DOMAIN buf |-> buf[i]] /\ DOMAIN buf \in SUBSET Int

(* In the last of the bytes that hold n bits, the others are not set. *)
Padded(data, n) ==
  n % BitsUchar # 0 =>
    \A k \in n % BitsUchar .. BitsUchar - 1 : data[n \div BitsUchar + 1][k] = 0

\* The first n bits of data are written from addr on.
Overwritten(buf, addr, n, data) ==
  [i \in DOMAIN buf |->
     IF i \in addr .. addr + n - 1
     THEN data[(i - addr) \div BitsUchar + 1][(i - addr) % BitsUchar]
     ELSE buf[i]]

\* The loop over the bytes of data, one step more.
NextByte(buf, addr, data, j) ==
  xMBUtilSetBits(buf, addr + BitsUchar * (j - 1), BitsUchar, data[j])

Puts(buf, addr, data, m, f) ==
  f = [j \in 0 .. m |->
         IF j = 0 THEN buf ELSE NextByte(f[j - 1], addr, data, j)]

LEMMA PutsExists ==
  ASSUME NEW buf, NEW addr, NEW data
  PROVE  \A m \in Nat : \E f : Puts(buf, addr, data, m, f)
<1> DEFINE S == {m \in Nat : \E f : Puts(buf, addr, data, m, f)}
<1>1. 0 \in S
  <2> DEFINE f == [j \in 0 .. 0 |-> buf]
  <2>1. f = [j \in 0 .. 0 |-> IF j = 0 THEN buf
                              ELSE NextByte(f[j - 1], addr, data, j)]
    OBVIOUS
  <2> HIDE DEF f
  <2> QED
    BY <2>1 DEF Puts
<1>2. ASSUME NEW m \in S
      PROVE  m + 1 \in S
  <2>1. PICK f : Puts(buf, addr, data, m, f)
    OBVIOUS
  <2> DEFINE g == [j \in 0 .. m + 1 |->
                     IF j <= m THEN f[j]
                     ELSE NextByte(f[m], addr, data, m + 1)]
             T(j) == IF j = 0 THEN buf ELSE NextByte(g[j - 1], addr, data, j)
  <2>2. ASSUME NEW j \in 0 .. m + 1
        PROVE  g[j] = T(j)
    <3>1. CASE j = 0
      BY <2>1, <3>1 DEF Puts
    <3>2. CASE j # 0 /\ j <= m
      <4>1. f[j] = NextByte(f[j - 1], addr, data, j)
        BY <2>1, <3>2 DEF Puts
      <4> QED
        BY <3>2, <4>1
    <3>3. CASE j = m + 1
      BY <3>3
    <3> QED
      BY <3>1, <3>2, <3>3
  <2>3. g = [j \in 0 .. m + 1 |-> g[j]]
    OBVIOUS
  <2> HIDE DEF g
  <2>4. g = [j \in 0 .. m + 1 |-> T(j)]
    BY <2>2, <2>3
  <2>5. Puts(buf, addr, data, m + 1, g)
    BY <2>4 DEF Puts
  <2> QED
    BY <2>5
<1>3. S = Nat
  BY <1>1, <1>2, SetInduction
<1> QED
  BY <1>3

\* Every step of the loop leaves the first bytes written.
LEMMA PutsIs ==
  ASSUME NEW buf, Array(buf), NEW addr \in Nat, NEW data,
         NEW m \in Nat, NEW f, Puts(buf, addr, data, m, f),
         NEW k \in 0 .. m
  PROVE  f[k] = Overwritten(buf, addr, BitsUchar * k, data)
<1> DEFINE S == {j \in Nat :
                   j <= m => f[j] = Overwritten(buf, addr, BitsUchar * j, data)}
<1>1. 0 \in S
  <2>1. f[0] = buf
    BY DEF Puts
  <2>2. addr .. addr + BitsUchar * 0 - 1 = {}
    BY SizesAssumption
  <2> QED
    BY <2>1, <2>2 DEF Overwritten, Array
<1>2. ASSUME NEW j \in S
      PROVE  j + 1 \in S
  <2> SUFFICES ASSUME j + 1 <= m
               PROVE  f[j + 1]
                        = Overwritten(buf, addr, BitsUchar * (j + 1), data)
    OBVIOUS
  <2> DEFINE old == Overwritten(buf, addr, BitsUchar * j, data)
             off == addr + BitsUchar * j
  <2>1. f[j] = old
    OBVIOUS
  <2>2. f[j + 1] = xMBUtilSetBits(old, off, BitsUchar, data[j + 1])
    BY <2>1 DEF Puts, NextByte
  <2>3. off \in Nat /\ BitsUchar \in Nat \ {0}
    BY SizesAssumption
  <2>4. DOMAIN old = DOMAIN buf
    BY DEF Overwritten
  <2>5. f[j + 1] = [i \in DOMAIN buf |->
                      IF i \in off .. off + BitsUchar - 1
                      THEN data[j + 1][i - off] ELSE old[i]]
    BY <2>2, <2>3, <2>4, SetBitsIs DEF Array
  <2>6. ASSUME NEW i \in DOMAIN buf
        PROVE  (IF i \in off .. off + BitsUchar - 1
                THEN data[j + 1][i - off] ELSE old[i])
               = IF i \in addr .. addr + BitsUchar * (j + 1) - 1
                 THEN data[(i - addr) \div BitsUchar + 1]
                          [(i - addr) % BitsUchar]
                 ELSE buf[i]
    <3>1. BitsUchar * (j + 1) = BitsUchar * j + BitsUchar
      BY <2>3
    <3>2. CASE i \in off .. off + BitsUchar - 1
      <4>1. i - off \in 0 .. BitsUchar - 1
            /\ i - addr = BitsUchar * j + (i - off)
        BY <2>3, <3>2
      <4>2. (i - addr) \div BitsUchar = j /\ (i - addr) % BitsUchar = i - off
        <5> HIDE DEF off
        <5>1. /\ (BitsUchar * j + (i - off)) \div BitsUchar = j
              /\ (BitsUchar * j + (i - off)) % BitsUchar = i - off
          BY <2>3, <4>1, DivModUnique
        <5> QED
          BY <4>1, <5>1
      <4>3. i \in addr .. addr + BitsUchar * (j + 1) - 1
        BY <2>3, <3>1, <3>2
      <4> QED
        BY <3>2, <4>2, <4>3
    <3>3. CASE i \notin off .. off + BitsUchar - 1
      <4>1. i \in addr .. addr + BitsUchar * (j + 1) - 1
              <=> i \in addr .. addr + BitsUchar * j - 1
        BY <2>3, <3>1, <3>3
      <4> QED
        BY <3>3, <4>1 DEF Overwritten
    <3> QED
      BY <3>2, <3>3
  <2> HIDE DEF old, off
  <2> QED
    BY <2>5, <2>6 DEF Overwritten
<1>3. S = Nat
  <2> HIDE DEF S
  <2>1. S \in SUBSET Nat
    BY DEF S
  <2> QED
    BY <1>1, <1>2, <2>1, SetInduction
<1> QED
  BY <1>3

\* The loops of the callbacks: whole bytes, then the rest.
LEMMA LoopIs ==
  ASSUME NEW buf, NEW addr, NEW n \in Nat, NEW data
  PROVE  LET whole == n \div BitsUchar
             rest == n % BitsUchar
         IN  \E put :
               /\ Puts(buf, addr, data, whole, put)
               /\ BitsWritten(buf, addr, n, data) =
                    IF rest = 0 THEN put[whole]
                    ELSE xMBUtilSetBits(put[whole], addr + BitsUchar * whole,
                                        rest, data[whole + 1])
<1> DEFINE whole == n \div BitsUchar
           rest == n % BitsUchar
           put == CHOOSE f :
                    f = [j \in 0 .. whole |->
                           IF j = 0 THEN buf
                           ELSE xMBUtilSetBits(f[j - 1],
                                               addr + BitsUchar * (j - 1),
                                               BitsUchar, data[j])]
<1>1. BitsWritten(buf, addr, n, data) =
        IF rest = 0 THEN put[whole]
        ELSE xMBUtilSetBits(put[whole], addr + BitsUchar * whole, rest,
                            data[whole + 1])
  BY DEF BitsWritten
<1>2. whole \in Nat
  BY SizesAssumption, DivMod
<1> HIDE DEF whole, rest
<1>3. PICK g : Puts(buf, addr, data, whole, g)
  BY <1>2, PutsExists
<1>4. g = [j \in 0 .. whole |->
             IF j = 0 THEN buf
             ELSE xMBUtilSetBits(g[j - 1], addr + BitsUchar * (j - 1),
                                 BitsUchar, data[j])]
  BY <1>3, Zenon DEF Puts, NextByte
<1>5. put = [j \in 0 .. whole |->
               IF j = 0 THEN buf
               ELSE xMBUtilSetBits(put[j - 1], addr + BitsUchar * (j - 1),
                                   BitsUchar, data[j])]
  BY <1>4, Zenon
<1> HIDE DEF put
<1>6. Puts(buf, addr, data, whole, put)
  BY <1>5, Zenon DEF Puts, NextByte
<1> QED
  BY <1>1, <1>6 DEF whole, rest

\* They write the bits of the data, each to its place, and nothing else.
LEMMA BitsWrittenIs ==
  ASSUME NEW buf, Array(buf), NEW addr \in Nat, NEW n \in Nat, NEW data,
         Padded(data, n)
  PROVE  BitsWritten(buf, addr, n, data) = Overwritten(buf, addr, n, data)
<1> DEFINE whole == n \div BitsUchar
           rest == n % BitsUchar
           off == addr + BitsUchar * whole
           old == Overwritten(buf, addr, BitsUchar * whole, data)
<1>1. PICK put :
        /\ Puts(buf, addr, data, whole, put)
        /\ BitsWritten(buf, addr, n, data) =
             IF rest = 0 THEN put[whole]
             ELSE xMBUtilSetBits(put[whole], off, rest, data[whole + 1])
  BY LoopIs
<1>2. /\ BitsUchar \in Nat \ {0} /\ whole \in Nat /\ rest \in 0 .. BitsUchar - 1
      /\ n = BitsUchar * whole + rest
  BY SizesAssumption, DivMod
<1> HIDE DEF whole, rest
<1>4. put[whole] = old
  BY <1>1, <1>2, PutsIs
<1>5. CASE rest = 0
  <2>1. n = BitsUchar * whole
    BY <1>2, <1>5
  <2> QED
    BY <1>1, <1>4, <1>5, <2>1
<1>6. CASE rest # 0
  <2>1. off \in Nat /\ rest \in 0 .. BitsUchar
    BY <1>2
  <2>2. \A k \in rest .. BitsUchar - 1 : data[whole + 1][k] = 0
    BY <1>6 DEF Padded, rest, whole
  <2>3. DOMAIN old = DOMAIN buf /\ DOMAIN buf \in SUBSET Int
    BY DEF Overwritten, Array
  <2>4. BitsWritten(buf, addr, n, data) =
          [i \in DOMAIN buf |-> IF i \in off .. off + rest - 1
                                THEN data[whole + 1][i - off] ELSE old[i]]
    <3> HIDE DEF off, old
    <3> QED
      BY <1>1, <1>4, <1>6, <2>1, <2>2, <2>3, SetBitsIs
  <2>5. ASSUME NEW i \in DOMAIN buf
        PROVE  (IF i \in off .. off + rest - 1
                THEN data[whole + 1][i - off] ELSE old[i])
               = IF i \in addr .. addr + n - 1
                 THEN data[(i - addr) \div BitsUchar + 1]
                          [(i - addr) % BitsUchar]
                 ELSE buf[i]
    <3>1. CASE i \in off .. off + rest - 1
      <4>1. /\ i - off \in 0 .. BitsUchar - 1
            /\ i - addr = BitsUchar * whole + (i - off)
        BY <1>2, <3>1
      <4>2. /\ (i - addr) \div BitsUchar = whole
            /\ (i - addr) % BitsUchar = i - off
        <5> HIDE DEF off
        <5>1. /\ (BitsUchar * whole + (i - off)) \div BitsUchar = whole
              /\ (BitsUchar * whole + (i - off)) % BitsUchar = i - off
          BY <1>2, <4>1, DivModUnique
        <5> QED
          BY <4>1, <5>1
      <4>3. i \in addr .. addr + n - 1
        BY <1>2, <3>1
      <4> QED
        BY <3>1, <4>2, <4>3
    <3>2. CASE i \notin off .. off + rest - 1
      <4>1. i \in addr .. addr + n - 1
              <=> i \in addr .. addr + BitsUchar * whole - 1
        BY <1>2, <2>3, <3>2
      <4> QED
        BY <3>2, <4>1 DEF Overwritten
    <3> QED
      BY <3>1, <3>2
  <2> HIDE DEF old, off
  <2> QED
    BY <2>4, <2>5 DEF Overwritten
<1> QED
  BY <1>5, <1>6

\* The n bits are set whatever else is in the value, and none before them.
LEMMA SetBitsInside ==
  ASSUME NEW buf, DOMAIN buf \in SUBSET Int, NEW off \in Nat,
         NEW n \in 0 .. BitsUchar, NEW value, NEW i \in DOMAIN buf
  PROVE  LET new == xMBUtilSetBits(buf, off, n, value) IN
         /\ i \in off .. off + n - 1 => new[i] = value[i - off]
         /\ i < off => new[i] = buf[i]
<1> DEFINE shift == off % BitsUchar
           first == off - shift
           Shifted(k) == IF k \in shift .. shift + BitsUchar - 1
                         THEN value[k - shift] ELSE 0
           Masked(k) == k \in shift .. shift + n - 1
<1>1. BitsUchar \in Nat \ {0} /\ shift \in 0 .. BitsUchar - 1
  BY SizesAssumption, DivMod
<1>2. xMBUtilSetBits(buf, off, n, value)[i] =
        IF /\ i - first \in 0 .. 2 * BitsUchar - 1
           /\ Masked(i - first) \/ Shifted(i - first) = 1
        THEN Shifted(i - first) ELSE buf[i]
  BY DEF xMBUtilSetBits
<1> HIDE DEF shift
<1>3. i \in Int /\ first \in Int
  BY <1>1
<1>4. CASE i \in off .. off + n - 1
  <2>1. /\ i - first \in 0 .. 2 * BitsUchar - 1
        /\ Masked(i - first)
        /\ i - first \in shift .. shift + BitsUchar - 1
        /\ i - first - shift = i - off
    BY <1>1, <1>3, <1>4
  <2> QED
    BY <1>2, <1>4, <2>1
<1>5. CASE i < off
  <2>1. i - first \notin shift .. shift + BitsUchar - 1
    BY <1>1, <1>3, <1>5
  <2>2. ~Masked(i - first)
    BY <1>1, <1>3, <1>5
  <2>3. ~(i \in off .. off + n - 1)
    BY <1>3, <1>5
  <2> QED
    BY <1>2, <2>1, <2>2, <2>3
<1> QED
  BY <1>4, <1>5

\* Where they write, they write the bits of the data.
LEMMA WrittenInside ==
  ASSUME NEW buf, Array(buf), NEW addr \in Nat, NEW n \in Nat, NEW data,
         NEW i \in DOMAIN buf, i \in addr .. addr + n - 1
  PROVE  BitsWritten(buf, addr, n, data)[i] =
           data[(i - addr) \div BitsUchar + 1][(i - addr) % BitsUchar]
<1> DEFINE whole == n \div BitsUchar
           rest == n % BitsUchar
           off == addr + BitsUchar * whole
           old == Overwritten(buf, addr, BitsUchar * whole, data)
<1>1. PICK put :
        /\ Puts(buf, addr, data, whole, put)
        /\ BitsWritten(buf, addr, n, data) =
             IF rest = 0 THEN put[whole]
             ELSE xMBUtilSetBits(put[whole], off, rest, data[whole + 1])
  BY LoopIs
<1>2. /\ BitsUchar \in Nat \ {0} /\ whole \in Nat /\ rest \in 0 .. BitsUchar - 1
      /\ n = BitsUchar * whole + rest
  BY SizesAssumption, DivMod
<1> HIDE DEF whole, rest
<1>3. put[whole] = old
  BY <1>1, <1>2, PutsIs
<1>4. i \in addr .. off - 1 =>
        old[i] = data[(i - addr) \div BitsUchar + 1][(i - addr) % BitsUchar]
  <2> DEFINE v == data[(i - addr) \div BitsUchar + 1][(i - addr) % BitsUchar]
             m == BitsUchar * whole
  <2>1. old[i] = IF i \in addr .. addr + m - 1 THEN v ELSE buf[i]
    BY DEF Overwritten
  <2>2. off - 1 = addr + m - 1
    BY <1>2
  <2> HIDE DEF v, m, old, off
  <2> QED
    BY <2>1, <2>2 DEF v
<1>5. CASE rest = 0
  <2>1. i \in addr .. off - 1
    BY <1>2, <1>5
  <2> QED
    BY <1>1, <1>3, <1>4, <1>5, <2>1
<1>6. CASE rest # 0
  <2> DEFINE new == xMBUtilSetBits(old, off, rest, data[whole + 1])
  <2>1. BitsWritten(buf, addr, n, data) = new
    BY <1>1, <1>3, <1>6
  <2>2. off \in Nat /\ rest \in 0 .. BitsUchar
    BY <1>2
  <2>3. DOMAIN old \in SUBSET Int /\ i \in DOMAIN old
    BY DEF Overwritten, Array
  <2>4. /\ i \in off .. off + rest - 1 => new[i] = data[whole + 1][i - off]
        /\ i < off => new[i] = old[i]
    <3> HIDE DEF off, old
    <3> QED
      BY <2>2, <2>3, SetBitsInside
  <2> HIDE DEF new
  <2>5. i \in addr .. off - 1 \/ i \in off .. off + rest - 1
    BY <1>2
  <2>6. CASE i \in addr .. off - 1
    <3>1. i < off
      BY <1>2, <2>6
    <3> QED
      BY <1>4, <2>1, <2>4, <2>6, <3>1
  <2>7. CASE i \in off .. off + rest - 1
    <3>1. /\ i - off \in 0 .. BitsUchar - 1
          /\ i - addr = BitsUchar * whole + (i - off)
      BY <1>2, <2>7
    <3>2. /\ (i - addr) \div BitsUchar = whole
          /\ (i - addr) % BitsUchar = i - off
      <4> HIDE DEF off
      <4>1. /\ (BitsUchar * whole + (i - off)) \div BitsUchar = whole
            /\ (BitsUchar * whole + (i - off)) % BitsUchar = i - off
        BY <1>2, <3>1, DivModUnique
      <4> QED
        BY <3>1, <4>1
    <3> QED
      BY <2>1, <2>4, <2>7, <3>2
  <2> QED
    BY <2>5, <2>6, <2>7
<1> QED
  BY <1>5, <1>6

LEMMA ByteCountIs ==
  ASSUME NEW n \in Nat
  PROVE  ByteCount(n) = IF n % BitsUchar = 0 THEN n \div BitsUchar
                        ELSE n \div BitsUchar + 1
<1> DEFINE q == n \div BitsUchar
           r == n % BitsUchar
<1>1. /\ BitsUchar \in Nat \ {0} /\ q \in Nat /\ r \in 0 .. BitsUchar - 1
      /\ n = BitsUchar * q + r
  BY SizesAssumption, DivMod
<1> HIDE DEF q, r
<1>2. CASE r = 0
  <2>1. n + BitsUchar - 1 = BitsUchar * q + (BitsUchar - 1)
    BY <1>1, <1>2
  <2>2. (BitsUchar * q + (BitsUchar - 1)) \div BitsUchar = q
    BY <1>1, DivModUnique
  <2> QED
    BY <1>2, <2>1, <2>2 DEF ByteCount, q, r
<1>3. CASE r # 0
  <2>1. n + BitsUchar - 1 = BitsUchar * (q + 1) + (r - 1)
    BY <1>1
  <2>2. q + 1 \in Nat /\ r - 1 \in 0 .. BitsUchar - 1
    BY <1>1, <1>3
  <2>3. (BitsUchar * (q + 1) + (r - 1)) \div BitsUchar = q + 1
    BY <1>1, <2>2, DivModUnique
  <2> QED
    BY <1>3, <2>1, <2>3 DEF ByteCount, q, r
<1> QED
  BY <1>2, <1>3

LEMMA SetBitsType ==
  ASSUME NEW D, D \in SUBSET Int, NEW buf \in [D -> Bit], NEW off \in Nat,
         NEW n \in Nat, NEW value \in Byte
  PROVE  xMBUtilSetBits(buf, off, n, value) \in [D -> Bit]
<1> DEFINE shift == off % BitsUchar
           first == off - shift
           Shifted(k) == IF k \in shift .. shift + BitsUchar - 1
                         THEN value[k - shift] ELSE 0
           Masked(k) == k \in shift .. shift + n - 1
<1>1. BitsUchar \in Nat \ {0} /\ shift \in 0 .. BitsUchar - 1
  BY SizesAssumption, DivMod
<1>2. xMBUtilSetBits(buf, off, n, value) =
        [i \in D |->
           IF /\ i - first \in 0 .. 2 * BitsUchar - 1
              /\ Masked(i - first) \/ Shifted(i - first) = 1
           THEN Shifted(i - first) ELSE buf[i]]
  BY DEF xMBUtilSetBits
<1> HIDE DEF shift
<1>3. \A k \in Int : Shifted(k) \in Bit
  <2> SUFFICES ASSUME NEW k \in Int, k \in shift .. shift + BitsUchar - 1
               PROVE  value[k - shift] \in Bit
    BY DEF Bit
  <2>1. k - shift \in 0 .. BitsUchar - 1
    BY <1>1
  <2> QED
    BY <2>1 DEF Byte
<1>4. first \in Int
  BY <1>1
<1> HIDE DEF first, Shifted, Masked
<1>5. \A i \in D : i - first \in Int
  BY <1>4
<1> QED
  BY <1>2, <1>3, <1>5

LEMMA BitsWrittenType ==
  ASSUME NEW D, D \in SUBSET Int, NEW buf \in [D -> Bit], NEW addr \in Nat,
         NEW n \in Nat, NEW data \in Seq(Byte), Len(data) >= ByteCount(n)
  PROVE  BitsWritten(buf, addr, n, data) \in [D -> Bit]
<1> DEFINE whole == n \div BitsUchar
           rest == n % BitsUchar
           off == addr + BitsUchar * whole
<1>1. PICK put :
        /\ Puts(buf, addr, data, whole, put)
        /\ BitsWritten(buf, addr, n, data) =
             IF rest = 0 THEN put[whole]
             ELSE xMBUtilSetBits(put[whole], off, rest, data[whole + 1])
  BY LoopIs
<1>2. /\ BitsUchar \in Nat \ {0} /\ whole \in Nat /\ rest \in 0 .. BitsUchar - 1
      /\ n = BitsUchar * whole + rest
  BY SizesAssumption, DivMod
<1>3. /\ whole <= Len(data)
      /\ rest # 0 => whole + 1 <= Len(data)
  <2>1. ByteCount(n) = IF rest = 0 THEN whole ELSE whole + 1
    BY ByteCountIs
  <2>2. Len(data) \in Nat
    OBVIOUS
  <2> HIDE DEF whole, rest
  <2> QED
    BY <1>2, <2>1, <2>2
<1> HIDE DEF whole, rest
<1>4. \A b \in [D -> Bit], o, m \in Nat, v \in Byte :
        xMBUtilSetBits(b, o, m, v) \in [D -> Bit]
  BY SetBitsType
<1>5. put[whole] \in [D -> Bit]
  <2> DEFINE S == {j \in Nat : j <= whole => put[j] \in [D -> Bit]}
  <2>1. 0 \in S
    BY <1>1, <1>2 DEF Puts
  <2>2. ASSUME NEW j \in S
        PROVE  j + 1 \in S
    <3> SUFFICES ASSUME j + 1 <= whole
                 PROVE  put[j + 1] \in [D -> Bit]
      OBVIOUS
    <3>1. put[j] \in [D -> Bit]
      BY <1>2
    <3>2. put[j + 1] = xMBUtilSetBits(put[j], addr + BitsUchar * j, BitsUchar,
                                      data[j + 1])
      <4>1. put[j + 1] = NextByte(put[(j + 1) - 1], addr, data, j + 1)
        BY <1>1, <1>2 DEF Puts
      <4>2. (j + 1) - 1 = j
        OBVIOUS
      <4> QED
        BY <4>1, <4>2 DEF NextByte
    <3>3. data[j + 1] \in Byte /\ addr + BitsUchar * j \in Nat
      <4>1. j + 1 \in 1 .. whole
        BY <1>2
      <4>2. BitsUchar * j \in Nat
        BY <1>2
      <4>3. j + 1 \in 1 .. Len(data)
        <5>1. Len(data) \in Nat /\ whole \in Nat /\ whole <= Len(data)
          BY <1>2, <1>3
        <5> QED
          BY <4>1, <5>1
      <4>4. data[j + 1] \in Byte
        BY ONLY <4>3, data \in Seq(Byte)
      <4> QED
        BY <4>2, <4>4
    <3>4. BitsUchar \in Nat
      BY <1>2
    <3>5. xMBUtilSetBits(put[j], addr + BitsUchar * j, BitsUchar, data[j + 1])
            \in [D -> Bit]
      BY <1>4, <3>1, <3>3, <3>4, Zenon
    <3> QED
      BY <3>2, <3>5, Zenon
  <2>3. S = Nat
    <3> HIDE DEF S
    <3>1. S \in SUBSET Nat
      BY DEF S
    <3> QED
      BY <2>1, <2>2, <3>1, SetInduction
  <2> QED
    BY <1>2, <2>3
<1>6. CASE rest # 0
  <2>1. data[whole + 1] \in Byte /\ off \in Nat /\ rest \in Nat
    BY <1>2, <1>3, <1>6
  <2> HIDE DEF off
  <2>2. xMBUtilSetBits(put[whole], off, rest, data[whole + 1]) \in [D -> Bit]
    BY <1>4, <1>5, <2>1, Zenon
  <2> QED
    BY <1>1, <1>6, <2>2, Zenon
<1> QED
  BY <1>1, <1>5, <1>6

LEMMA RegsWrittenType ==
  ASSUME NEW D, D \in SUBSET Int, NEW regs \in [D -> Word], NEW addr \in Nat,
         NEW n \in Nat, NEW data \in Seq(Byte), Len(data) >= 2 * n
  PROVE  RegsWritten(regs, addr, n, data) \in [D -> Word]
<1> SUFFICES ASSUME NEW i \in D, i \in addr .. addr + n - 1
             PROVE  <<data[2 * (i - addr) + 1], data[2 * (i - addr) + 2]>>
                      \in Word
  BY DEF RegsWritten
<1>1. /\ 2 * (i - addr) + 1 \in 1 .. Len(data)
      /\ 2 * (i - addr) + 2 \in 1 .. Len(data)
  OBVIOUS
<1> QED
  BY <1>1 DEF Word

LEMMA ByteOfType == ASSUME NEW v \in Int PROVE ByteOf(v) \in Byte
<1>1. \A k \in 0 .. BitsUchar - 1 : (v \div 2 ^ k) % 2 \in {0, 1}
  <2> SUFFICES ASSUME NEW k \in Nat PROVE (v \div 2 ^ k) % 2 \in {0, 1}
    OBVIOUS
  <2> QED
    OBVIOUS
<1> QED
  BY <1>1 DEF ByteOf, Byte, Bit

LEMMA BitsReadType ==
  ASSUME NEW size \in Nat, NEW buf \in [BitIndex(size) -> Bit],
         NEW addr \in Nat, NEW n \in Nat, addr + n <= size
  PROVE  BitsRead(buf, addr, n) \in [1 .. ByteCount(n) -> Byte]
<1> SUFFICES ASSUME NEW j \in 1 .. ByteCount(n), NEW k \in 0 .. BitsUchar - 1,
                    NEW left, left = n - BitsUchar * (j - 1),
                    k < IF left < BitsUchar THEN left ELSE BitsUchar
             PROVE  buf[addr + n - left + k] \in Bit
  BY DEF BitsRead, xMBUtilGetBits, Byte, Bit
<1>1. BitsUchar \in Nat \ {0}
  BY SizesAssumption
<1>2. BitsUchar * (j - 1) \in Nat
  BY <1>1
<1>3. left \in Int /\ k < left
  BY <1>1, <1>2
<1>4. addr + n - left + k \in 0 .. size - 1
  BY <1>1, <1>2, <1>3
<1>5. 0 .. size - 1 \subseteq BitIndex(size)
  <2> DEFINE q == size \div BitsUchar
             r == size % BitsUchar
  <2>1. q \in Nat /\ r \in 0 .. BitsUchar - 1 /\ size = BitsUchar * q + r
    BY <1>1, DivMod
  <2>2. ByteCount(size) = IF r = 0 THEN q ELSE q + 1
    BY ByteCountIs
  <2> HIDE DEF q, r
  <2>3. /\ BitsUchar * (q + 1) = BitsUchar * q + BitsUchar
        /\ BitsUchar * (q + 1 + 1) = BitsUchar * q + 2 * BitsUchar
    BY <1>1, <2>1
  <2>4. size - 1 <= BitsUchar * (ByteCount(size) + 1) - 1
    BY <1>1, <2>1, <2>2, <2>3
  <2> QED
    BY <1>1, <2>1, <2>2, <2>4 DEF BitIndex
<1> QED
  BY <1>4, <1>5

LEMMA RegsReadType ==
  ASSUME NEW size \in Nat, NEW regs \in [0 .. size - 1 -> Word],
         NEW addr \in Nat, NEW n \in Nat, addr + n <= size
  PROVE  RegsRead(regs, addr, n) \in [1 .. 2 * n -> Byte]
<1> SUFFICES ASSUME NEW j \in 1 .. 2 * n
             PROVE  regs[addr + (j - 1) \div 2][1 + ((j - 1) % 2)] \in Byte
  BY DEF RegsRead
<1>1. addr + (j - 1) \div 2 \in 0 .. size - 1
  OBVIOUS
<1>2. 1 + ((j - 1) % 2) \in {1, 2}
  OBVIOUS
<1>3. \A w \in Word : w[1] \in Byte /\ w[2] \in Byte
  BY DEF Word
<1> QED
  BY <1>1, <1>2, <1>3

\* 2 ^ k is the number of subsets of a set of k elements: there are at least
\* two, when there is an element.
LEMMA PowerPositive ==
  ASSUME NEW k \in Nat
  PROVE  2 ^ k \in Nat \ {0} /\ (k # 0 => 2 ^ k >= 2)
<1> DEFINE S == 1 .. k
<1>1. IsFiniteSet(S) /\ Cardinality(S) = IF 1 > k THEN 0 ELSE k - 1 + 1
  <2>1. 1 \in Int /\ k \in Int
    OBVIOUS
  <2> QED
    BY <2>1, FS_Interval, Zenon
<1>2. Cardinality(S) = k /\ (k # 0 => S # {})
  BY <1>1
<1> HIDE DEF S
<1>3. IsFiniteSet(SUBSET S) /\ Cardinality(SUBSET S) = 2 ^ k
  BY <1>1, <1>2, FS_SUBSET
<1>4. Cardinality(SUBSET S) \in Nat /\ Cardinality(SUBSET S) # 0
  <2>1. S \in SUBSET S
    OBVIOUS
  <2>2. SUBSET S # {}
    BY <2>1
  <2> QED
    BY <1>3, <2>2, FS_CardinalityType, FS_EmptySet
<1>5. S # {} => Cardinality(SUBSET S) # 1
  <2>1. S \in SUBSET S /\ {} \in SUBSET S
    OBVIOUS
  <2>2. ASSUME NEW x, SUBSET S = {x}
        PROVE  S = {}
    <3>1. \A y \in SUBSET S : y = x
      BY <2>2
    <3> QED
      BY <2>1, <3>1, Zenon
  <2> QED
    BY <1>3, <2>2, FS_Singleton
<1> QED
  BY <1>2, <1>3, <1>4, <1>5

LEMMA WordOfType ==
  ASSUME NEW v \in Nat
  PROVE  /\ WordOf(v) \in Seq(Byte) /\ Len(WordOf(v)) = 2
         /\ WordOf(v) \in Word
<1>1. v \div 2 ^ BitsUchar \in Int /\ v % 2 ^ BitsUchar \in Int
  <2>1. 2 ^ BitsUchar \in Nat \ {0}
    BY SizesAssumption, PowerPositive
  <2> QED
    BY <2>1
<1>2. /\ ByteOf(v \div 2 ^ BitsUchar) \in Byte
      /\ ByteOf(v % 2 ^ BitsUchar) \in Byte
  BY <1>1, ByteOfType
<1> QED
  BY <1>2 DEF WordOf, Word

LEMMA OneBitType ==
  ASSUME NEW v \in Nat
  PROVE  <<ByteOf(v)>> \in Seq(Byte) /\ Len(<<ByteOf(v)>>) >= ByteCount(1)
<1>1. ByteOf(v) \in Byte
  BY ByteOfType
<1>2. ByteCount(1) = 1
  BY SizesAssumption DEF ByteCount
<1> QED
  BY <1>1, <1>2

-----------------------------------------------------------------------------
(***************************************************************************)
(* Types: the memories, and what is under way.                             *)
(***************************************************************************)

(* A frame with the data that its byte count speaks of. *)
Carrying == {q \in Frames : Len(q.data) >= q.bytes}

(* The answers of the slave. *)
Exceptions == [fc : {"exception"}]
Reads == {"ReadCoils", "ReadDiscretes", "ReadInputs", "ReadHoldings",
          "ReadWriteHoldings"}
ReadAnswers ==
  {a \in [fc : Reads, bytes : Nat, data : Seq(Byte), len : Nat] :
     a.bytes = Len(a.data)}
WriteAnswers == [fc : Functions \ Reads, addr : Nat, word : Nat, len : {5}]
Answers == Exceptions \cup ReadAnswers \cup WriteAnswers

(* An array of bits, and one of registers. *)
Bits(n) == [BitIndex(n) -> Bit]
Regs(n) == [0 .. n - 1 -> Word]

LEMMA MemoriesIs ==
  Memories = [coils : Bits(NCoils), discs : Bits(NDiscretes),
              inputs : Regs(NInputs), holds : Regs(NHoldings)]
BY DEF Memories, Bits, Regs

LEMMA BitsStored ==
  ASSUME NEW size \in Nat, NEW buf \in Bits(size), NEW addr \in Nat,
         NEW n \in Nat, NEW data \in Seq(Byte), Len(data) >= ByteCount(n)
  PROVE  BitsWritten(buf, addr, n, data) \in Bits(size)
<1>1. BitIndex(size) \in SUBSET Int
  BY SizesAssumption DEF BitIndex, ByteCount
<1>2. buf \in [BitIndex(size) -> Bit]
  BY DEF Bits
<1> DEFINE D == BitIndex(size)
<1> HIDE DEF D
<1>3. BitsWritten(buf, addr, n, data) \in [D -> Bit]
  BY <1>1, <1>2, BitsWrittenType DEF D
<1> QED
  BY <1>3, Zenon DEF Bits, D

LEMMA RegsStored ==
  ASSUME NEW size \in Nat, NEW regs \in Regs(size), NEW addr \in Nat,
         NEW n \in Nat, NEW data \in Seq(Byte), Len(data) >= 2 * n
  PROVE  RegsWritten(regs, addr, n, data) \in Regs(size)
<1>1. 0 .. size - 1 \in SUBSET Int
  OBVIOUS
<1> QED
  BY <1>1, RegsWrittenType DEF Regs

\* A read is answered with bytes and keeps the memory.
LEMMA ReadType ==
  ASSUME NEW mem \in Memories, NEW q \in Carrying, q.fc \in Reads, NEW counts,
         counts \in SUBSET Nat, NEW size \in Nat, NEW data,
         q.addr + q.word <= size => data \in Seq(Byte)
  PROVE  /\ Read(mem, q, counts, size, data).mem = mem
         /\ Read(mem, q, counts, size, data).ans \in Answers
<1>1. CASE q.len # 5 \/ q.word \notin counts
           \/ ~InRange(q.addr, q.word, size)
  BY <1>1 DEF Read, Refused, BadAddress, Answers, Exceptions
<1>2. CASE q.len = 5 /\ q.word \in counts /\ InRange(q.addr, q.word, size)
  <2>1. data \in Seq(Byte)
    BY <1>2 DEF InRange
  <2>2. data \in Seq(Byte) /\ Len(data) \in Nat
    BY <2>1
  <2>3. Read(mem, q, counts, size, data) = ReadAnswer(mem, q, data)
    BY <1>2 DEF Read
  <2>4. [fc |-> q.fc, bytes |-> Len(data), data |-> data,
         len |-> 2 + Len(data)] \in ReadAnswers
    BY <2>2 DEF ReadAnswers
  <2> QED
    BY <2>3, <2>4 DEF ReadAnswer, Answers
<1> QED
  BY <1>1, <1>2

LEMMA DoneType ==
  ASSUME NEW mem, NEW q \in Carrying, q.fc \notin Reads
  PROVE  Done(mem, q).mem = mem /\ Done(mem, q).ans \in Answers
<1>1. [fc |-> q.fc, addr |-> q.addr, word |-> q.word, len |-> 5]
        \in WriteAnswers
  BY DEF WriteAnswers, Carrying, Frames
<1> QED
  BY <1>1 DEF Done, Answers

LEMMA RefusedType ==
  ASSUME NEW mem, NEW ex
  PROVE  /\ Refused(mem, ex).mem = mem /\ Refused(mem, ex).ans \in Answers
         /\ BadAddress(mem).mem = mem /\ BadAddress(mem).ans \in Answers
BY DEF Refused, BadAddress, Answers, Exceptions

LEMMA CoilsType ==
  ASSUME NEW mem \in Memories, NEW c \in Bits(NCoils)
  PROVE  [mem EXCEPT !.coils = c] \in Memories
BY MemoriesIs

LEMMA HoldsType ==
  ASSUME NEW mem \in Memories, NEW r \in Regs(NHoldings)
  PROVE  [mem EXCEPT !.holds = r] \in Memories
BY MemoriesIs

LEMMA SizesNat ==
  /\ NCoils \in Nat /\ NDiscretes \in Nat /\ NInputs \in Nat
  /\ NHoldings \in Nat
  /\ 1 .. ReadBitsMax - 1 \in SUBSET Nat /\ 1 .. ReadRegsMax - 1 \in SUBSET Nat
  /\ 1 .. ReadRegsMax \in SUBSET Nat
BY SizesAssumption

LEMMA ByteCountNat == ASSUME NEW n \in Nat PROVE ByteCount(n) \in Nat
BY SizesAssumption DEF ByteCount

\* The handlers keep the type of the memory, and answer with an answer.
LEMMA HandlerType ==
  ASSUME NEW mem \in Memories, NEW q \in Carrying
  PROVE  LET h == Handle(q.fc, mem, q) IN
         h.mem \in Memories /\ h.ans \in Answers
<1> DEFINE h == Handle(q.fc, mem, q)
<1>1. /\ q.addr \in Nat /\ q.word \in Nat /\ q.waddr \in Nat /\ q.wcnt \in Nat
      /\ q.bytes \in Nat /\ q.fc \in Functions
  BY DEF Carrying, Frames
<1>2. q.data \in Seq(Byte) /\ Len(q.data) >= q.bytes
  BY DEF Carrying, Frames
<1>3. /\ mem.coils \in Bits(NCoils) /\ mem.discs \in Bits(NDiscretes)
      /\ mem.inputs \in Regs(NInputs) /\ mem.holds \in Regs(NHoldings)
  BY MemoriesIs
<1>4. CASE q.fc = "ReadCoils"
  <2> DEFINE data == BitsRead(mem.coils, q.addr, q.word)
             counts == 1 .. ReadBitsMax - 1
  <2>1. h = Read(mem, q, counts, NCoils, data)
    BY <1>4 DEF Handle, eMBFuncReadCoils
  <2>2. q.addr + q.word <= NCoils => data \in Seq(Byte)
    <3> SUFFICES ASSUME q.addr + q.word <= NCoils
                 PROVE  data \in Seq(Byte)
      OBVIOUS
    <3>1. data \in [1 .. ByteCount(q.word) -> Byte]
      BY <1>1, <1>3, SizesNat, BitsReadType DEF Bits
    <3>2. ByteCount(q.word) \in Nat
      BY <1>1, ByteCountNat
    <3> HIDE DEF data
    <3> QED
      BY <3>1, <3>2
  <2>3. q.fc \in Reads
    BY <1>4 DEF Reads
  <2>4. counts \in SUBSET Nat /\ NCoils \in Nat
    BY SizesNat
  <2> HIDE DEF data, counts, h
  <2>5. /\ Read(mem, q, counts, NCoils, data).mem = mem
        /\ Read(mem, q, counts, NCoils, data).ans \in Answers
    BY <2>2, <2>3, <2>4, ReadType
  <2>6. h.mem = mem /\ h.ans \in Answers
    BY ONLY <2>1, <2>5
  <2> QED
    BY <2>6 DEF h
<1>5. CASE q.fc = "ReadDiscretes"
  <2> DEFINE data == BitsRead(mem.discs, q.addr, q.word)
             counts == 1 .. ReadBitsMax - 1
  <2>1. h = Read(mem, q, counts, NDiscretes, data)
    BY <1>5 DEF Handle, eMBFuncReadDiscreteInputs
  <2>2. q.addr + q.word <= NDiscretes => data \in Seq(Byte)
    <3> SUFFICES ASSUME q.addr + q.word <= NDiscretes
                 PROVE  data \in Seq(Byte)
      OBVIOUS
    <3>1. data \in [1 .. ByteCount(q.word) -> Byte]
      BY <1>1, <1>3, SizesNat, BitsReadType DEF Bits
    <3>2. ByteCount(q.word) \in Nat
      BY <1>1, ByteCountNat
    <3> HIDE DEF data
    <3> QED
      BY <3>1, <3>2
  <2>3. q.fc \in Reads
    BY <1>5 DEF Reads
  <2>4. counts \in SUBSET Nat /\ NDiscretes \in Nat
    BY SizesNat
  <2> HIDE DEF data, counts, h
  <2>5. /\ Read(mem, q, counts, NDiscretes, data).mem = mem
        /\ Read(mem, q, counts, NDiscretes, data).ans \in Answers
    BY <2>2, <2>3, <2>4, ReadType
  <2>6. h.mem = mem /\ h.ans \in Answers
    BY ONLY <2>1, <2>5
  <2> QED
    BY <2>6 DEF h
<1>6. CASE q.fc = "ReadInputs"
  <2> DEFINE data == RegsRead(mem.inputs, q.addr, q.word)
             counts == 1 .. ReadRegsMax - 1
  <2>1. h = Read(mem, q, counts, NInputs, data)
    BY <1>6 DEF Handle, eMBFuncReadInputRegister
  <2>2. q.addr + q.word <= NInputs => data \in Seq(Byte)
    <3> SUFFICES ASSUME q.addr + q.word <= NInputs
                 PROVE  data \in Seq(Byte)
      OBVIOUS
    <3>1. data \in [1 .. 2 * q.word -> Byte]
      BY <1>1, <1>3, SizesNat, RegsReadType DEF Regs
    <3>2. 2 * q.word \in Nat
      BY <1>1, ByteCountNat
    <3> HIDE DEF data
    <3> QED
      BY <3>1, <3>2
  <2>3. q.fc \in Reads
    BY <1>6 DEF Reads
  <2>4. counts \in SUBSET Nat /\ NInputs \in Nat
    BY SizesNat
  <2> HIDE DEF data, counts, h
  <2>5. /\ Read(mem, q, counts, NInputs, data).mem = mem
        /\ Read(mem, q, counts, NInputs, data).ans \in Answers
    BY <2>2, <2>3, <2>4, ReadType
  <2>6. h.mem = mem /\ h.ans \in Answers
    BY ONLY <2>1, <2>5
  <2> QED
    BY <2>6 DEF h
<1>7. CASE q.fc = "ReadHoldings"
  <2> DEFINE data == RegsRead(mem.holds, q.addr, q.word)
             counts == 1 .. ReadRegsMax
  <2>1. h = Read(mem, q, counts, NHoldings, data)
    BY <1>7 DEF Handle, eMBFuncReadHoldingRegister
  <2>2. q.addr + q.word <= NHoldings => data \in Seq(Byte)
    <3> SUFFICES ASSUME q.addr + q.word <= NHoldings
                 PROVE  data \in Seq(Byte)
      OBVIOUS
    <3>1. data \in [1 .. 2 * q.word -> Byte]
      BY <1>1, <1>3, SizesNat, RegsReadType DEF Regs
    <3>2. 2 * q.word \in Nat
      BY <1>1, ByteCountNat
    <3> HIDE DEF data
    <3> QED
      BY <3>1, <3>2
  <2>3. q.fc \in Reads
    BY <1>7 DEF Reads
  <2>4. counts \in SUBSET Nat /\ NHoldings \in Nat
    BY SizesNat
  <2> HIDE DEF data, counts, h
  <2>5. /\ Read(mem, q, counts, NHoldings, data).mem = mem
        /\ Read(mem, q, counts, NHoldings, data).ans \in Answers
    BY <2>2, <2>3, <2>4, ReadType
  <2>6. h.mem = mem /\ h.ans \in Answers
    BY ONLY <2>1, <2>5
  <2> QED
    BY <2>6 DEF h
<1>8. CASE q.fc = "WriteCoil"
  <2> DEFINE bit == <<ByteOf(IF q.word = CoilOn THEN 1 ELSE 0)>>
             c == BitsWritten(mem.coils, q.addr, 1, bit)
  <2>1. h = eMBFuncWriteCoil(mem, q) /\ q.fc \notin Reads
    BY <1>8 DEF Handle, Reads
  <2>2. c \in Bits(NCoils)
    <3>1. bit \in Seq(Byte) /\ Len(bit) >= ByteCount(1)
      BY OneBitType
    <3> HIDE DEF bit
    <3> QED
      BY <1>1, <1>3, <3>1, SizesNat, BitsStored
  <2> HIDE DEF c
  <2>3. [mem EXCEPT !.coils = c] \in Memories
    BY <2>2, CoilsType
  <2>4. \/ h = Done([mem EXCEPT !.coils = c], q)
        \/ h = Refused(mem, "ILLEGAL_DATA_VALUE") \/ h = BadAddress(mem)
    BY <2>1 DEF eMBFuncWriteCoil, c
  <2> QED
    BY <2>1, <2>3, <2>4, DoneType, RefusedType
<1>9. CASE q.fc = "WriteCoils"
  <2> DEFINE c == BitsWritten(mem.coils, q.addr, q.word, q.data)
  <2>1. h = eMBFuncWriteMultipleCoils(mem, q) /\ q.fc \notin Reads
    BY <1>9 DEF Handle, Reads
  <2>2. q.bytes = ByteCount(q.word) => c \in Bits(NCoils)
    BY <1>1, <1>2, <1>3, SizesNat, BitsStored
  <2> HIDE DEF c
  <2>3. q.bytes = ByteCount(q.word) => [mem EXCEPT !.coils = c] \in Memories
    BY <2>2, CoilsType
  <2>4. \/ /\ h = Done([mem EXCEPT !.coils = c], q)
           /\ q.bytes = ByteCount(q.word)
        \/ h = Refused(mem, "ILLEGAL_DATA_VALUE") \/ h = BadAddress(mem)
    BY <2>1 DEF eMBFuncWriteMultipleCoils, c
  <2> QED
    BY <2>1, <2>3, <2>4, DoneType, RefusedType
<1>10. CASE q.fc = "WriteHolding"
  <2> DEFINE r == RegsWritten(mem.holds, q.addr, 1, WordOf(q.word))
  <2>1. h = eMBFuncWriteHoldingRegister(mem, q) /\ q.fc \notin Reads
    BY <1>10 DEF Handle, Reads
  <2>2. r \in Regs(NHoldings)
    <3> DEFINE w == WordOf(q.word)
    <3>1. w \in Seq(Byte) /\ Len(w) = 2
      BY <1>1, WordOfType
    <3> HIDE DEF w
    <3>2. Len(w) >= 2 * 1 /\ 1 \in Nat
      BY <3>1
    <3>3. RegsWritten(mem.holds, q.addr, 1, w) \in Regs(NHoldings)
      BY <1>1, <1>3, <3>1, <3>2, SizesNat, RegsStored
    <3> QED
      BY <3>3 DEF w
  <2> HIDE DEF r
  <2>3. [mem EXCEPT !.holds = r] \in Memories
    BY <2>2, HoldsType
  <2>4. \/ h = Done([mem EXCEPT !.holds = r], q)
        \/ h = Refused(mem, "ILLEGAL_DATA_VALUE") \/ h = BadAddress(mem)
    BY <2>1 DEF eMBFuncWriteHoldingRegister, r
  <2> QED
    BY <2>1, <2>3, <2>4, DoneType, RefusedType
<1>11. CASE q.fc = "WriteHoldings"
  <2> DEFINE r == RegsWritten(mem.holds, q.addr, q.word, q.data)
  <2>1. h = eMBFuncWriteMultipleHoldingRegister(mem, q) /\ q.fc \notin Reads
    BY <1>11 DEF Handle, Reads
  <2>2. q.bytes = 2 * q.word => r \in Regs(NHoldings)
    BY <1>1, <1>2, <1>3, SizesNat, RegsStored
  <2> HIDE DEF r
  <2>3. q.bytes = 2 * q.word => [mem EXCEPT !.holds = r] \in Memories
    BY <2>2, HoldsType
  <2>4. \/ h = Done([mem EXCEPT !.holds = r], q) /\ q.bytes = 2 * q.word
        \/ h = Refused(mem, "ILLEGAL_DATA_VALUE") \/ h = BadAddress(mem)
    BY <2>1 DEF eMBFuncWriteMultipleHoldingRegister, r
  <2> QED
    BY <2>1, <2>3, <2>4, DoneType, RefusedType
<1>12. CASE q.fc = "ReadWriteHoldings"
  <2> DEFINE r == RegsWritten(mem.holds, q.waddr, q.wcnt, q.data)
             written == [mem EXCEPT !.holds = r]
             data == RegsRead(written.holds, q.addr, q.word)
             short == [ex |-> "NONE", mem |-> mem,
                       ans |-> [fc |-> q.fc, bytes |-> 0, data |-> <<>>,
                                len |-> q.len]]
  <2>1. /\ h = eMBFuncReadWriteMultipleHoldingRegister(mem, q)
        /\ q.fc \in Reads /\ q.len \in Nat
    BY <1>12 DEF Handle, Reads, Carrying, Frames
  <2>2. q.bytes = 2 * q.wcnt => r \in Regs(NHoldings)
    BY <1>1, <1>2, <1>3, SizesNat, RegsStored
  <2>3. q.bytes = 2 * q.wcnt => written \in Memories
    <3> HIDE DEF r
    <3> QED
      BY <2>2, HoldsType
  <2>4. written.holds = r
    BY MemoriesIs
  <2> HIDE DEF r, written
  <2>5. (q.bytes = 2 * q.wcnt /\ q.addr + q.word <= NHoldings) =>
          /\ data \in Seq(Byte) /\ Len(data) \in Nat
          /\ data \in [1 .. 2 * q.word -> Byte]
    <3> SUFFICES ASSUME q.bytes = 2 * q.wcnt, q.addr + q.word <= NHoldings
                 PROVE  /\ data \in Seq(Byte) /\ Len(data) \in Nat
                        /\ data \in [1 .. 2 * q.word -> Byte]
      OBVIOUS
    <3>1. data \in [1 .. 2 * q.word -> Byte]
      BY <1>1, <2>2, <2>4, SizesNat, RegsReadType DEF Regs
    <3> HIDE DEF data
    <3>2. PICK k \in Nat : k = 2 * q.word
      BY <1>1
    <3>3. data \in [1 .. k -> Byte]
      BY <3>1, <3>2
    <3>4. data \in Seq(Byte) /\ Len(data) \in Nat
      BY <3>3
    <3> QED
      BY <3>1, <3>4
  <2> HIDE DEF data
  <2>6. short.ans \in Answers /\ short.mem = mem
    <3>1. short.ans \in ReadAnswers
      BY <2>1 DEF ReadAnswers
    <3> QED
      BY <3>1 DEF Answers
  <2>7. (data \in Seq(Byte) /\ Len(data) \in Nat) =>
          /\ ReadAnswer(written, q, data).ans \in Answers
          /\ ReadAnswer(written, q, data).mem = written
    BY <2>1 DEF ReadAnswer, Answers, ReadAnswers
  <2>8. \/ h = short
        \/ h = Refused(mem, "ILLEGAL_DATA_VALUE") \/ h = BadAddress(mem)
        \/ h = BadAddress(written) /\ q.bytes = 2 * q.wcnt
        \/ /\ h = ReadAnswer(written, q, data) /\ q.bytes = 2 * q.wcnt
           /\ q.addr + q.word <= NHoldings
    BY <2>1
       DEF eMBFuncReadWriteMultipleHoldingRegister, InRange, r, written, data
  <2> HIDE DEF short
  <2> QED
    BY <2>3, <2>5, <2>6, <2>7, <2>8, RefusedType
<1> QED
  BY <1>1, <1>4, <1>5, <1>6, <1>7, <1>8, <1>9, <1>10, <1>11, <1>12
     DEF Functions

-----------------------------------------------------------------------------
(***************************************************************************)
(* What a request changes.                                                 *)
(***************************************************************************)

LEMMA DiffersNowhere == ASSUME NEW mem PROVE Differing(mem, mem) = {}
BY DEF Differing

LEMMA DiffersInCoils ==
  ASSUME NEW mem \in Memories, NEW addr \in Nat, NEW n \in Nat, NEW data
  PROVE  Differing(mem, [mem EXCEPT !.coils =
                           Overwritten(mem.coils, addr, n, data)])
           \subseteq Places("coils", addr, n)
<1> DEFINE c == Overwritten(mem.coils, addr, n, data)
           new == [mem EXCEPT !.coils = c]
<1>1. \A i \in DOMAIN mem.coils :
        i \notin addr .. addr + n - 1 => c[i] = mem.coils[i]
  BY DEF Overwritten
<1> HIDE DEF c
<1>2. /\ new["coils"] = c /\ mem["coils"] = mem.coils
      /\ new["discs"] = mem["discs"] /\ new["inputs"] = mem["inputs"]
      /\ new["holds"] = mem["holds"]
  BY MemoriesIs
<1> HIDE DEF new
<1> SUFFICES ASSUME NEW p \in Differing(mem, new)
             PROVE  p \in Places("coils", addr, n)
  BY DEF new, c
<1>3. PICK t \in {"coils", "discs", "inputs", "holds"} :
        \E i \in DOMAIN mem[t] : mem[t][i] # new[t][i] /\ p = <<t, i>>
  BY DEF Differing
<1> PICK i \in DOMAIN mem[t] : mem[t][i] # new[t][i] /\ p = <<t, i>>
  BY <1>3
<1>4. t = "coils" /\ i \in DOMAIN mem.coils /\ c[i] # mem.coils[i]
  BY <1>2, <1>3
<1>5. i \in addr .. addr + n - 1
  BY <1>1, <1>4
<1> QED
  BY <1>3, <1>4, <1>5 DEF Places

LEMMA DiffersInHolds ==
  ASSUME NEW mem \in Memories, NEW addr \in Nat, NEW n \in Nat, NEW data
  PROVE  Differing(mem, [mem EXCEPT !.holds =
                           RegsWritten(mem.holds, addr, n, data)])
           \subseteq Places("holds", addr, n)
<1> DEFINE r == RegsWritten(mem.holds, addr, n, data)
           new == [mem EXCEPT !.holds = r]
<1>1. \A i \in DOMAIN mem.holds :
        i \notin addr .. addr + n - 1 => r[i] = mem.holds[i]
  BY DEF RegsWritten
<1> HIDE DEF r
<1>2. /\ new["holds"] = r /\ mem["holds"] = mem.holds
      /\ new["discs"] = mem["discs"] /\ new["inputs"] = mem["inputs"]
      /\ new["coils"] = mem["coils"]
  BY MemoriesIs
<1> HIDE DEF new
<1> SUFFICES ASSUME NEW p \in Differing(mem, new)
             PROVE  p \in Places("holds", addr, n)
  BY DEF new, r
<1>3. PICK t \in {"coils", "discs", "inputs", "holds"} :
        \E i \in DOMAIN mem[t] : mem[t][i] # new[t][i] /\ p = <<t, i>>
  BY DEF Differing
<1> PICK i \in DOMAIN mem[t] : mem[t][i] # new[t][i] /\ p = <<t, i>>
  BY <1>3
<1>4. t = "holds" /\ i \in DOMAIN mem.holds /\ r[i] # mem.holds[i]
  BY <1>2, <1>3
<1>5. i \in addr .. addr + n - 1
  BY <1>1, <1>4
<1> QED
  BY <1>3, <1>4, <1>5 DEF Places

LEMMA CoilsArray == ASSUME NEW mem \in Memories PROVE Array(mem.coils)
<1>1. mem.coils \in [BitIndex(NCoils) -> Bit]
  BY DEF Memories
<1>2. BitIndex(NCoils) \in SUBSET Int
  BY SizesAssumption DEF BitIndex, ByteCount
<1> QED
  BY <1>1, <1>2 DEF Array

\* The byte of a single coil has no other bit.
LEMMA OneBitPadded ==
  ASSUME NEW v \in {0, 1}
  PROVE  Padded(<<ByteOf(v)>>, 1)
<1>1. BitsUchar \in Nat \ {0}
  BY SizesAssumption
<1>2. CASE BitsUchar = 1
  BY <1>2 DEF Padded
<1>3. CASE BitsUchar # 1
  <2>1. 1 % BitsUchar = 1 /\ 1 \div BitsUchar = 0
    BY <1>1, <1>3
  <2>2. ASSUME NEW k \in 1 .. BitsUchar - 1
        PROVE  ByteOf(v)[k] = 0
    <3>1. 2 ^ k \in Nat /\ 2 ^ k >= 2
      BY PowerPositive
    <3>2. v \div 2 ^ k = 0
      <4> DEFINE p == 2 ^ k
      <4> HIDE DEF p
      <4>1. p \in Nat /\ p >= 2
        BY <3>1 DEF p
      <4>2. v \div p = 0
        BY <4>1
      <4> QED
        BY <4>2 DEF p
    <3>3. (v \div 2 ^ k) % 2 = 0
      <4>1. 0 % 2 = 0
        OBVIOUS
      <4> QED
        BY <3>2, <4>1, Zenon
    <3>4. ByteOf(v)[k] = (v \div 2 ^ k) % 2
      BY <1>1 DEF ByteOf
    <3> QED
      BY <3>3, <3>4
  <2> QED
    BY <2>1, <2>2 DEF Padded
<1> QED
  BY <1>2, <1>3

LEMMA HandlerWrites ==
  ASSUME NEW mem \in Memories, NEW q \in Carrying,
         (q.fc = "WriteCoils" /\ q.bytes = ByteCount(q.word)) =>
           Padded(q.data, q.word)
  PROVE  Differing(mem, Handle(q.fc, mem, q).mem) \subseteq WrittenBy(q)
<1> DEFINE h == Handle(q.fc, mem, q)
<1>1. /\ q.addr \in Nat /\ q.word \in Nat /\ q.waddr \in Nat /\ q.wcnt \in Nat
      /\ q.fc \in Functions
  BY DEF Carrying, Frames
<1> HIDE DEF h
<1>2. h.mem = mem => Differing(mem, h.mem) \subseteq WrittenBy(q)
  BY DiffersNowhere
<1> SUFFICES Differing(mem, h.mem) \subseteq WrittenBy(q)
  BY DEF h
<1>3. CASE q.fc = "WriteCoil"
  <2> DEFINE v == IF q.word = CoilOn THEN 1 ELSE 0
             data == <<ByteOf(v)>>
  <2>1. Padded(data, 1)
    BY OneBitPadded
  <2>2. h.mem = mem \/ h.mem = [mem EXCEPT !.coils =
                                  BitsWritten(mem.coils, q.addr, 1, data)]
    <3>1. h = eMBFuncWriteCoil(mem, q)
      BY <1>3 DEF h, Handle
    <3> QED
      BY <3>1 DEF eMBFuncWriteCoil, Refused, BadAddress, Done
  <2> HIDE DEF data
  <2>3. BitsWritten(mem.coils, q.addr, 1, data)
          = Overwritten(mem.coils, q.addr, 1, data)
    BY <1>1, <2>1, CoilsArray, BitsWrittenIs
  <2>4. Differing(mem, [mem EXCEPT !.coils =
                          Overwritten(mem.coils, q.addr, 1, data)])
          \subseteq Places("coils", q.addr, 1)
    BY <1>1, DiffersInCoils
  <2>5. WrittenBy(q) = Places("coils", q.addr, 1)
    BY <1>3 DEF WrittenBy
  <2> QED
    BY <1>2, <2>2, <2>3, <2>4, <2>5
<1>4. CASE q.fc = "WriteCoils"
  <2>1. h.mem = mem \/ /\ h.mem = [mem EXCEPT !.coils =
                            BitsWritten(mem.coils, q.addr, q.word, q.data)]
                       /\ q.bytes = ByteCount(q.word)
    <3>1. h = eMBFuncWriteMultipleCoils(mem, q)
      BY <1>4 DEF h, Handle
    <3> QED
      BY <3>1 DEF eMBFuncWriteMultipleCoils, Refused, BadAddress, Done
  <2>2. q.bytes = ByteCount(q.word) =>
          BitsWritten(mem.coils, q.addr, q.word, q.data)
            = Overwritten(mem.coils, q.addr, q.word, q.data)
    BY <1>1, <1>4, CoilsArray, BitsWrittenIs
  <2>3. Differing(mem, [mem EXCEPT !.coils =
                          Overwritten(mem.coils, q.addr, q.word, q.data)])
          \subseteq Places("coils", q.addr, q.word)
    BY <1>1, DiffersInCoils
  <2>4. WrittenBy(q) = Places("coils", q.addr, q.word)
    BY <1>4 DEF WrittenBy
  <2> QED
    BY <1>2, <2>1, <2>2, <2>3, <2>4
<1>5. CASE q.fc = "WriteHolding"
  <2> DEFINE data == WordOf(q.word)
  <2>1. h.mem = mem \/ h.mem = [mem EXCEPT !.holds =
                                  RegsWritten(mem.holds, q.addr, 1, data)]
    <3>1. h = eMBFuncWriteHoldingRegister(mem, q)
      BY <1>5 DEF h, Handle
    <3> QED
      BY <3>1 DEF eMBFuncWriteHoldingRegister, Refused, BadAddress, Done
  <2> HIDE DEF data
  <2>2. Differing(mem, [mem EXCEPT !.holds =
                          RegsWritten(mem.holds, q.addr, 1, data)])
          \subseteq Places("holds", q.addr, 1)
    BY <1>1, DiffersInHolds
  <2>3. WrittenBy(q) = Places("holds", q.addr, 1)
    BY <1>5 DEF WrittenBy
  <2> QED
    BY <1>2, <2>1, <2>2, <2>3
<1>6. CASE q.fc = "WriteHoldings"
  <2>1. h.mem = mem \/ h.mem = [mem EXCEPT !.holds =
                         RegsWritten(mem.holds, q.addr, q.word, q.data)]
    <3>1. h = eMBFuncWriteMultipleHoldingRegister(mem, q)
      BY <1>6 DEF h, Handle
    <3> QED
      BY <3>1 DEF eMBFuncWriteMultipleHoldingRegister, Refused, BadAddress, Done
  <2>2. Differing(mem, [mem EXCEPT !.holds =
                          RegsWritten(mem.holds, q.addr, q.word, q.data)])
          \subseteq Places("holds", q.addr, q.word)
    BY <1>1, DiffersInHolds
  <2>3. WrittenBy(q) = Places("holds", q.addr, q.word)
    BY <1>6 DEF WrittenBy
  <2> QED
    BY <1>2, <2>1, <2>2, <2>3
<1>7. CASE q.fc = "ReadWriteHoldings"
  <2>1. h.mem = mem \/ h.mem = [mem EXCEPT !.holds =
                         RegsWritten(mem.holds, q.waddr, q.wcnt, q.data)]
    <3>1. h = eMBFuncReadWriteMultipleHoldingRegister(mem, q)
      BY <1>7 DEF h, Handle
    <3> QED
      BY <3>1 DEF eMBFuncReadWriteMultipleHoldingRegister, Refused, BadAddress,
                  ReadAnswer
  <2>2. Differing(mem, [mem EXCEPT !.holds =
                          RegsWritten(mem.holds, q.waddr, q.wcnt, q.data)])
          \subseteq Places("holds", q.waddr, q.wcnt)
    BY <1>1, DiffersInHolds
  <2>3. WrittenBy(q) = Places("holds", q.waddr, q.wcnt)
    BY <1>7 DEF WrittenBy
  <2> QED
    BY <1>2, <2>1, <2>2, <2>3
<1>8. CASE q.fc = "ReadCoils"
  <2>1. h = eMBFuncReadCoils(mem, q)
    BY <1>8 DEF h, Handle
  <2> QED
    BY <1>2, <2>1 DEF eMBFuncReadCoils, Read, Refused, BadAddress, ReadAnswer
<1>9. CASE q.fc = "ReadDiscretes"
  <2>1. h = eMBFuncReadDiscreteInputs(mem, q)
    BY <1>9 DEF h, Handle
  <2> QED
    BY <1>2, <2>1 DEF eMBFuncReadDiscreteInputs, Read, Refused, BadAddress,
                      ReadAnswer
<1>10. CASE q.fc = "ReadInputs"
  <2>1. h = eMBFuncReadInputRegister(mem, q)
    BY <1>10 DEF h, Handle
  <2> QED
    BY <1>2, <2>1 DEF eMBFuncReadInputRegister, Read, Refused, BadAddress,
                      ReadAnswer
<1>11. CASE q.fc = "ReadHoldings"
  <2>1. h = eMBFuncReadHoldingRegister(mem, q)
    BY <1>11 DEF h, Handle
  <2> QED
    BY <1>2, <2>1 DEF eMBFuncReadHoldingRegister, Read, Refused, BadAddress,
                      ReadAnswer
<1> QED
  BY <1>1, <1>3, <1>4, <1>5, <1>6, <1>7, <1>8, <1>9, <1>10, <1>11
     DEF Functions

LEMMA DiscsType ==
  ASSUME NEW mem \in Memories, NEW c \in Bits(NDiscretes)
  PROVE  [mem EXCEPT !.discs = c] \in Memories
BY MemoriesIs

LEMMA InputsType ==
  ASSUME NEW mem \in Memories, NEW r \in Regs(NInputs)
  PROVE  [mem EXCEPT !.inputs = r] \in Memories
BY MemoriesIs

\* A handler of the master stores, at most, an array of the type of the one
\* that it replaces.
LEMMA StoreType ==
  ASSUME NEW copy \in Memories, NEW buf, NEW ans, NEW bytes, NEW size,
         NEW updated, ans.bytes = bytes => updated \in Memories
  PROVE  Store(copy, buf, ans, bytes, size, updated).mem \in Memories
BY DEF Store, Failed, Copied

\* The handlers of the master keep the type of a copy.
LEMMA MasterHandlerType ==
  ASSUME NEW copy \in Memories, NEW buf \in Carrying, NEW bc \in BOOLEAN,
         NEW ans,
         \/ bc = FALSE /\ ans \in Answers
         \/ bc = TRUE /\ ans = buf,
         (bc = FALSE /\ ans.fc = "ReadWriteHoldings") =>
           Len(buf.data) >= 2 * buf.wcnt
  PROVE  MasterExecute(copy, buf, ans, bc).mem \in Memories
<1> DEFINE h == MasterExecute(copy, buf, ans, bc)
<1>1. /\ buf.addr \in Nat /\ buf.word \in Nat /\ buf.waddr \in Nat
      /\ buf.wcnt \in Nat /\ buf.bytes \in Nat
      /\ buf.data \in Seq(Byte) /\ Len(buf.data) >= buf.bytes
      /\ buf.fc \in Functions
  BY DEF Carrying, Frames
<1>2. Len(buf.data) >= ByteCountSent(buf) /\ ByteCountSent(buf) \in Nat
  BY <1>1 DEF ByteCountSent
<1>3. /\ copy.coils \in Bits(NCoils) /\ copy.discs \in Bits(NDiscretes)
      /\ copy.inputs \in Regs(NInputs) /\ copy.holds \in Regs(NHoldings)
  BY MemoriesIs
<1>4. ASSUME ans.fc \in Reads, bc = FALSE
      PROVE  ans.data \in Seq(Byte) /\ Len(ans.data) = ans.bytes
  BY <1>4 DEF Answers, Exceptions, ReadAnswers, WriteAnswers, Reads
<1>5. ASSUME ans.fc \in Functions \ Reads
      PROVE  ans.addr \in Nat /\ ans.word \in Nat
  BY <1>1, <1>5 DEF Answers, Exceptions, ReadAnswers, WriteAnswers, Reads,
                    Functions
<1>6. ans.fc \in Functions \cup {"exception"}
  BY <1>1 DEF Answers, Exceptions, ReadAnswers, WriteAnswers, Reads, Functions
<1>7. CASE ans.fc = "exception"
  BY <1>7 DEF MasterExecute, Failed
<1>8. CASE bc = TRUE /\ ans.fc \in Reads
  <2>1. h = Copied(copy)
    BY <1>8 DEF MasterExecute, Reads
  <2> QED
    BY <2>1 DEF Copied
<1>9. CASE ans.fc = "WriteCoil"
  <2> DEFINE bit == <<ByteOf(IF ans.word = CoilOn THEN 1 ELSE 0)>>
             c == BitsWritten(copy.coils, ans.addr, 1, bit)
  <2>1. h = eMBMasterFuncWriteCoil(copy, buf, ans)
    BY <1>9 DEF MasterExecute
  <2>2. c \in Bits(NCoils)
    <3>1. bit \in Seq(Byte) /\ Len(bit) >= ByteCount(1)
      BY OneBitType
    <3>2. ans.addr \in Nat /\ 1 \in Nat
      BY <1>5, <1>9 DEF Functions, Reads
    <3> HIDE DEF bit
    <3> QED
      BY <1>3, <3>1, <3>2, SizesNat, BitsStored
  <2> HIDE DEF c
  <2>3. [copy EXCEPT !.coils = c] \in Memories
    BY <2>2, CoilsType
  <2>4. h.mem = copy \/ h.mem = [copy EXCEPT !.coils = c]
    BY <2>1 DEF eMBMasterFuncWriteCoil, Failed, Copied, c
  <2> QED
    BY <2>3, <2>4
<1>10. CASE ans.fc = "WriteHolding"
  <2> DEFINE w == WordOf(ans.word)
             r == RegsWritten(copy.holds, ans.addr, 1, w)
  <2>1. h = eMBMasterFuncWriteHoldingRegister(copy, buf, ans)
    BY <1>10 DEF MasterExecute
  <2>2. r \in Regs(NHoldings)
    <3>1. ans.addr \in Nat /\ ans.word \in Nat /\ 1 \in Nat
      BY <1>5, <1>10 DEF Functions, Reads
    <3>2. w \in Seq(Byte) /\ Len(w) = 2
      BY <3>1, WordOfType
    <3> HIDE DEF w
    <3>3. Len(w) >= 2 * 1
      BY <3>2
    <3> QED
      BY <1>3, <3>1, <3>2, <3>3, SizesNat, RegsStored
  <2> HIDE DEF r
  <2>3. [copy EXCEPT !.holds = r] \in Memories
    BY <2>2, HoldsType
  <2>4. h.mem = copy \/ h.mem = [copy EXCEPT !.holds = r]
    BY <2>1 DEF eMBMasterFuncWriteHoldingRegister, Failed, Copied, r
  <2> QED
    BY <2>3, <2>4
<1>11. CASE ans.fc = "WriteCoils"
  <2> DEFINE c == BitsWritten(copy.coils, ans.addr, ans.word, buf.data)
  <2>1. h = eMBMasterFuncWriteMultipleCoils(copy, buf, ans, bc)
    BY <1>11 DEF MasterExecute
  <2>2. ByteCount(ans.word) = ByteCountSent(buf) => c \in Bits(NCoils)
    <3>1. ans.addr \in Nat /\ ans.word \in Nat
      BY <1>5, <1>11 DEF Functions, Reads
    <3> QED
      BY <1>1, <1>2, <1>3, <3>1, SizesNat, BitsStored
  <2> HIDE DEF c
  <2>3. c \in Bits(NCoils) => [copy EXCEPT !.coils = c] \in Memories
    BY CoilsType
  <2>4. \/ h.mem = copy
        \/ /\ h.mem = [copy EXCEPT !.coils = c]
           /\ ByteCount(ans.word) = ByteCountSent(buf)
    BY <2>1 DEF eMBMasterFuncWriteMultipleCoils, Failed, Copied, c
  <2> QED
    BY <2>2, <2>3, <2>4
<1>12. CASE ans.fc = "WriteHoldings"
  <2> DEFINE r == RegsWritten(copy.holds, buf.addr, buf.word, buf.data)
  <2>1. h = eMBMasterFuncWriteMultipleHoldingRegister(copy, buf, ans, bc)
    BY <1>12 DEF MasterExecute
  <2>2. ByteCountSent(buf) = 2 * buf.word => r \in Regs(NHoldings)
    BY <1>1, <1>2, <1>3, SizesNat, RegsStored
  <2> HIDE DEF r
  <2>3. r \in Regs(NHoldings) => [copy EXCEPT !.holds = r] \in Memories
    BY HoldsType
  <2>4. \/ h.mem = copy
        \/ /\ h.mem = [copy EXCEPT !.holds = r]
           /\ ByteCountSent(buf) = 2 * buf.word
    BY <2>1 DEF eMBMasterFuncWriteMultipleHoldingRegister, Failed, Copied, r
  <2> QED
    BY <2>2, <2>3, <2>4
<1>13. CASE bc = FALSE /\ ans.fc \in Reads
  <2>1. ans.data \in Seq(Byte) /\ Len(ans.data) = ans.bytes
    BY <1>4, <1>13
  <2>2. CASE ans.fc = "ReadCoils"
    <3> DEFINE c == BitsWritten(copy.coils, buf.addr, buf.word, ans.data)
               new == [copy EXCEPT !.coils = c]
    <3>1. h = Store(copy, buf, ans, ByteCount(buf.word), NCoils, new)
      BY <1>13, <2>2 DEF MasterExecute, eMBMasterFuncReadCoils
    <3>2. ans.bytes = ByteCount(buf.word) => c \in Bits(NCoils)
      <4> SUFFICES ASSUME ans.bytes = ByteCount(buf.word)
                   PROVE  c \in Bits(NCoils)
        OBVIOUS
      <4>1. /\ copy.coils \in Bits(NCoils)
            /\ buf.addr \in Nat /\ buf.word \in Nat /\ NCoils \in Nat
        BY <1>1, <1>3, SizesNat
      <4>2. Len(ans.data) >= ByteCount(buf.word)
        BY <1>1, <2>1, ByteCountNat
      <4> QED
        BY <2>1, <4>1, <4>2, BitsStored
    <3> HIDE DEF c
    <3>3. ans.bytes = ByteCount(buf.word) => new \in Memories
      BY <3>2, CoilsType
    <3> HIDE DEF new, h
    <3>4. h.mem \in Memories
      BY <3>1, <3>3, StoreType
    <3> QED
      BY <3>4 DEF h
  <2>3. CASE ans.fc = "ReadDiscretes"
    <3> DEFINE c == BitsWritten(copy.discs, buf.addr, buf.word, ans.data)
               new == [copy EXCEPT !.discs = c]
    <3>1. h = Store(copy, buf, ans, ByteCount(buf.word), NDiscretes, new)
      BY <1>13, <2>3 DEF MasterExecute, eMBMasterFuncReadDiscreteInputs
    <3>2. ans.bytes = ByteCount(buf.word) => c \in Bits(NDiscretes)
      <4> SUFFICES ASSUME ans.bytes = ByteCount(buf.word)
                   PROVE  c \in Bits(NDiscretes)
        OBVIOUS
      <4>1. /\ copy.discs \in Bits(NDiscretes)
            /\ buf.addr \in Nat /\ buf.word \in Nat /\ NDiscretes \in Nat
        BY <1>1, <1>3, SizesNat
      <4>2. Len(ans.data) >= ByteCount(buf.word)
        BY <1>1, <2>1, ByteCountNat
      <4> QED
        BY <2>1, <4>1, <4>2, BitsStored
    <3> HIDE DEF c
    <3>3. ans.bytes = ByteCount(buf.word) => new \in Memories
      BY <3>2, DiscsType
    <3> HIDE DEF new, h
    <3>4. h.mem \in Memories
      BY <3>1, <3>3, StoreType
    <3> QED
      BY <3>4 DEF h
  <2>4. CASE ans.fc = "ReadInputs"
    <3> DEFINE r == RegsWritten(copy.inputs, buf.addr, buf.word, ans.data)
               new == [copy EXCEPT !.inputs = r]
    <3>1. h = Store(copy, buf, ans, 2 * buf.word, NInputs, new)
      BY <1>13, <2>4 DEF MasterExecute, eMBMasterFuncReadInputRegister
    <3>2. ans.bytes = 2 * buf.word => r \in Regs(NInputs)
      <4> SUFFICES ASSUME ans.bytes = 2 * buf.word PROVE r \in Regs(NInputs)
        OBVIOUS
      <4>1. /\ copy.inputs \in Regs(NInputs)
            /\ buf.addr \in Nat /\ buf.word \in Nat /\ NInputs \in Nat
        BY <1>1, <1>3, SizesNat
      <4>2. Len(ans.data) >= 2 * buf.word
        <5>1. Len(ans.data) = 2 * buf.word
          BY <2>1
        <5>2. 2 * buf.word \in Nat
          BY <4>1
        <5> QED
          BY ONLY <5>1, <5>2
      <4> QED
        BY <2>1, <4>1, <4>2, RegsStored
    <3> HIDE DEF r
    <3>3. ans.bytes = 2 * buf.word => new \in Memories
      BY <3>2, InputsType
    <3> HIDE DEF new, h
    <3>4. h.mem \in Memories
      BY <3>1, <3>3, StoreType
    <3> QED
      BY <3>4 DEF h
  <2>5. CASE ans.fc = "ReadHoldings"
    <3> DEFINE r == RegsWritten(copy.holds, buf.addr, buf.word, ans.data)
               new == [copy EXCEPT !.holds = r]
    <3>1. h = Store(copy, buf, ans, 2 * buf.word, NHoldings, new)
      BY <1>13, <2>5 DEF MasterExecute, eMBMasterFuncReadHoldingRegister
    <3>2. ans.bytes = 2 * buf.word => r \in Regs(NHoldings)
      <4> SUFFICES ASSUME ans.bytes = 2 * buf.word PROVE r \in Regs(NHoldings)
        OBVIOUS
      <4>1. /\ copy.holds \in Regs(NHoldings)
            /\ buf.addr \in Nat /\ buf.word \in Nat /\ NHoldings \in Nat
        BY <1>1, <1>3, SizesNat
      <4>2. Len(ans.data) >= 2 * buf.word
        <5>1. Len(ans.data) = 2 * buf.word
          BY <2>1
        <5>2. 2 * buf.word \in Nat
          BY <4>1
        <5> QED
          BY ONLY <5>1, <5>2
      <4> QED
        BY <2>1, <4>1, <4>2, RegsStored
    <3> HIDE DEF r
    <3>3. ans.bytes = 2 * buf.word => new \in Memories
      BY <3>2, HoldsType
    <3> HIDE DEF new, h
    <3>4. h.mem \in Memories
      BY <3>1, <3>3, StoreType
    <3> QED
      BY <3>4 DEF h
  <2>6. CASE ans.fc = "ReadWriteHoldings"
    <3> DEFINE r == RegsWritten(copy.holds, buf.waddr, buf.wcnt, buf.data)
               mid == [copy EXCEPT !.holds = r]
               s == RegsWritten(mid.holds, buf.addr, buf.word, ans.data)
               new == [mid EXCEPT !.holds = s]
    <3>1. h = eMBMasterFuncReadWriteMultipleHoldingRegister(copy, buf, ans)
      BY <1>13, <2>6 DEF MasterExecute
    <3>2. r \in Regs(NHoldings)
      BY <1>1, <1>3, <1>13, <2>6, SizesNat, RegsStored
    <3> HIDE DEF r
    <3>3. mid \in Memories
      BY <3>2, HoldsType
    <3> HIDE DEF mid
    <3>4. mid.holds \in Regs(NHoldings)
      BY <3>3, MemoriesIs
    <3>5. ans.bytes = 2 * buf.word => s \in Regs(NHoldings)
      BY <1>1, <2>1, <3>4, SizesNat, RegsStored
    <3> HIDE DEF s
    <3>6. ans.bytes = 2 * buf.word => new \in Memories
      BY <3>3, <3>5, HoldsType
    <3> HIDE DEF new
    <3>7. \/ h.mem = copy \/ h.mem = mid
          \/ h.mem = new /\ ans.bytes = 2 * buf.word
      BY <3>1 DEF eMBMasterFuncReadWriteMultipleHoldingRegister, Failed,
                  Copied, new, s, mid, r
    <3> QED
      BY <3>3, <3>6, <3>7
  <2> QED
    BY <1>13, <2>2, <2>3, <2>4, <2>5, <2>6 DEF Reads
<1> QED
  BY <1>6, <1>7, <1>8, <1>9, <1>10, <1>11, <1>12, <1>13 DEF Functions, Reads

-----------------------------------------------------------------------------
(***************************************************************************)
(* What is under way: the requests, the answers, and what became of the    *)
(* last request.                                                           *)
(***************************************************************************)

(* The condition under which xMBUtilSetBits keeps to the bits it is told:  *)
(* the application of the master, and whoever else asks, leave the bits    *)
(* beyond the last coil zero.                                              *)
PaddedFrame(q) ==
  (q.fc = "WriteCoils" /\ q.bytes = ByteCount(q.word)) => Padded(q.data, q.word)

PaddedRequests ==
  /\ \A q \in Requests : q.fc = "WriteCoils" => Padded(q.data, q.word)
  /\ \A q \in ForeignRequests : PaddedFrame(q)

Replies == [n : Nat \ {0}, pdu : Answers]
Questions == [n : Nat, broadcast : BOOLEAN, pdu : Carrying]

MemoriesInv ==
  /\ memory \in Memories
  /\ copies \in [1 .. TotalSlaveNum -> Memories]
  /\ served \in [n : Nat, memory : Memories]

CountsInv ==
  /\ rounds \in Nat /\ asked \in Nat /\ Len(toSlave) \in Nat
  /\ rounds <= MaxRounds /\ asked <= rounds
  /\ Len(toSlave) + Len(toMaster) <= rounds
  /\ served.n <= asked /\ (waiting => asked # 0)

FlagsInv ==
  /\ dest \in 0 .. TotalSlaveNum /\ waiting \in BOOLEAN /\ result \in Results
  /\ toMaster \in Seq(Replies)

(* The send buffer holds the last request, and what is left of earlier     *)
(* ones.                                                                   *)
SentInv ==
  /\ sndBuf \in Carrying
  /\ sndBuf.fc = "WriteCoils" => /\ sndBuf.bytes = ByteCount(sndBuf.word)
                                 /\ ~sndBuf.rw
  /\ sndBuf.fc = "WriteHoldings" => /\ sndBuf.bytes = 2 * sndBuf.word
                                    /\ ~sndBuf.rw
  /\ sndBuf.fc = "ReadWriteHoldings" => /\ sndBuf.bytes = 2 * sndBuf.wcnt
                                        /\ sndBuf.len >= 10
  /\ PaddedRequests => PaddedFrame(sndBuf)

(* A request under way. *)
QuestionInv(m) ==
  /\ m \in Questions /\ m.n <= asked
  /\ (m.n # 0 /\ m.n = asked) => m.pdu = sndBuf
  /\ (m.n # 0 /\ m.pdu.fc = "ReadWriteHoldings") =>
       sndBuf.fc = "ReadWriteHoldings"
  /\ PaddedRequests => PaddedFrame(m.pdu)

QuestionsInv == toSlave = <<>> \/ \E m : toSlave = <<m>> /\ QuestionInv(m)

(* The slave carries the last request out, with answer a.                  *)
CarriedOut(a) ==
  \E old \in Memories :
    LET h == Handle(sndBuf.fc, old, sndBuf) IN
    h.ex = "NONE" /\ a = h.ans /\ served.memory = h.mem

(* An answer under way.  No answer overtakes a request that came later.    *)
ReplyInv(m) ==
  /\ m.n <= asked
  /\ m.pdu.fc = "ReadWriteHoldings" => sndBuf.fc = "ReadWriteHoldings"
  /\ (m.n = asked /\ m.pdu.fc # "exception") =>
       served.n = asked /\ CarriedOut(m.pdu)
  /\ (toSlave # <<>> /\ Head(toSlave).n # 0) => m.n < Head(toSlave).n

RepliesInv == \A m \in Range(toMaster) : ReplyInv(m)

ServedInv ==
  /\ (served.n = asked /\ asked # 0) => \E a : CarriedOut(a)
  /\ (toSlave # <<>> /\ Head(toSlave).n # 0) => served.n < Head(toSlave).n

ExchangeInv ==
  /\ TableInv /\ MemoriesInv /\ CountsInv /\ FlagsInv
  /\ SentInv /\ QuestionsInv /\ RepliesInv /\ ServedInv

LEMMA BlankType == Blank \in Memories
<1>1. WordOf(0) \in Word
  BY WordOfType
<1> QED
  BY <1>1 DEF Blank, Memories, Bit

LEMMA NoRequestType == NoRequest \in Carrying
<1>1. NoRequest \in Frames
  BY DEF NoRequest, Frames, Functions
<1>2. NoRequest.data = <<>> /\ NoRequest.bytes = 0
  BY DEF NoRequest
<1> QED
  BY <1>1, <1>2 DEF Carrying

LEMMA ExchangeInit == Init => ExchangeInv
<1> SUFFICES ASSUME Init PROVE ExchangeInv
  OBVIOUS
<1>1. TableInv
  BY TableInit
<1>2. MemoriesInv
  <2>1. memory \in Memories
    BY ExchangeAssumption DEF Init
  <2> QED
    BY <2>1, BlankType DEF Init, MemoriesInv
<1>3. CountsInv
  BY ExchangeAssumption DEF Init, CountsInv
<1>4. FlagsInv
  <2>1. dest \in 0 .. TotalSlaveNum
    BY ExchangeAssumption DEF Init
  <2>2. waiting \in BOOLEAN /\ result \in Results
    BY DEF Init, Results
  <2>3. toMaster \in Seq(Replies)
    BY DEF Init
  <2> QED
    BY <2>1, <2>2, <2>3 DEF FlagsInv
<1>5. SentInv
  <2>1. sndBuf \in Carrying
    BY NoRequestType DEF Init
  <2>2. sndBuf.fc = "ReadCoils"
    BY DEF Init, NoRequest
  <2> QED
    BY <2>1, <2>2 DEF SentInv, PaddedFrame
<1>6. QuestionsInv
  BY DEF Init, QuestionsInv
<1>7. RepliesInv
  BY DEF Init, RepliesInv, Range
<1>8. ServedInv
  BY DEF Init, ServedInv
<1> QED
  BY <1>1, <1>2, <1>3, <1>4, <1>5, <1>6, <1>7, <1>8 DEF ExchangeInv

\* The frame of a request that only has an address and a word leaves the rest
\* of the buffer as it was.
LEMMA ShortType ==
  ASSUME NEW buf \in Carrying, NEW fc \in Functions, NEW addr \in Nat,
         NEW word \in Nat
  PROVE  Short(buf, fc, addr, word) \in Carrying
<1> DEFINE new == Short(buf, fc, addr, word)
<1>1. /\ new \in Frames
      /\ new.data = buf.data /\ new.bytes = buf.bytes
  BY DEF Short, Carrying, Frames
<1> HIDE DEF new
<1>2. new \in Carrying
  BY <1>1 DEF Carrying
<1> QED
  BY <1>2 DEF new

LEMMA MultipleType ==
  ASSUME NEW fc \in Functions, NEW addr \in Nat, NEW n \in Nat,
         NEW bytes \in Nat, NEW data \in Seq(Byte), Len(data) >= bytes
  PROVE  Multiple(fc, addr, n, bytes, data) \in Carrying
<1> DEFINE new == Multiple(fc, addr, n, bytes, data)
           b1 == [NoRequest EXCEPT !.fc = fc, !.addr = addr, !.word = n]
           b2 == [b1 EXCEPT !.bytes = bytes, !.data = data]
           len == 6 + bytes
<1>1. NoRequest \in Frames
  BY NoRequestType DEF Carrying
<1>2. new.bytes = bytes /\ new.data = data
  BY DEF Multiple, NoRequest
<1>3. new = [b2 EXCEPT !.len = len]
  BY DEF Multiple
<1>4. b1 \in Frames
  BY <1>1 DEF Frames
<1> HIDE DEF b1
<1>5. b2 \in Frames
  BY <1>4 DEF Frames
<1>6. len \in Nat
  OBVIOUS
<1> HIDE DEF b2, len
<1>7. [b2 EXCEPT !.len = len] \in Frames
  BY <1>5, <1>6 DEF Frames
<1> HIDE DEF new
<1>8. new \in Carrying
  BY <1>2, <1>3, <1>7 DEF Carrying
<1> QED
  BY <1>8 DEF new

\* What a call builds.
LEMMA BuiltIs ==
  ASSUME SentInv, NEW q \in Requests, NEW b, b = Built(q)
  PROVE  /\ b \in Carrying
         /\ b.fc = "WriteCoils" => b.bytes = ByteCount(b.word) /\ ~b.rw
         /\ b.fc = "WriteHoldings" => b.bytes = 2 * b.word /\ ~b.rw
         /\ b.fc = "ReadWriteHoldings" => b.bytes = 2 * b.wcnt /\ b.len >= 10
         /\ PaddedRequests => PaddedFrame(b)
<1>1. /\ q.fc \in Functions /\ q.addr \in Nat /\ q.word \in Nat
      /\ q.waddr \in Nat /\ q.wcnt \in Nat /\ q.data \in Seq(Byte)
      /\ sndBuf \in Carrying
  BY CallsAssumption DEF Frames, SentInv
<1>0. q.fc \in Functions /\ q.addr \in Nat /\ q.word \in Nat
      /\ sndBuf \in Carrying
  BY <1>1
<1>2. CASE q.fc \in {"ReadCoils", "ReadDiscretes", "ReadInputs",
                     "ReadHoldings", "WriteCoil", "WriteHolding"}
  <2>1. b = Short(sndBuf, q.fc, q.addr, q.word)
    BY <1>2 DEF Built, eMBMasterReqRead, eMBMasterReqWriteCoil,
                eMBMasterReqWriteHoldingRegister
  <2>2. b.fc = q.fc /\ b.data = sndBuf.data /\ b.bytes = sndBuf.bytes
    BY <1>1, <2>1 DEF Short, Carrying, Frames
  <2>3. b \in Carrying
    BY <1>0, <2>1, ShortType
  <2> QED
    BY <1>2, <2>2, <2>3 DEF PaddedFrame
<1>3. CASE q.fc = "WriteCoils"
  <2>1. b = Multiple("WriteCoils", q.addr, q.word, ByteCount(q.word), q.data)
    BY <1>3 DEF Built, eMBMasterReqWriteMultipleCoils
  <2>2. Len(q.data) >= ByteCount(q.word) /\ ByteCount(q.word) \in Nat
    BY <1>1, <1>3, CallsAssumption, ByteCountNat
  <2>3. /\ b \in Carrying /\ b.fc = "WriteCoils" /\ b.data = q.data
        /\ b.bytes = ByteCount(q.word) /\ b.word = q.word /\ b.rw = FALSE
    <3> DEFINE n == ByteCount(q.word)
    <3> HIDE DEF n
    <3>1. b = Multiple("WriteCoils", q.addr, q.word, n, q.data)
      BY <2>1 DEF n
    <3>2. n \in Nat /\ Len(q.data) >= n
      BY <2>2 DEF n
    <3>3. /\ b.fc = "WriteCoils" /\ b.data = q.data
          /\ b.bytes = n /\ b.word = q.word /\ b.rw = FALSE
      BY <3>1 DEF Multiple, NoRequest
    <3>4. "WriteCoils" \in Functions /\ q.data \in Seq(Byte)
      BY <1>1 DEF Functions
    <3>5. b \in Carrying
      BY <1>0, <3>1, <3>2, <3>4, MultipleType
    <3> QED
      BY <3>3, <3>5 DEF n
  <2>4. PaddedRequests => PaddedFrame(b)
    BY <1>3, <2>3 DEF PaddedRequests, PaddedFrame
  <2> QED
    BY <2>3, <2>4
<1>4. CASE q.fc = "WriteHoldings"
  <2>1. b = Multiple("WriteHoldings", q.addr, q.word, 2 * q.word, q.data)
    BY <1>4 DEF Built, eMBMasterReqWriteMultipleHoldingRegister
  <2>2. Len(q.data) >= 2 * q.word /\ 2 * q.word \in Nat
    BY <1>1, <1>4, CallsAssumption
  <2>3. /\ b \in Carrying /\ b.fc = "WriteHoldings"
        /\ b.bytes = 2 * b.word /\ b.rw = FALSE
    <3>1. /\ b.fc = "WriteHoldings" /\ b.data = q.data
          /\ b.bytes = 2 * q.word /\ b.word = q.word /\ b.rw = FALSE
      BY <2>1 DEF Multiple, NoRequest
    <3>2. "WriteHoldings" \in Functions /\ q.data \in Seq(Byte)
      BY <1>1 DEF Functions
    <3>3. b \in Carrying
      BY <1>0, <2>1, <2>2, <3>2, MultipleType
    <3> QED
      BY <3>1, <3>3
  <2> QED
    BY <2>3 DEF PaddedFrame
<1>5. CASE q.fc = "ReadWriteHoldings"
  <2>1. b = eMBMasterReqReadWriteMultipleHoldingRegister(
              q.addr, q.word, q.waddr, q.wcnt, q.data)
    BY <1>5 DEF Built
  <2>2. Len(q.data) >= 2 * q.wcnt
    BY <1>5, CallsAssumption
  <2>3. /\ b.fc = "ReadWriteHoldings" /\ b.wcnt = q.wcnt /\ b.data = q.data
        /\ b.bytes = 2 * q.wcnt /\ b.len = 10 + 2 * q.wcnt
    BY <2>1 DEF eMBMasterReqReadWriteMultipleHoldingRegister
  <2>4. b \in Frames
    BY <1>1, <2>1 DEF eMBMasterReqReadWriteMultipleHoldingRegister, Frames,
                      Functions
  <2>5. b \in Carrying /\ b.len >= 10
    BY <1>1, <2>2, <2>3, <2>4 DEF Carrying
  <2> QED
    BY <2>3, <2>5 DEF PaddedFrame
<1> QED
  BY <1>1, <1>2, <1>3, <1>4, <1>5 DEF Functions

\* A handler answers with its own code, or refuses with an exception.
LEMMA AnswerIs ==
  ASSUME NEW q, q.fc \in Functions, NEW mem
  PROVE  LET h == Handle(q.fc, mem, q) IN
         \/ h.ex = "NONE" /\ h.ans.fc = q.fc
         \/ h.ex # "NONE" /\ h.ans.fc = "exception"
<1> DEFINE h == Handle(q.fc, mem, q)
<1> USE DEF Refused, BadAddress, Done, ReadAnswer, Read
<1>1. CASE q.fc = "ReadCoils"
  <2>1. h = eMBFuncReadCoils(mem, q)
    BY <1>1 DEF Handle
  <2> QED
    BY <2>1 DEF eMBFuncReadCoils
<1>2. CASE q.fc = "ReadDiscretes"
  <2>1. h = eMBFuncReadDiscreteInputs(mem, q)
    BY <1>2 DEF Handle
  <2> QED
    BY <2>1 DEF eMBFuncReadDiscreteInputs
<1>3. CASE q.fc = "ReadInputs"
  <2>1. h = eMBFuncReadInputRegister(mem, q)
    BY <1>3 DEF Handle
  <2> QED
    BY <2>1 DEF eMBFuncReadInputRegister
<1>4. CASE q.fc = "ReadHoldings"
  <2>1. h = eMBFuncReadHoldingRegister(mem, q)
    BY <1>4 DEF Handle
  <2> QED
    BY <2>1 DEF eMBFuncReadHoldingRegister
<1>5. CASE q.fc = "WriteCoil"
  <2>1. h = eMBFuncWriteCoil(mem, q)
    BY <1>5 DEF Handle
  <2> QED
    BY <2>1 DEF eMBFuncWriteCoil
<1>6. CASE q.fc = "WriteCoils"
  <2>1. h = eMBFuncWriteMultipleCoils(mem, q)
    BY <1>6 DEF Handle
  <2> QED
    BY <2>1 DEF eMBFuncWriteMultipleCoils
<1>7. CASE q.fc = "WriteHolding"
  <2>1. h = eMBFuncWriteHoldingRegister(mem, q)
    BY <1>7 DEF Handle
  <2> QED
    BY <2>1 DEF eMBFuncWriteHoldingRegister
<1>8. CASE q.fc = "WriteHoldings"
  <2>1. h = eMBFuncWriteMultipleHoldingRegister(mem, q)
    BY <1>8 DEF Handle
  <2> QED
    BY <2>1 DEF eMBFuncWriteMultipleHoldingRegister
<1>9. CASE q.fc = "ReadWriteHoldings"
  <2>1. h = eMBFuncReadWriteMultipleHoldingRegister(mem, q)
    BY <1>9 DEF Handle
  <2> QED
    BY <2>1 DEF eMBFuncReadWriteMultipleHoldingRegister
<1> QED
  BY <1>1, <1>2, <1>3, <1>4, <1>5, <1>6, <1>7, <1>8, <1>9 DEF Functions

\* What the slave makes of a request under way.
LEMMA ServeIs ==
  ASSUME TableInv, NEW q \in Carrying, NEW mem \in Memories, NEW h,
         h = Execute(xFuncHandlers, mem, q)
  PROVE  /\ h.mem \in Memories /\ h.ans \in Answers
         /\ \/ h.ex = "NONE" /\ h.ans.fc = q.fc /\ h = Handle(q.fc, mem, q)
            \/ h.ex # "NONE" /\ h.ans.fc = "exception"
<1>1. q.fc \in Functions
  BY DEF Carrying, Frames
<1>2. CASE Served(xFuncHandlers, q.fc)
  <2>1. h = Handle(q.fc, mem, q)
    BY <1>2, ExecutedBy
  <2>2. h.mem \in Memories /\ h.ans \in Answers
    BY <2>1, HandlerType
  <2> QED
    BY <1>1, <2>1, <2>2, AnswerIs
<1>3. CASE ~Served(xFuncHandlers, q.fc)
  <2>1. h = Refused(mem, "ILLEGAL_FUNCTION")
    BY <1>3 DEF Execute
  <2>2. h.ex # "NONE" /\ h.ans.fc = "exception"
    BY <2>1 DEF Refused
  <2> QED
    BY <2>1, <2>2, RefusedType
<1> QED
  BY <1>2, <1>3

LEMMA RangeIn ==
  ASSUME NEW S, NEW s \in Seq(S)
  PROVE  /\ Range(s) \subseteq S
         /\ s # <<>> => /\ Head(s) \in Range(s) /\ Tail(s) \in Seq(S)
                        /\ Range(Tail(s)) \subseteq Range(s)
                        /\ Len(Tail(s)) = Len(s) - 1
         /\ \A x \in S : /\ Append(s, x) \in Seq(S)
                         /\ Range(Append(s, x)) \subseteq Range(s) \cup {x}
                         /\ Len(Append(s, x)) = Len(s) + 1
<1>1. Range(s) \subseteq S
  BY DEF Range
<1>2. ASSUME s # <<>>
      PROVE  /\ Head(s) \in Range(s) /\ Tail(s) \in Seq(S)
             /\ Range(Tail(s)) \subseteq Range(s)
             /\ Len(Tail(s)) = Len(s) - 1
  BY <1>2 DEF Range
<1>3. ASSUME NEW x \in S
      PROVE  /\ Append(s, x) \in Seq(S)
             /\ Range(Append(s, x)) \subseteq Range(s) \cup {x}
             /\ Len(Append(s, x)) = Len(s) + 1
  BY DEF Range
<1> QED
  BY <1>1, <1>2, <1>3

\* A request does not disturb what the slave, or the master, holds.
LEMMA AskStep ==
  ASSUME ExchangeInv, NEW d \in Dests, NEW q \in Requests, Ask(d, q)
  PROVE  ExchangeInv'
<1> DEFINE b == Built(q)
<1>1. /\ b \in Carrying
      /\ b.fc = "WriteCoils" => b.bytes = ByteCount(b.word) /\ ~b.rw
      /\ b.fc = "WriteHoldings" => b.bytes = 2 * b.word /\ ~b.rw
      /\ b.fc = "ReadWriteHoldings" => b.bytes = 2 * b.wcnt /\ b.len >= 10
      /\ PaddedRequests => PaddedFrame(b)
  BY BuiltIs DEF ExchangeInv
<1>2. sndBuf' = b
  BY DEF Ask
<1> HIDE DEF b
<1>3. /\ asked \in Nat /\ rounds \in Nat /\ rounds < MaxRounds
      /\ asked' = asked + 1 /\ rounds' = rounds + 1 /\ MaxRounds \in Nat
  BY ExchangeAssumption DEF ExchangeInv, CountsInv, Ask
<1>4. \/ toSlave' = toSlave
      \/ toSlave = <<>> /\
         toSlave' = <<[n |-> asked + 1, broadcast |-> d = 0, pdu |-> b]>>
  BY DEF Ask, b
<1>5. TableInv'
  BY TableStep DEF ExchangeInv, Next
<1>6. MemoriesInv'
  BY DEF ExchangeInv, MemoriesInv, Ask
<1>7. CountsInv'
  <2>1. Len(toMaster) \in Nat
    BY DEF ExchangeInv, FlagsInv
  <2>2. \/ Len(toSlave)' = Len(toSlave)
        \/ Len(toSlave) = 0 /\ Len(toSlave)' = 1
    BY <1>4
  <2>3. toMaster' = toMaster /\ served' = served
    BY DEF Ask
  <2>4. /\ Len(toSlave) + Len(toMaster) <= rounds /\ asked <= rounds
        /\ served.n <= asked /\ served.n \in Nat
    BY DEF ExchangeInv, CountsInv, MemoriesInv
  <2>5. served'.n <= asked'
    BY <1>3, <2>3, <2>4
  <2>6. /\ rounds' \in Nat /\ asked' \in Nat /\ Len(toSlave)' \in Nat
        /\ rounds' <= MaxRounds /\ asked' <= rounds' /\ asked' # 0
    BY <1>3, <2>2, <2>4
  <2>7. Len(toSlave)' + Len(toMaster)' <= rounds'
    <3>1. Len(toSlave) \in Nat
      BY DEF ExchangeInv, CountsInv
    <3>2. Len(toMaster)' = Len(toMaster)
      BY <2>3
    <3>3. Len(toSlave)' <= Len(toSlave) + 1 /\ Len(toSlave)' \in Nat
      BY <2>2, <3>1
    <3>4. Len(toSlave) + Len(toMaster) <= rounds
      BY <2>4
    <3> QED
      BY <1>3, <2>1, <3>1, <3>2, <3>3, <3>4
  <2> QED
    BY <2>5, <2>6, <2>7 DEF CountsInv
<1>8. FlagsInv'
  <2>1. dest' \in 0 .. TotalSlaveNum
    BY ExchangeAssumption DEF Ask
  <2> QED
    BY <2>1 DEF ExchangeInv, FlagsInv, Ask, Results
<1>9. SentInv'
  BY <1>1, <1>2 DEF SentInv
<1>10. QuestionsInv'
  <2>1. CASE toSlave' = <<>>
    BY <2>1 DEF QuestionsInv
  <2>2. CASE toSlave' = toSlave /\ toSlave # <<>>
    <3>1. PICK m : toSlave = <<m>> /\ QuestionInv(m)
      BY <2>2 DEF ExchangeInv, QuestionsInv
    <3>2. m.pdu.fc # "ReadWriteHoldings"
      <4>1. m \in Range(toSlave)
        BY <3>1 DEF Range
      <4> QED
        BY <4>1 DEF Ask
    <3>3. m \in Questions /\ m.n <= asked' /\ m.n # asked'
      BY <1>3, <3>1 DEF QuestionInv, Questions
    <3>4. PaddedRequests => PaddedFrame(m.pdu)
      BY <3>1 DEF QuestionInv
    <3>5. QuestionInv(m)'
      BY <3>2, <3>3, <3>4 DEF QuestionInv
    <3> QED
      BY <2>2, <3>1, <3>5 DEF QuestionsInv
  <2>3. CASE toSlave' = <<[n |-> asked + 1, broadcast |-> d = 0, pdu |-> b]>>
    <3> DEFINE m == [n |-> asked + 1, broadcast |-> d = 0, pdu |-> b]
    <3>1. m \in Questions
      BY <1>1, <1>3 DEF Questions
    <3>2. m.n = asked' /\ m.pdu = sndBuf'
      BY <1>2, <1>3
    <3>3. m.n <= asked'
      BY <1>3
    <3>4. PICK k : k = m
      OBVIOUS
    <3>5. /\ k \in Questions /\ k.n <= asked' /\ k.pdu = sndBuf'
          /\ PaddedRequests => PaddedFrame(k.pdu)
      BY <1>1, <1>2, <3>1, <3>2, <3>3, <3>4
    <3>6. QuestionInv(k)'
      BY <3>5 DEF QuestionInv
    <3> HIDE DEF m
    <3>7. toSlave' = <<k>>
      BY <2>3, <3>4 DEF m
    <3> QED
      BY <3>6, <3>7 DEF QuestionsInv
  <2> QED
    BY <1>4, <2>1, <2>2, <2>3
<1>11. RepliesInv'
  <2> SUFFICES ASSUME NEW m \in Range(toMaster)' PROVE ReplyInv(m)'
    BY DEF RepliesInv
  <2>1. m \in Range(toMaster)
    BY DEF Ask
  <2>2. ReplyInv(m) /\ m \in Replies
    BY <2>1, RangeIn DEF ExchangeInv, RepliesInv, FlagsInv
  <2>3. m.pdu.fc # "ReadWriteHoldings"
    BY <2>1 DEF Ask
  <2>4. m.n \in Nat /\ m.n <= asked
    BY <2>2 DEF ReplyInv, Replies
  <2>5. (toSlave # <<>> /\ Head(toSlave).n # 0) => m.n < Head(toSlave).n
    BY <2>2 DEF ReplyInv
  <2>6. (toSlave' # <<>> /\ Head(toSlave').n # 0) => m.n < Head(toSlave').n
    BY <1>3, <1>4, <2>4, <2>5
  <2>7. m.n <= asked' /\ m.n # asked'
    BY <1>3, <2>4
  <2> QED
    BY <2>3, <2>6, <2>7 DEF ReplyInv
<1>12. ServedInv'
  <2>1. served' = served /\ served.n \in Nat /\ served.n <= asked
    BY DEF Ask, ExchangeInv, CountsInv, MemoriesInv
  <2>2. (toSlave # <<>> /\ Head(toSlave).n # 0) => served.n < Head(toSlave).n
    BY DEF ExchangeInv, ServedInv
  <2>3. (toSlave' # <<>> /\ Head(toSlave').n # 0) =>
           served.n < Head(toSlave').n
    BY <1>3, <1>4, <2>1, <2>2
  <2> QED
    BY <1>3, <2>1, <2>3 DEF ServedInv
<1> QED
  BY <1>5, <1>6, <1>7, <1>8, <1>9, <1>10, <1>11, <1>12 DEF ExchangeInv

\* What is left alone by most steps.
LEMMA QuestionsKept ==
  ASSUME QuestionsInv, UNCHANGED <<toSlave, asked, sndBuf>>
  PROVE  QuestionsInv'
BY DEF QuestionsInv, QuestionInv

LEMMA RepliesKept ==
  ASSUME RepliesInv, UNCHANGED <<asked, sndBuf, served>>,
         toSlave' \in {toSlave, <<>>} \/ Head(toSlave').n = 0,
         Range(toMaster)' \subseteq Range(toMaster)
  PROVE  RepliesInv'
<1> SUFFICES ASSUME NEW m \in Range(toMaster)' PROVE ReplyInv(m)'
  BY DEF RepliesInv
<1>1. ReplyInv(m)
  BY DEF RepliesInv
<1> QED
  BY <1>1 DEF ReplyInv, CarriedOut

LEMMA ServedKept ==
  ASSUME ServedInv, UNCHANGED <<asked, sndBuf, served>>,
         toSlave' \in {toSlave, <<>>} \/ Head(toSlave').n = 0
  PROVE  ServedInv'
BY DEF ServedInv, CarriedOut

LEMMA ElsewhereStep ==
  ASSUME ExchangeInv, NEW q \in ForeignRequests, AskElsewhere(q)
  PROVE  ExchangeInv'
<1> DEFINE m == [n |-> 0, broadcast |-> FALSE, pdu |-> q]
<1>1. toSlave = <<>> /\ toSlave' = <<m>>
  BY DEF AskElsewhere
<1>2. q \in Carrying
  BY CallsAssumption DEF Carrying
<1>3. TableInv'
  BY TableStep DEF ExchangeInv, Next
<1>4. MemoriesInv'
  BY DEF ExchangeInv, MemoriesInv, AskElsewhere
<1>5. CountsInv'
  <2>1. Len(toMaster) \in Nat /\ Len(toMaster)' = Len(toMaster)
    BY DEF ExchangeInv, FlagsInv, AskElsewhere
  <2>2. Len(toSlave) = 0 /\ Len(toSlave)' = 1
    BY <1>1
  <2>3. /\ rounds \in Nat /\ rounds < MaxRounds /\ rounds' = rounds + 1
        /\ MaxRounds \in Nat
    BY ExchangeAssumption DEF AskElsewhere, ExchangeInv, CountsInv
  <2>4. UNCHANGED <<asked, served, waiting>>
    BY DEF AskElsewhere
  <2>5. /\ rounds' \in Nat /\ rounds' <= MaxRounds /\ rounds <= rounds'
        /\ Len(toSlave)' + Len(toMaster)' <= rounds'
    BY <2>1, <2>2, <2>3 DEF ExchangeInv, CountsInv
  <2> QED
    BY <2>2, <2>3, <2>4, <2>5 DEF ExchangeInv, CountsInv
<1>6. FlagsInv'
  BY DEF ExchangeInv, FlagsInv, AskElsewhere
<1>7. SentInv'
  BY DEF ExchangeInv, SentInv, AskElsewhere
<1>8. QuestionsInv'
  <2>1. PICK k : k = m
    OBVIOUS
  <2>2. k \in Questions /\ k.n = 0 /\ k.pdu = q
    BY <1>2, <2>1 DEF Questions
  <2>3. PaddedRequests => PaddedFrame(k.pdu)
    BY <2>2 DEF PaddedRequests
  <2>4. asked' \in Nat
    BY <1>5 DEF CountsInv
  <2>5. QuestionInv(k)'
    BY <2>2, <2>3, <2>4 DEF QuestionInv
  <2>6. toSlave' = <<k>>
    BY <1>1, <2>1
  <2> QED
    BY <2>5, <2>6 DEF QuestionsInv
<1>9. Head(toSlave').n = 0
  BY <1>1
<1>10. RepliesInv'
  BY <1>9, RepliesKept DEF ExchangeInv, AskElsewhere
<1>11. ServedInv'
  BY <1>9, ServedKept DEF ExchangeInv, AskElsewhere
<1> QED
  BY <1>3, <1>4, <1>5, <1>6, <1>7, <1>8, <1>10, <1>11 DEF ExchangeInv

\* An answer is taken from those under way, or none is.
LEMMA AnswerTaken ==
  ASSUME toMaster \in Seq(Replies),
         \/ toMaster' = toMaster
         \/ toMaster # <<>> /\ toMaster' = Tail(toMaster)
  PROVE  /\ toMaster' \in Seq(Replies) /\ Len(toMaster)' <= Len(toMaster)
         /\ Len(toMaster) \in Nat /\ Len(toMaster)' \in Nat
         /\ Range(toMaster)' \subseteq Range(toMaster)
<1>1. CASE toMaster' = toMaster
  BY <1>1
<1>2. CASE toMaster # <<>> /\ toMaster' = Tail(toMaster)
  <2>1. /\ Tail(toMaster) \in Seq(Replies)
        /\ Range(Tail(toMaster)) \subseteq Range(toMaster)
        /\ Len(Tail(toMaster)) = Len(toMaster) - 1
    BY <1>2, RangeIn
  <2>2. Range(toMaster)' = Range(Tail(toMaster))
    BY <1>2
  <2>3. Len(toMaster)' = Len(Tail(toMaster))
    BY <1>2
  <2>4. Len(toMaster) \in Nat /\ Len(Tail(toMaster)) \in Nat
    BY <2>1
  <2>5. Len(toMaster)' \in Nat /\ Len(toMaster)' <= Len(toMaster)
    BY <2>1, <2>3, <2>4
  <2>6. toMaster' \in Seq(Replies)
    BY <1>2, <2>1
  <2> QED
    BY <2>1, <2>2, <2>4, <2>5, <2>6
<1> QED
  BY <1>1, <1>2

\* The steps that ask nothing and serve nothing: those of the master, and
\* losses.
LEMMA SettledStep ==
  ASSUME ExchangeInv,
         UNCHANGED <<memory, xFuncHandlers, sndBuf, asked, served, removed,
                     rounds>>,
         copies' \in [1 .. TotalSlaveNum -> Memories],
         dest' \in 0 .. TotalSlaveNum, result' \in Results,
         waiting' \in {waiting, FALSE}, toSlave' \in {toSlave, <<>>},
         \/ toMaster' = toMaster
         \/ toMaster # <<>> /\ toMaster' = Tail(toMaster)
  PROVE  ExchangeInv'
<1>1. toMaster \in Seq(Replies)
  BY DEF ExchangeInv, FlagsInv
<1>2. /\ toMaster' \in Seq(Replies) /\ Len(toMaster)' <= Len(toMaster)
      /\ Len(toMaster) \in Nat /\ Len(toMaster)' \in Nat
      /\ Range(toMaster)' \subseteq Range(toMaster)
  BY <1>1, AnswerTaken
<1>3. TableInv'
  BY DEF ExchangeInv, TableInv, OwnHandlers, NoneTwice, AmongFirstNine
<1>4. MemoriesInv'
  BY DEF ExchangeInv, MemoriesInv
<1>5. CountsInv'
  <2>1. Len(toSlave)' \in Nat /\ Len(toSlave)' <= Len(toSlave)
    BY DEF ExchangeInv, CountsInv
  <2>2. /\ rounds \in Nat /\ Len(toSlave) \in Nat
        /\ Len(toSlave) + Len(toMaster) <= rounds
    BY DEF ExchangeInv, CountsInv
  <2>3. Len(toSlave)' + Len(toMaster)' <= rounds
    BY <1>2, <2>1, <2>2
  <2>4. rounds' = rounds /\ asked' = asked /\ served' = served
    OBVIOUS
  <2>5. waiting' => waiting
    BY DEF ExchangeInv, FlagsInv
  <2> QED
    BY <2>1, <2>3, <2>4, <2>5 DEF ExchangeInv, CountsInv
<1>6. FlagsInv'
  <2>1. waiting' \in BOOLEAN
    BY DEF ExchangeInv, FlagsInv
  <2> QED
    BY <1>2, <2>1 DEF FlagsInv
<1>7. SentInv'
  BY DEF ExchangeInv, SentInv
<1>8. QuestionsInv'
  BY QuestionsKept DEF ExchangeInv, QuestionsInv
<1>9. RepliesInv'
  BY <1>2, RepliesKept DEF ExchangeInv
<1>10. ServedInv'
  BY ServedKept DEF ExchangeInv
<1> QED
  BY <1>3, <1>4, <1>5, <1>6, <1>7, <1>8, <1>9, <1>10 DEF ExchangeInv

LEMMA LossStep ==
  ASSUME ExchangeInv, LoseRequest \/ LoseAnswer \/ TimeOut \/ AskRefused
  PROVE  ExchangeInv'
<1>1. /\ UNCHANGED <<memory, copies, xFuncHandlers, sndBuf, dest, asked,
                     served, removed, rounds>>
      /\ waiting' \in {waiting, FALSE}
      /\ result' \in {result, "TIMEDOUT", "ILL_ARG"}
      /\ toSlave' \in {toSlave, <<>>}
  BY DEF LoseRequest, LoseAnswer, TimeOut, AskRefused
<1>2. \/ toMaster' = toMaster
      \/ toMaster # <<>> /\ toMaster' = Tail(toMaster)
  BY DEF LoseRequest, LoseAnswer, TimeOut, AskRefused
<1>3. copies' \in [1 .. TotalSlaveNum -> Memories]
  BY <1>1 DEF ExchangeInv, MemoriesInv
<1>4. dest' \in 0 .. TotalSlaveNum /\ result' \in Results
  BY <1>1 DEF ExchangeInv, FlagsInv, Results
<1> QED
  BY <1>1, <1>2, <1>3, <1>4, SettledStep

LEMMA HandlersStep ==
  ASSUME ExchangeInv, NEW code \in Removable, Remove(code) \/ Register(code)
  PROVE  ExchangeInv'
<1>1. /\ UNCHANGED <<memory, copies, sndBuf, dest, asked, waiting, result,
                     toSlave, toMaster, served>>
      /\ \/ rounds' = rounds
         \/ rounds < MaxRounds /\ rounds' = rounds + 1
  <2>1. CASE Remove(code)
    BY <2>1 DEF Remove
  <2>2. CASE Register(code)
    BY <2>2 DEF Register
  <2> QED
    BY <2>1, <2>2
<1>2. TableInv'
  BY TableStep DEF ExchangeInv, Next
<1>3. MemoriesInv' /\ FlagsInv' /\ SentInv'
  BY <1>1 DEF ExchangeInv, MemoriesInv, FlagsInv, SentInv
<1>4. CountsInv'
  <2>1. rounds' \in Nat /\ rounds' <= MaxRounds /\ rounds <= rounds'
    BY <1>1, ExchangeAssumption DEF ExchangeInv, CountsInv
  <2>2. Len(toMaster) \in Nat
    BY DEF ExchangeInv, FlagsInv
  <2> QED
    BY <1>1, <2>1, <2>2 DEF ExchangeInv, CountsInv
<1>5. QuestionsInv'
  BY <1>1, QuestionsKept DEF ExchangeInv
<1>6. RepliesInv'
  BY <1>1, RepliesKept DEF ExchangeInv
<1>7. ServedInv'
  BY <1>1, ServedKept DEF ExchangeInv
<1> QED
  BY <1>2, <1>3, <1>4, <1>5, <1>6, <1>7 DEF ExchangeInv

\* The slave serves a request: what was asked last is answered last.
LEMMA ServeStep ==
  ASSUME ExchangeInv, Serve
  PROVE  ExchangeInv'
<1>1. PICK m : toSlave = <<m>> /\ QuestionInv(m)
  BY DEF Serve, ExchangeInv, QuestionsInv
<1> DEFINE h == Execute(xFuncHandlers, memory, m.pdu)
           r == [n |-> m.n, pdu |-> h.ans]
<1>2. Head(toSlave) = m /\ toSlave # <<>> /\ Len(toSlave) = 1
  BY <1>1
<1>3. m \in Questions /\ m.n \in Nat /\ m.n <= asked /\ m.pdu \in Carrying
  BY <1>1 DEF QuestionInv, Questions
<1>4. /\ memory' = h.mem
      /\ toMaster' = IF m.broadcast \/ m.n = 0 THEN toMaster
                     ELSE Append(toMaster, r)
      /\ served' = IF m.n = 0 \/ h.ex # "NONE" THEN served
                   ELSE [n |-> m.n, memory |-> h.mem]
  BY <1>2 DEF Serve
<1>5. /\ toSlave' = <<>>
      /\ UNCHANGED <<copies, xFuncHandlers, sndBuf, dest, asked, waiting,
                     result, removed, rounds>>
  BY DEF Serve
<1>6. memory \in Memories
  BY DEF ExchangeInv, MemoriesInv
<1>7. /\ h.mem \in Memories /\ h.ans \in Answers
      /\ \/ h.ex = "NONE" /\ h.ans.fc = m.pdu.fc
            /\ h = Handle(m.pdu.fc, memory, m.pdu)
         \/ h.ex # "NONE" /\ h.ans.fc = "exception"
  BY <1>3, <1>6, ServeIs DEF ExchangeInv
<1> HIDE DEF h
<1>8. m.n # 0 => r \in Replies
  BY <1>3, <1>7 DEF Replies
<1>9. toMaster \in Seq(Replies)
  BY DEF ExchangeInv, FlagsInv
<1>10. \/ toMaster' = toMaster
       \/ m.n # 0 /\ toMaster' = Append(toMaster, r)
  BY <1>4
<1> HIDE DEF r
<1>11. /\ toMaster' \in Seq(Replies) /\ Len(toMaster)' \in Nat
       /\ Len(toMaster)' <= Len(toMaster) + 1
       /\ \A k \in Range(toMaster)' :
            k \in Range(toMaster) \/ (k = r /\ m.n # 0)
  <2>1. CASE toMaster' = toMaster
    <3>1. toMaster' \in Seq(Replies) /\ Len(toMaster)' = Len(toMaster)
      BY <1>9, <2>1
    <3>2. Len(toMaster) \in Nat
      BY <1>9
    <3>3. Range(toMaster)' = Range(toMaster)
      BY <2>1
    <3> QED
      BY <3>1, <3>2, <3>3
  <2>2. CASE m.n # 0 /\ toMaster' = Append(toMaster, r)
    <3>1. /\ Append(toMaster, r) \in Seq(Replies)
          /\ Range(Append(toMaster, r)) \subseteq Range(toMaster) \cup {r}
          /\ Len(Append(toMaster, r)) = Len(toMaster) + 1
      BY <1>8, <1>9, <2>2, RangeIn
    <3>2. Range(toMaster)' = Range(Append(toMaster, r))
      BY <2>2
    <3>3. Len(toMaster)' = Len(Append(toMaster, r)) /\ Len(toMaster) \in Nat
      BY <1>9, <2>2
    <3>4. \A k \in Range(toMaster)' :
            k \in Range(toMaster) \/ (k = r /\ m.n # 0)
      BY <2>2, <3>1, <3>2
    <3> QED
      BY <2>2, <3>1, <3>3, <3>4
  <2> QED
    BY <1>10, <2>1, <2>2
<1>12. TableInv'
  BY <1>5 DEF ExchangeInv, TableInv, OwnHandlers, NoneTwice, AmongFirstNine
<1>13. MemoriesInv'
  <2>1. [n |-> m.n, memory |-> h.mem] \in [n : Nat, memory : Memories]
    BY <1>3, <1>7
  <2>2. served' \in [n : Nat, memory : Memories]
    BY <1>4, <2>1 DEF ExchangeInv, MemoriesInv
  <2> QED
    BY <1>4, <1>5, <1>7, <2>2 DEF ExchangeInv, MemoriesInv
<1>14. served'.n \in {served.n, m.n}
  BY <1>4
<1>15. CountsInv'
  <2>1. /\ served'.n <= asked /\ Len(toSlave)' = 0
    BY <1>3, <1>5, <1>14 DEF ExchangeInv, CountsInv
  <2>2. Len(toSlave)' + Len(toMaster)' <= rounds
    <3>1. 1 + Len(toMaster) <= rounds /\ rounds \in Nat
      BY <1>2 DEF ExchangeInv, CountsInv
    <3>2. Len(toMaster) \in Nat
      BY <1>9
    <3> QED
      BY <1>11, <2>1, <3>1, <3>2
  <2> QED
    BY <1>5, <2>1, <2>2 DEF ExchangeInv, CountsInv
<1>16. FlagsInv'
  BY <1>5, <1>11 DEF ExchangeInv, FlagsInv
<1>17. SentInv'
  BY <1>5 DEF ExchangeInv, SentInv
<1>18. QuestionsInv'
  BY <1>5 DEF QuestionsInv
\* An answer to the last request is the slave's first and last one.
<1>19. ASSUME NEW a, a = h.ans, m.n # 0, m.n = asked, h.ex = "NONE"
       PROVE  served'.n = asked /\ CarriedOut(a)'
  <2>1. m.pdu = sndBuf
    BY <1>1, <1>19 DEF QuestionInv
  <2>2. served' = [n |-> asked, memory |-> h.mem]
    BY <1>4, <1>19
  <2>3. h = Handle(sndBuf.fc, memory, sndBuf)
    BY <1>7, <1>19, <2>1
  <2>4. sndBuf' = sndBuf
    BY <1>5
  <2>5. /\ memory \in Memories /\ a = h.ans /\ h.ex = "NONE"
        /\ served'.n = asked /\ served'.memory = h.mem
    BY <1>6, <1>19, <2>2
  <2> QED
    BY <2>3, <2>4, <2>5 DEF CarriedOut
<1>20. RepliesInv'
  <2> SUFFICES ASSUME NEW k \in Range(toMaster)' PROVE ReplyInv(k)'
    BY DEF RepliesInv
  <2>1. CASE k \in Range(toMaster)
    <3>1. ReplyInv(k)
      BY <2>1 DEF ExchangeInv, RepliesInv
    <3>2. CASE m.n = 0
      <4>1. served' = served
        BY <1>4, <3>2
      <4> QED
        BY <1>5, <3>1, <4>1 DEF ReplyInv, CarriedOut
    <3>3. CASE m.n # 0
      <4>1. k.n < m.n
        BY <1>2, <3>1, <3>3 DEF ReplyInv
      <4>2. k \in Replies /\ asked \in Nat
        BY <1>9, <2>1, RangeIn DEF ExchangeInv, CountsInv
      <4>3. k.n <= asked /\ k.n # asked
        BY <1>3, <4>1, <4>2 DEF Replies
      <4>4. k.pdu.fc = "ReadWriteHoldings" => sndBuf.fc = "ReadWriteHoldings"
        BY <3>1 DEF ReplyInv
      <4> QED
        BY <1>5, <4>3, <4>4 DEF ReplyInv
    <3> QED
      BY <3>2, <3>3
  <2>2. CASE k = r /\ m.n # 0
    <3>1. k.n = m.n /\ k.pdu = h.ans
      BY <2>2 DEF r
    <3>2. k.pdu.fc = "ReadWriteHoldings" => sndBuf.fc = "ReadWriteHoldings"
      BY <1>1, <1>7, <2>2, <3>1 DEF QuestionInv
    <3>3. k.pdu.fc # "exception" => h.ex = "NONE"
      BY <1>7, <3>1
    <3>4. PICK a : a = h.ans
      OBVIOUS
    <3>5. k.pdu = a
      BY <3>1, <3>4
    <3>6. m.n # 0 /\ m.n = asked /\ h.ex = "NONE" =>
             served'.n = asked /\ CarriedOut(a)'
      BY <1>19, <3>4, Zenon
    <3> QED
      BY <1>3, <1>5, <2>2, <3>1, <3>2, <3>3, <3>5, <3>6 DEF ReplyInv
  <2> QED
    BY <1>11, <2>1, <2>2
<1>21. ServedInv'
  <2>1. CASE served' = served
    BY <1>5, <2>1 DEF ExchangeInv, ServedInv, CarriedOut
  <2>2. CASE m.n # 0 /\ h.ex = "NONE"
    <3>1. served'.n = m.n
      BY <1>4, <2>2
    <3>2. PICK a : a = h.ans
      OBVIOUS
    <3>3. m.n = asked => CarriedOut(a)'
      BY <1>19, <2>2, <3>2, Zenon
    <3> QED
      BY <1>5, <3>1, <3>3 DEF ServedInv
  <2> QED
    BY <1>4, <2>1, <2>2
<1> QED
  BY <1>12, <1>13, <1>15, <1>16, <1>17, <1>18, <1>20, <1>21 DEF ExchangeInv

LEMMA ReceiveStep ==
  ASSUME ExchangeInv, Receive
  PROVE  ExchangeInv'
<1> DEFINE m == Head(toMaster)
           h == MasterExecute(copies[1], sndBuf, m.pdu, FALSE)
<1>1. toMaster # <<>> /\ toMaster' = Tail(toMaster)
  BY DEF Receive
<1>2. m \in Range(toMaster) /\ m \in Replies
  BY <1>1, RangeIn DEF ExchangeInv, FlagsInv
<1>3. m.pdu \in Answers
  BY <1>2 DEF Replies
<1>4. m.pdu.fc = "ReadWriteHoldings" => sndBuf.fc = "ReadWriteHoldings"
  BY <1>2 DEF ExchangeInv, RepliesInv, ReplyInv
<1>5. /\ sndBuf \in Carrying
      /\ sndBuf.fc = "ReadWriteHoldings" => sndBuf.bytes = 2 * sndBuf.wcnt
  BY DEF ExchangeInv, SentInv
<1>6. m.pdu.fc = "ReadWriteHoldings" => Len(sndBuf.data) >= 2 * sndBuf.wcnt
  BY <1>4, <1>5 DEF Carrying
<1>7. copies \in [1 .. TotalSlaveNum -> Memories] /\ 1 \in 1 .. TotalSlaveNum
  BY ExchangeAssumption DEF ExchangeInv, MemoriesInv
<1>8. copies' = copies \/ copies' = [copies EXCEPT ![1] = h.mem]
  BY DEF Receive
<1>9. result' \in Results
  BY DEF Receive, ExchangeInv, FlagsInv, Results
<1>10. /\ UNCHANGED <<memory, xFuncHandlers, sndBuf, asked, toSlave, served,
                      removed, rounds>>
       /\ dest' = dest /\ waiting' = FALSE
  BY DEF Receive
<1>11. h.mem \in Memories
  <2> HIDE DEF m
  <2>1. copies[1] \in Memories
    BY <1>7
  <2>2. PICK ans : ans = m.pdu
    OBVIOUS
  <2>3. /\ ans \in Answers
        /\ ans.fc = "ReadWriteHoldings" => Len(sndBuf.data) >= 2 * sndBuf.wcnt
    BY <1>3, <1>6, <2>2
  <2>4. MasterExecute(copies[1], sndBuf, ans, FALSE).mem \in Memories
    BY <1>5, <2>1, <2>3, MasterHandlerType
  <2> QED
    BY <2>2, <2>4
<1> HIDE DEF h
<1>12. copies' \in [1 .. TotalSlaveNum -> Memories]
  BY <1>7, <1>8, <1>11
<1>13. dest' \in 0 .. TotalSlaveNum
  BY <1>10 DEF ExchangeInv, FlagsInv
<1> QED
  BY <1>1, <1>9, <1>10, <1>12, <1>13, SettledStep

LEMMA BroadcastStep ==
  ASSUME ExchangeInv, ExecuteBroadcast
  PROVE  ExchangeInv'
<1> DEFINE h(s) == MasterExecute(copies[s], sndBuf, sndBuf, TRUE)
<1>1. sndBuf \in Carrying /\ copies \in [1 .. TotalSlaveNum -> Memories]
  BY DEF ExchangeInv, SentInv, MemoriesInv
<1>2. ASSUME NEW s \in 1 .. TotalSlaveNum
      PROVE  h(s).mem \in Memories
  <2>1. copies[s] \in Memories
    BY <1>1
  <2> QED
    BY <1>1, <2>1, MasterHandlerType
<1>3. copies' = [s \in DOMAIN copies |-> h(s).mem]
  BY DEF ExecuteBroadcast
<1>4. result' \in Results
  BY DEF ExecuteBroadcast, Results
<1>5. /\ UNCHANGED <<memory, xFuncHandlers, sndBuf, asked, toSlave, toMaster,
                     served, removed, rounds>>
      /\ waiting' = FALSE
  BY DEF ExecuteBroadcast
<1>6. dest' \in 0 .. TotalSlaveNum
  BY ExchangeAssumption DEF ExecuteBroadcast, DestLeft
<1> HIDE DEF h
<1>7. copies' \in [1 .. TotalSlaveNum -> Memories]
  BY <1>1, <1>2, <1>3
<1> QED
  BY <1>4, <1>5, <1>6, <1>7, SettledStep

LEMMA ExchangeStep == ExchangeInv /\ [Next]_vars => ExchangeInv'
<1> SUFFICES ASSUME ExchangeInv, [Next]_vars PROVE ExchangeInv'
  OBVIOUS
<1>1. ASSUME NEW d \in Dests, NEW q \in Requests, Ask(d, q)
      PROVE  ExchangeInv'
  BY <1>1, AskStep
<1>2. ASSUME NEW q \in ForeignRequests, AskElsewhere(q)
      PROVE  ExchangeInv'
  BY <1>2, ElsewhereStep
<1>3. CASE Serve
  BY <1>3, ServeStep
<1>4. CASE Receive
  BY <1>4, ReceiveStep
<1>5. CASE ExecuteBroadcast
  BY <1>5, BroadcastStep
<1>6. CASE LoseRequest \/ LoseAnswer \/ TimeOut \/ AskRefused
  BY <1>6, LossStep
<1>7. ASSUME NEW code \in Removable, Remove(code) \/ Register(code)
      PROVE  ExchangeInv'
  BY <1>7, HandlersStep
<1>8. CASE UNCHANGED vars
  <2>1. /\ UNCHANGED <<memory, xFuncHandlers, sndBuf, asked, toSlave, served,
                       removed, rounds>>
        /\ UNCHANGED <<copies, dest, waiting, result, toMaster>>
    BY <1>8 DEF vars
  <2>2. TableInv' /\ MemoriesInv' /\ CountsInv'
    BY <2>1 DEF ExchangeInv, TableInv, OwnHandlers, NoneTwice,
                AmongFirstNine, MemoriesInv, CountsInv
  <2>3. FlagsInv' /\ SentInv'
    BY <2>1 DEF ExchangeInv, FlagsInv, SentInv
  <2>4. QuestionsInv'
    BY <2>1, QuestionsKept DEF ExchangeInv
  <2>5. RepliesInv'
    BY <2>1, RepliesKept DEF ExchangeInv
  <2>6. ServedInv'
    BY <2>1, ServedKept DEF ExchangeInv
  <2> QED
    BY <2>2, <2>3, <2>4, <2>5, <2>6 DEF ExchangeInv
<1> QED
  BY <1>1, <1>2, <1>3, <1>4, <1>5, <1>6, <1>7, <1>8 DEF Next

LEMMA ExchangeAlways == Spec => []ExchangeInv
BY ExchangeInit, ExchangeStep, PTL DEF Spec

-----------------------------------------------------------------------------
(***************************************************************************)
(* What the exchange of requests and answers keeps.                        *)
(***************************************************************************)

(* Registers hold 16-bit values, coils hold bits, on the slave and in the  *)
(* copies, whatever is asked, lost or late, and the table keeps its form   *)
(* (mbfunc*.c, mbfunc*_m.c, user_mb_app.c, user_mb_app_m.c, mb.c:363).     *)
THEOREM ExchangeTypes == Spec => []TypeOK
<1>1. ExchangeInv => TypeOK
  <2> SUFFICES ASSUME ExchangeInv PROVE TypeOK
    OBVIOUS
  <2>1. xFuncHandlers \in Tables /\ removed \subseteq Functions
    BY DEF ExchangeInv, TableInv
  <2>2. /\ memory \in Memories /\ copies \in [1 .. TotalSlaveNum -> Memories]
        /\ served.memory \in Memories /\ served.n \in Nat
    BY DEF ExchangeInv, MemoriesInv
  <2>3. dest \in 0 .. TotalSlaveNum /\ waiting \in BOOLEAN /\ result \in Results
    BY DEF ExchangeInv, FlagsInv
  <2>4. Len(toMaster) \in Nat
    BY DEF ExchangeInv, FlagsInv
  <2>5. Len(toSlave) <= 1
    <3>1. CASE toSlave = <<>>
      BY <3>1
    <3>2. ASSUME NEW m, toSlave = <<m>>
          PROVE  Len(toSlave) <= 1
      BY <3>2
    <3> QED
      BY <3>1, <3>2 DEF ExchangeInv, QuestionsInv
  <2>6. /\ asked \in 0 .. MaxRounds /\ served.n \in 0 .. asked
        /\ rounds \in 0 .. MaxRounds /\ Len(toMaster) <= MaxRounds
    BY <2>2, <2>4, ExchangeAssumption DEF ExchangeInv, CountsInv
  <2> QED
    BY <2>1, <2>2, <2>3, <2>5, <2>6 DEF TypeOK
<1> QED
  BY <1>1, ExchangeAlways, PTL

(* Serving a request changes what it writes and nothing else, in each of   *)
(* the memories' tables, for every number of bits in a byte, every size    *)
(* and every request whose surplus bits are zero (mbutils.c:76).           *)
THEOREM NothingElseWritten ==
  PaddedRequests => (Spec => OnlyWrittenChanges)
<1> SUFFICES ASSUME PaddedRequests PROVE Spec => OnlyWrittenChanges
  OBVIOUS
<1>1. ASSUME ExchangeInv, Serve
      PROVE  Differing(memory, memory') \subseteq WrittenBy(Head(toSlave).pdu)
  <2>1. PICK m : toSlave = <<m>> /\ QuestionInv(m)
    BY <1>1 DEF Serve, ExchangeInv, QuestionsInv
  <2>2. PICK q \in Carrying : q = m.pdu
    BY <2>1 DEF QuestionInv, Questions
  <2>3. Head(toSlave) = m
    BY <2>1
  <2>4. memory' = Execute(xFuncHandlers, memory, q).mem
    BY <1>1, <2>2, <2>3 DEF Serve
  <2>5. PaddedFrame(q)
    BY <1>1, <2>1, <2>2 DEF QuestionInv
  <2>6. memory \in Memories /\ TableInv
    BY <1>1 DEF ExchangeInv, MemoriesInv
  <2>7. Differing(memory, memory') \subseteq WrittenBy(q)
    <3>1. CASE Served(xFuncHandlers, q.fc)
      <4>1. Execute(xFuncHandlers, memory, q) = Handle(q.fc, memory, q)
        BY <2>6, <3>1, ExecutedBy
      <4>2. Differing(memory, Handle(q.fc, memory, q).mem)
              \subseteq WrittenBy(q)
        BY <2>5, <2>6, HandlerWrites DEF PaddedFrame
      <4> QED
        BY <2>4, <4>1, <4>2
    <3>2. CASE ~Served(xFuncHandlers, q.fc)
      <4>1. memory' = memory
        BY <2>4, <3>2 DEF Execute, Refused
      <4>2. Differing(memory, memory') = {}
        BY <4>1, DiffersNowhere
      <4> QED
        BY <4>2
    <3> QED
      BY <3>1, <3>2
  <2> QED
    BY <2>2, <2>3, <2>7
<1>2. ExchangeInv /\ [Next]_vars =>
        [Serve => Differing(memory, memory')
                    \subseteq WrittenBy(Head(toSlave).pdu)]_vars
  BY <1>1
<1> QED
  BY <1>2, ExchangeAlways, PTL DEF Spec, OnlyWrittenChanges

-----------------------------------------------------------------------------
(***************************************************************************)
(* What the master makes of the answers.                                   *)
(***************************************************************************)

TableNames == {"coils", "discs", "inputs", "holds"}

\* Memories that differ in one table at most, at certain places.
LEMMA ChangedIn ==
  ASSUME NEW m, NEW new, NEW t \in TableNames, NEW R,
         \A u \in TableNames \ {t} : new[u] = m[u],
         \A i \in DOMAIN m[t] : i \notin R => new[t][i] = m[t][i]
  PROVE  Differing(m, new) \subseteq {<<t, i>> : i \in R}
<1> SUFFICES ASSUME NEW p \in Differing(m, new)
             PROVE  p \in {<<t, i>> : i \in R}
  OBVIOUS
<1>1. PICK u \in TableNames :
        \E i \in DOMAIN m[u] : m[u][i] # new[u][i] /\ p = <<u, i>>
  BY DEF Differing, TableNames
<1> PICK i \in DOMAIN m[u] : m[u][i] # new[u][i] /\ p = <<u, i>>
  BY <1>1
<1>2. u = t
  BY <1>1
<1> QED
  BY <1>1, <1>2

LEMMA AgreeIn ==
  ASSUME NEW m1, NEW m2, NEW t, NEW R,
         \A i \in DOMAIN m1[t] : i \in R => m1[t][i] = m2[t][i]
  PROVE  Differing(m1, m2) \cap {<<t, i>> : i \in R} = {}
<1> SUFFICES ASSUME NEW p \in Differing(m1, m2), p \in {<<t, i>> : i \in R}
             PROVE  FALSE
  OBVIOUS
<1>1. PICK u \in TableNames :
        \E i \in DOMAIN m1[u] : m1[u][i] # m2[u][i] /\ p = <<u, i>>
  BY DEF Differing, TableNames
<1> PICK i \in DOMAIN m1[u] : m1[u][i] # m2[u][i] /\ p = <<u, i>>
  BY <1>1
<1>2. u = t /\ i \in R
  BY <1>1
<1> QED
  BY <1>1, <1>2

\* One table of a memory is replaced.
LEMMA CoilsReplaced ==
  ASSUME NEW m \in Memories, NEW f, NEW new, new = [m EXCEPT !.coils = f]
  PROVE  /\ new["coils"] = f
         /\ \A u \in TableNames \ {"coils"} : new[u] = m[u]
BY MemoriesIs DEF TableNames

LEMMA DiscsReplaced ==
  ASSUME NEW m \in Memories, NEW f, NEW new, new = [m EXCEPT !.discs = f]
  PROVE  /\ new["discs"] = f
         /\ \A u \in TableNames \ {"discs"} : new[u] = m[u]
BY MemoriesIs DEF TableNames

LEMMA InputsReplaced ==
  ASSUME NEW m \in Memories, NEW f, NEW new, new = [m EXCEPT !.inputs = f]
  PROVE  /\ new["inputs"] = f
         /\ \A u \in TableNames \ {"inputs"} : new[u] = m[u]
BY MemoriesIs DEF TableNames

LEMMA HoldsReplaced ==
  ASSUME NEW m \in Memories, NEW f, NEW new, new = [m EXCEPT !.holds = f]
  PROVE  /\ new["holds"] = f
         /\ \A u \in TableNames \ {"holds"} : new[u] = m[u]
BY MemoriesIs DEF TableNames

\* Bits that are read and written to another array.
LEMMA BitsBack ==
  ASSUME NEW size \in Nat, NEW old \in Bits(size), NEW copy \in Bits(size),
         NEW addr \in Nat, NEW n \in Nat, addr + n <= size,
         NEW data, data = BitsRead(old, addr, n)
  PROVE  /\ data \in Seq(Byte) /\ Len(data) = ByteCount(n)
         /\ \A i \in DOMAIN copy :
              BitsWritten(copy, addr, n, data)[i] =
                IF i \in addr .. addr + n - 1 THEN old[i] ELSE copy[i]
<1>1. BitsUchar \in Nat \ {0} /\ ByteCount(n) \in Nat
  BY SizesAssumption, ByteCountNat
<1>2. data \in [1 .. ByteCount(n) -> Byte]
  BY BitsReadType DEF Bits
<1>3. data \in Seq(Byte) /\ Len(data) = ByteCount(n)
  BY <1>1, <1>2
<1> DEFINE q == n \div BitsUchar
           r == n % BitsUchar
<1>4. q \in Nat /\ r \in 0 .. BitsUchar - 1 /\ n = BitsUchar * q + r
  BY <1>1, DivMod
<1>5. ByteCount(n) = IF r = 0 THEN q ELSE q + 1
  BY ByteCountIs
<1>6. ASSUME NEW j \in 1 .. ByteCount(n), NEW k \in 0 .. BitsUchar - 1
      PROVE  data[j][k] = IF BitsUchar * (j - 1) + k < n
                          THEN old[addr + BitsUchar * (j - 1) + k] ELSE 0
  <2> DEFINE left == n - BitsUchar * (j - 1)
             m == IF left < BitsUchar THEN left ELSE BitsUchar
  <2>1. data[j][k] = IF k < m THEN old[addr + n - left + k] ELSE 0
    BY DEF BitsRead, xMBUtilGetBits
  <2>2. BitsUchar * (j - 1) \in Nat
    BY <1>1
  <2>3. k < m <=> BitsUchar * (j - 1) + k < n
    BY <1>1, <2>2
  <2>4. addr + n - left = addr + BitsUchar * (j - 1)
    BY <2>2
  <2> QED
    BY <2>1, <2>3, <2>4
<1>7. Padded(data, n)
  <2> SUFFICES ASSUME r # 0, NEW k \in r .. BitsUchar - 1
               PROVE  data[q + 1][k] = 0
    BY DEF Padded
  <2> HIDE DEF q, r
  <2>1. q + 1 \in 1 .. ByteCount(n) /\ k \in 0 .. BitsUchar - 1
    BY <1>1, <1>4, <1>5
  <2>2. ~(BitsUchar * ((q + 1) - 1) + k < n)
    BY <1>1, <1>4
  <2> QED
    BY <1>6, <2>1, <2>2
<1>8. Array(copy)
  BY <1>1 DEF Bits, BitIndex, ByteCount, Array
<1>9. BitsWritten(copy, addr, n, data) = Overwritten(copy, addr, n, data)
  BY <1>7, <1>8, BitsWrittenIs
<1>10. ASSUME NEW i \in DOMAIN copy, i \in addr .. addr + n - 1
       PROVE  data[(i - addr) \div BitsUchar + 1][(i - addr) % BitsUchar]
                = old[i]
  <2> DEFINE j == (i - addr) \div BitsUchar
             k == (i - addr) % BitsUchar
  <2>1. i - addr \in Nat /\ i - addr < n
    BY <1>10
  <2>2. /\ j \in Nat /\ k \in 0 .. BitsUchar - 1
        /\ i - addr = BitsUchar * j + k
    BY <1>1, <2>1, DivMod
  <2> HIDE DEF j, k, q, r
  <2>3. j < q + 1 /\ (r = 0 => j < q)
    <3>1. BitsUchar * j < BitsUchar * q + r
      BY <1>1, <1>4, <2>1, <2>2
    <3>2. CASE j >= q + 1
      <4>1. BitsUchar * j >= BitsUchar * (q + 1)
        BY <1>1, <1>4, <2>2, <3>2
      <4>2. BitsUchar * (q + 1) = BitsUchar * q + BitsUchar
        BY <1>1, <1>4
      <4> QED
        BY <1>1, <1>4, <2>2, <3>1, <4>1, <4>2
    <3>3. CASE j = q /\ r = 0
      BY <1>1, <1>4, <3>1, <3>3
    <3> QED
      BY <1>4, <2>2, <3>2, <3>3
  <2>4. j + 1 \in 1 .. ByteCount(n)
    BY <1>4, <1>5, <2>2, <2>3
  <2>5. BitsUchar * ((j + 1) - 1) + k = i - addr
    BY <1>1, <2>2
  <2>6. data[j + 1][k] = old[addr + BitsUchar * ((j + 1) - 1) + k]
    BY <1>6, <2>1, <2>2, <2>4, <2>5
  <2>7. addr + BitsUchar * ((j + 1) - 1) + k = i
    <3> DEFINE x == BitsUchar * ((j + 1) - 1)
    <3>1. x \in Int /\ x + k = i - addr /\ i \in Int
      BY <1>1, <1>10, <2>2, <2>5
    <3> HIDE DEF x
    <3>2. addr + x + k = i
      BY <2>2, <3>1
    <3> QED
      BY <3>2 DEF x
  <2> QED
    BY <2>6, <2>7 DEF j, k
<1>11. ASSUME NEW i \in DOMAIN copy
       PROVE  BitsWritten(copy, addr, n, data)[i] =
                IF i \in addr .. addr + n - 1 THEN old[i] ELSE copy[i]
  <2> DEFINE v == data[(i - addr) \div BitsUchar + 1][(i - addr) % BitsUchar]
  <2>1. Overwritten(copy, addr, n, data)[i] =
          IF i \in addr .. addr + n - 1 THEN v ELSE copy[i]
    BY DEF Overwritten
  <2>2. i \in addr .. addr + n - 1 => v = old[i]
    BY <1>10
  <2> HIDE DEF v
  <2> QED
    BY <1>9, <2>1, <2>2
<1> QED
  BY <1>3, <1>11

\* Registers that are read and written to another array.
LEMMA RegsBack ==
  ASSUME NEW size \in Nat, NEW old \in Regs(size), NEW copy \in Regs(size),
         NEW addr \in Nat, NEW n \in Nat, addr + n <= size,
         NEW data, data = RegsRead(old, addr, n)
  PROVE  /\ data \in Seq(Byte) /\ Len(data) = 2 * n
         /\ \A i \in DOMAIN copy :
              RegsWritten(copy, addr, n, data)[i] =
                IF i \in addr .. addr + n - 1 THEN old[i] ELSE copy[i]
<1>1. data \in [1 .. 2 * n -> Byte]
  BY RegsReadType DEF Regs
<1>2. data \in Seq(Byte) /\ Len(data) = 2 * n
  BY <1>1
<1>3. ASSUME NEW i \in DOMAIN copy, i \in addr .. addr + n - 1
      PROVE  <<data[2 * (i - addr) + 1], data[2 * (i - addr) + 2]>> = old[i]
  <2> DEFINE a == 2 * (i - addr)
  <2>1. a + 1 \in 1 .. 2 * n /\ a + 2 \in 1 .. 2 * n
    BY <1>3
  <2>2. /\ addr + ((a + 1) - 1) \div 2 = i /\ 1 + (((a + 1) - 1) % 2) = 1
        /\ addr + ((a + 2) - 1) \div 2 = i /\ 1 + (((a + 2) - 1) % 2) = 2
    BY <1>3
  <2>3. data[a + 1] = old[addr + ((a + 1) - 1) \div 2][1 + (((a + 1) - 1) % 2)]
    BY <2>1 DEF RegsRead
  <2>4. data[a + 2] = old[addr + ((a + 2) - 1) \div 2][1 + (((a + 2) - 1) % 2)]
    BY <2>1 DEF RegsRead
  <2>5. data[a + 1] = old[i][1] /\ data[a + 2] = old[i][2]
    BY <2>2, <2>3, <2>4
  <2>6. i \in 0 .. size - 1
    BY <1>3
  <2>7. old[i] \in Byte \X Byte
    BY <2>6 DEF Regs, Word
  <2>8. old[i] = <<old[i][1], old[i][2]>>
    BY <2>7
  <2> QED
    BY <2>5, <2>8
<1>4. ASSUME NEW i \in DOMAIN copy
      PROVE  RegsWritten(copy, addr, n, data)[i] =
               IF i \in addr .. addr + n - 1 THEN old[i] ELSE copy[i]
  BY <1>3 DEF RegsWritten
<1> QED
  BY <1>2, <1>4

\* Bits that are written to two arrays.
LEMMA BitsBoth ==
  ASSUME NEW size \in Nat, NEW old \in Bits(size), NEW copy \in Bits(size),
         NEW addr \in Nat, NEW n \in Nat, NEW data
  PROVE  /\ \A i \in DOMAIN copy :
              i \in addr .. addr + n - 1 =>
                BitsWritten(copy, addr, n, data)[i] =
                  BitsWritten(old, addr, n, data)[i]
         /\ Padded(data, n) =>
              \A i \in DOMAIN copy :
                i \notin addr .. addr + n - 1 =>
                  BitsWritten(copy, addr, n, data)[i] = copy[i]
<1>1. Array(copy) /\ Array(old) /\ DOMAIN old = DOMAIN copy
  BY SizesAssumption DEF Bits, BitIndex, ByteCount, Array
<1>2. ASSUME NEW i \in DOMAIN copy, i \in addr .. addr + n - 1
      PROVE  BitsWritten(copy, addr, n, data)[i] =
               BitsWritten(old, addr, n, data)[i]
  <2> DEFINE v == data[(i - addr) \div BitsUchar + 1][(i - addr) % BitsUchar]
  <2>1. BitsWritten(copy, addr, n, data)[i] = v
    BY <1>1, <1>2, WrittenInside
  <2>2. BitsWritten(old, addr, n, data)[i] = v
    BY <1>1, <1>2, WrittenInside
  <2> HIDE DEF v
  <2> QED
    BY <2>1, <2>2
<1>3. ASSUME Padded(data, n), NEW i \in DOMAIN copy,
             i \notin addr .. addr + n - 1
      PROVE  BitsWritten(copy, addr, n, data)[i] = copy[i]
  <2>1. BitsWritten(copy, addr, n, data) = Overwritten(copy, addr, n, data)
    BY <1>1, <1>3, BitsWrittenIs
  <2>2. Overwritten(copy, addr, n, data)[i] = copy[i]
    BY <1>3 DEF Overwritten
  <2> QED
    BY <2>1, <2>2
<1> QED
  BY <1>2, <1>3

(* The master takes the answer of the slave: its copy has what was read or *)
(* written, and nothing else.                                              *)
InStep(copy, old, buf) ==
  LET h == Handle(buf.fc, old, buf)
      g == MasterExecute(copy, buf, h.ans, FALSE)
      places == ReadBy(buf) \cup WrittenBy(buf)
  IN  /\ g.ex = "NONE"
      /\ Differing(g.mem, h.mem) \cap places = {}
      /\ PaddedFrame(buf) => Differing(copy, g.mem) \subseteq places

(* The frames of the requests of the master. *)
BuiltFrame(b) ==
  /\ b \in Carrying
  /\ b.fc = "WriteCoils" => b.bytes = ByteCount(b.word) /\ ~b.rw
  /\ b.fc = "WriteHoldings" => b.bytes = 2 * b.word /\ ~b.rw
  /\ b.fc = "ReadWriteHoldings" => b.bytes = 2 * b.wcnt /\ b.len >= 10

LEMMA ReadCoilsInStep ==
  ASSUME NEW copy \in Memories, NEW old \in Memories, NEW buf \in Carrying,
         buf.fc = "ReadCoils", Handle(buf.fc, old, buf).ex = "NONE"
  PROVE  InStep(copy, old, buf)
<1> DEFINE a == buf.addr
           n == buf.word
           data == BitsRead(old.coils, a, n)
           f == BitsWritten(copy.coils, a, n, data)
           new == [copy EXCEPT !.coils = f]
           ans == [fc |-> buf.fc, bytes |-> Len(data), data |-> data,
                   len |-> 2 + Len(data)]
<1>1. a \in Nat /\ n \in Nat /\ NCoils \in Nat
  BY SizesNat DEF Carrying, Frames
<1>2. /\ n >= 1 /\ a + n <= NCoils
      /\ Handle(buf.fc, old, buf) = [ex |-> "NONE", mem |-> old, ans |-> ans]
  <2>1. Handle(buf.fc, old, buf) = eMBFuncReadCoils(old, buf)
    BY DEF Handle
  <2>2. /\ n \in 1 .. ReadBitsMax - 1 /\ InRange(a, n, NCoils)
        /\ eMBFuncReadCoils(old, buf) = ReadAnswer(old, buf, data)
    BY <2>1 DEF eMBFuncReadCoils, Read, Refused, BadAddress
  <2>3. n >= 1
    BY <1>1, <2>2
  <2> QED
    BY <2>1, <2>2, <2>3 DEF ReadAnswer, InRange
<1> DEFINE g == MasterExecute(copy, buf, ans, FALSE)
<1>3. old.coils \in Bits(NCoils) /\ copy.coils \in Bits(NCoils)
  BY MemoriesIs
<1>4. /\ Len(data) = ByteCount(buf.word)
      /\ \A i \in DOMAIN copy.coils :
           f[i] = IF i \in a .. a + n - 1 THEN old.coils[i] ELSE copy.coils[i]
  <2>1. data = BitsRead(old.coils, a, n)
    OBVIOUS
  <2> DEFINE o == old.coils
             c == copy.coils
  <2>2. a + n <= NCoils
    BY <1>2
  <2> HIDE DEF a, n, data, o, c
  <2>3. /\ Len(data) = ByteCount(n)
        /\ \A i \in DOMAIN c :
             BitsWritten(c, a, n, data)[i] =
               IF i \in a .. a + n - 1 THEN o[i] ELSE c[i]
    BY <1>1, <1>3, <2>1, <2>2, BitsBack DEF o, c
  <2> QED
    BY <2>3 DEF n, o, c
<1>5. g.ex = "NONE" /\ g.mem = new
  <2>1. ans.fc = "ReadCoils" /\ ans.bytes = Len(data) /\ ans.data = data
    OBVIOUS
  <2> HIDE DEF ans
  <2>2. g = Store(copy, buf, ans, ByteCount(buf.word), NCoils, new)
    BY <2>1 DEF MasterExecute, eMBMasterFuncReadCoils
  <2> HIDE DEF g, new, data
  <2> QED
    BY <1>1, <1>2, <1>4, <2>1, <2>2 DEF Store, Copied, InRange
<1> HIDE DEF data, f, new, ans, g
<1>6. /\ new["coils"] = f
      /\ old["coils"] = old.coils /\ copy["coils"] = copy.coils
      /\ \A u \in TableNames \ {"coils"} : new[u] = copy[u]
  BY CoilsReplaced DEF new
<1>7. new \in Memories
  <2>1. ans \in Answers
    BY <1>2, HandlerType
  <2>2. ans.fc # "ReadWriteHoldings"
    BY DEF ans
  <2>3. g.mem \in Memories
    BY <2>1, <2>2, MasterHandlerType DEF g
  <2> QED
    BY <1>5, <2>3
<1>8. DOMAIN new["coils"] = DOMAIN copy.coils
  BY <1>3, <1>7, MemoriesIs DEF Bits
<1>9. Differing(new, old) \cap {<<"coils", i>> : i \in a .. a + n - 1} = {}
  <2> DEFINE R == a .. a + n - 1
  <2>1. \A i \in DOMAIN new["coils"] :
          i \in R => new["coils"][i] = old["coils"][i]
    BY <1>4, <1>6, <1>8
  <2> HIDE DEF R
  <2>2. Differing(new, old) \cap {<<"coils", i>> : i \in R} = {}
    BY <2>1, AgreeIn
  <2> QED
    BY <2>2 DEF R
<1>10. Differing(copy, new) \subseteq {<<"coils", i>> : i \in a .. a + n - 1}
  <2>1. \A i \in DOMAIN copy["coils"] :
          i \notin a .. a + n - 1 => new["coils"][i] = copy["coils"][i]
    BY <1>4, <1>6
  <2>2. "coils" \in TableNames
    BY DEF TableNames
  <2> QED
    BY <1>6, <2>1, <2>2, ChangedIn
<1>11. ReadBy(buf) \cup WrittenBy(buf)
         = {<<"coils", i>> : i \in a .. a + n - 1}
  BY DEF ReadBy, WrittenBy, Places
<1> QED
  <2> DEFINE h == Handle(buf.fc, old, buf)
  <2>1. h.mem = old /\ h.ans = ans
    BY <1>2 DEF ans
  <2> HIDE DEF h, a, n
  <2>2. MasterExecute(copy, buf, h.ans, FALSE) = g
    BY <2>1 DEF g
  <2> QED
    BY <1>5, <1>9, <1>10, <1>11, <2>1, <2>2 DEF InStep, h

LEMMA ReadDiscretesInStep ==
  ASSUME NEW copy \in Memories, NEW old \in Memories, NEW buf \in Carrying,
         buf.fc = "ReadDiscretes", Handle(buf.fc, old, buf).ex = "NONE"
  PROVE  InStep(copy, old, buf)
<1> DEFINE a == buf.addr
           n == buf.word
           data == BitsRead(old.discs, a, n)
           f == BitsWritten(copy.discs, a, n, data)
           new == [copy EXCEPT !.discs = f]
           ans == [fc |-> buf.fc, bytes |-> Len(data), data |-> data,
                   len |-> 2 + Len(data)]
<1>1. a \in Nat /\ n \in Nat /\ NDiscretes \in Nat
  BY SizesNat DEF Carrying, Frames
<1>2. /\ n >= 1 /\ a + n <= NDiscretes
      /\ Handle(buf.fc, old, buf) = [ex |-> "NONE", mem |-> old, ans |-> ans]
  <2>1. Handle(buf.fc, old, buf) = eMBFuncReadDiscreteInputs(old, buf)
    BY DEF Handle
  <2>2. /\ n \in 1 .. ReadBitsMax - 1 /\ InRange(a, n, NDiscretes)
        /\ eMBFuncReadDiscreteInputs(old, buf) = ReadAnswer(old, buf, data)
    BY <2>1 DEF eMBFuncReadDiscreteInputs, Read, Refused, BadAddress
  <2>3. n >= 1
    BY <1>1, <2>2
  <2> QED
    BY <2>1, <2>2, <2>3 DEF ReadAnswer, InRange
<1> DEFINE g == MasterExecute(copy, buf, ans, FALSE)
<1>3. old.discs \in Bits(NDiscretes) /\ copy.discs \in Bits(NDiscretes)
  BY MemoriesIs
<1>4. /\ Len(data) = ByteCount(buf.word)
      /\ \A i \in DOMAIN copy.discs :
           f[i] = IF i \in a .. a + n - 1 THEN old.discs[i] ELSE copy.discs[i]
  <2>1. data = BitsRead(old.discs, a, n)
    OBVIOUS
  <2> DEFINE o == old.discs
             c == copy.discs
  <2>2. a + n <= NDiscretes
    BY <1>2
  <2> HIDE DEF a, n, data, o, c
  <2>3. /\ Len(data) = ByteCount(n)
        /\ \A i \in DOMAIN c :
             BitsWritten(c, a, n, data)[i] =
               IF i \in a .. a + n - 1 THEN o[i] ELSE c[i]
    BY <1>1, <1>3, <2>1, <2>2, BitsBack DEF o, c
  <2> QED
    BY <2>3 DEF n, o, c
<1>5. g.ex = "NONE" /\ g.mem = new
  <2>1. ans.fc = "ReadDiscretes" /\ ans.bytes = Len(data) /\ ans.data = data
    OBVIOUS
  <2> HIDE DEF ans
  <2>2. g = Store(copy, buf, ans, ByteCount(buf.word), NDiscretes, new)
    BY <2>1 DEF MasterExecute, eMBMasterFuncReadDiscreteInputs
  <2> HIDE DEF g, new, data
  <2> QED
    BY <1>1, <1>2, <1>4, <2>1, <2>2 DEF Store, Copied, InRange
<1> HIDE DEF data, f, new, ans, g
<1>6. /\ new["discs"] = f
      /\ old["discs"] = old.discs /\ copy["discs"] = copy.discs
      /\ \A u \in TableNames \ {"discs"} : new[u] = copy[u]
  BY DiscsReplaced DEF new
<1>7. new \in Memories
  <2>1. ans \in Answers
    BY <1>2, HandlerType
  <2>2. ans.fc # "ReadWriteHoldings"
    BY DEF ans
  <2>3. g.mem \in Memories
    BY <2>1, <2>2, MasterHandlerType DEF g
  <2> QED
    BY <1>5, <2>3
<1>8. DOMAIN new["discs"] = DOMAIN copy.discs
  BY <1>3, <1>7, MemoriesIs DEF Bits
<1>9. Differing(new, old) \cap {<<"discs", i>> : i \in a .. a + n - 1} = {}
  <2> DEFINE R == a .. a + n - 1
  <2>1. \A i \in DOMAIN new["discs"] :
          i \in R => new["discs"][i] = old["discs"][i]
    BY <1>4, <1>6, <1>8
  <2> HIDE DEF R
  <2>2. Differing(new, old) \cap {<<"discs", i>> : i \in R} = {}
    BY <2>1, AgreeIn
  <2> QED
    BY <2>2 DEF R
<1>10. Differing(copy, new) \subseteq {<<"discs", i>> : i \in a .. a + n - 1}
  <2>1. \A i \in DOMAIN copy["discs"] :
          i \notin a .. a + n - 1 => new["discs"][i] = copy["discs"][i]
    BY <1>4, <1>6
  <2>2. "discs" \in TableNames
    BY DEF TableNames
  <2> QED
    BY <1>6, <2>1, <2>2, ChangedIn
<1>11. ReadBy(buf) \cup WrittenBy(buf)
         = {<<"discs", i>> : i \in a .. a + n - 1}
  BY DEF ReadBy, WrittenBy, Places
<1> QED
  <2> DEFINE h == Handle(buf.fc, old, buf)
  <2>1. h.mem = old /\ h.ans = ans
    BY <1>2 DEF ans
  <2> HIDE DEF h, a, n
  <2>2. MasterExecute(copy, buf, h.ans, FALSE) = g
    BY <2>1 DEF g
  <2> QED
    BY <1>5, <1>9, <1>10, <1>11, <2>1, <2>2 DEF InStep, h

LEMMA ReadInputsInStep ==
  ASSUME NEW copy \in Memories, NEW old \in Memories, NEW buf \in Carrying,
         buf.fc = "ReadInputs", Handle(buf.fc, old, buf).ex = "NONE"
  PROVE  InStep(copy, old, buf)
<1> DEFINE a == buf.addr
           n == buf.word
           data == RegsRead(old.inputs, a, n)
           f == RegsWritten(copy.inputs, a, n, data)
           new == [copy EXCEPT !.inputs = f]
           ans == [fc |-> buf.fc, bytes |-> Len(data), data |-> data,
                   len |-> 2 + Len(data)]
<1>1. a \in Nat /\ n \in Nat /\ NInputs \in Nat
  BY SizesNat DEF Carrying, Frames
<1>2. /\ n >= 1 /\ a + n <= NInputs
      /\ Handle(buf.fc, old, buf) = [ex |-> "NONE", mem |-> old, ans |-> ans]
  <2>1. Handle(buf.fc, old, buf) = eMBFuncReadInputRegister(old, buf)
    BY DEF Handle
  <2>2. /\ n \in 1 .. ReadRegsMax - 1 /\ InRange(a, n, NInputs)
        /\ eMBFuncReadInputRegister(old, buf) = ReadAnswer(old, buf, data)
    BY <2>1 DEF eMBFuncReadInputRegister, Read, Refused, BadAddress
  <2>3. n >= 1
    BY <1>1, <2>2
  <2> QED
    BY <2>1, <2>2, <2>3 DEF ReadAnswer, InRange
<1> DEFINE g == MasterExecute(copy, buf, ans, FALSE)
<1>3. old.inputs \in Regs(NInputs) /\ copy.inputs \in Regs(NInputs)
  BY MemoriesIs
<1>4. /\ Len(data) = 2 * buf.word
      /\ \A i \in DOMAIN copy.inputs :
           f[i] = IF i \in a .. a + n - 1 THEN old.inputs[i] ELSE copy.inputs[i]
  <2>1. data = RegsRead(old.inputs, a, n)
    OBVIOUS
  <2> DEFINE o == old.inputs
             c == copy.inputs
  <2>2. a + n <= NInputs
    BY <1>2
  <2> HIDE DEF a, n, data, o, c
  <2>3. /\ Len(data) = 2 * n
        /\ \A i \in DOMAIN c :
             RegsWritten(c, a, n, data)[i] =
               IF i \in a .. a + n - 1 THEN o[i] ELSE c[i]
    BY <1>1, <1>3, <2>1, <2>2, RegsBack DEF o, c
  <2> QED
    BY <2>3 DEF n, o, c
<1>5. g.ex = "NONE" /\ g.mem = new
  <2>1. ans.fc = "ReadInputs" /\ ans.bytes = Len(data) /\ ans.data = data
    OBVIOUS
  <2> HIDE DEF ans
  <2>2. g = Store(copy, buf, ans, 2 * buf.word, NInputs, new)
    BY <2>1 DEF MasterExecute, eMBMasterFuncReadInputRegister
  <2> HIDE DEF g, new, data
  <2> QED
    BY <1>1, <1>2, <1>4, <2>1, <2>2 DEF Store, Copied, InRange
<1> HIDE DEF data, f, new, ans, g
<1>6. /\ new["inputs"] = f
      /\ old["inputs"] = old.inputs /\ copy["inputs"] = copy.inputs
      /\ \A u \in TableNames \ {"inputs"} : new[u] = copy[u]
  BY InputsReplaced DEF new
<1>7. new \in Memories
  <2>1. ans \in Answers
    BY <1>2, HandlerType
  <2>2. ans.fc # "ReadWriteHoldings"
    BY DEF ans
  <2>3. g.mem \in Memories
    BY <2>1, <2>2, MasterHandlerType DEF g
  <2> QED
    BY <1>5, <2>3
<1>8. DOMAIN new["inputs"] = DOMAIN copy.inputs
  BY <1>3, <1>7, MemoriesIs DEF Regs
<1>9. Differing(new, old) \cap {<<"inputs", i>> : i \in a .. a + n - 1} = {}
  <2> DEFINE R == a .. a + n - 1
  <2>1. \A i \in DOMAIN new["inputs"] :
          i \in R => new["inputs"][i] = old["inputs"][i]
    BY <1>4, <1>6, <1>8
  <2> HIDE DEF R
  <2>2. Differing(new, old) \cap {<<"inputs", i>> : i \in R} = {}
    BY <2>1, AgreeIn
  <2> QED
    BY <2>2 DEF R
<1>10. Differing(copy, new) \subseteq {<<"inputs", i>> : i \in a .. a + n - 1}
  <2>1. \A i \in DOMAIN copy["inputs"] :
          i \notin a .. a + n - 1 => new["inputs"][i] = copy["inputs"][i]
    BY <1>4, <1>6
  <2>2. "inputs" \in TableNames
    BY DEF TableNames
  <2> QED
    BY <1>6, <2>1, <2>2, ChangedIn
<1>11. ReadBy(buf) \cup WrittenBy(buf)
         = {<<"inputs", i>> : i \in a .. a + n - 1}
  BY DEF ReadBy, WrittenBy, Places
<1> QED
  <2> DEFINE h == Handle(buf.fc, old, buf)
  <2>1. h.mem = old /\ h.ans = ans
    BY <1>2 DEF ans
  <2> HIDE DEF h, a, n
  <2>2. MasterExecute(copy, buf, h.ans, FALSE) = g
    BY <2>1 DEF g
  <2> QED
    BY <1>5, <1>9, <1>10, <1>11, <2>1, <2>2 DEF InStep, h

LEMMA ReadHoldingsInStep ==
  ASSUME NEW copy \in Memories, NEW old \in Memories, NEW buf \in Carrying,
         buf.fc = "ReadHoldings", Handle(buf.fc, old, buf).ex = "NONE"
  PROVE  InStep(copy, old, buf)
<1> DEFINE a == buf.addr
           n == buf.word
           data == RegsRead(old.holds, a, n)
           f == RegsWritten(copy.holds, a, n, data)
           new == [copy EXCEPT !.holds = f]
           ans == [fc |-> buf.fc, bytes |-> Len(data), data |-> data,
                   len |-> 2 + Len(data)]
<1>1. a \in Nat /\ n \in Nat /\ NHoldings \in Nat
  BY SizesNat DEF Carrying, Frames
<1>2. /\ n >= 1 /\ a + n <= NHoldings
      /\ Handle(buf.fc, old, buf) = [ex |-> "NONE", mem |-> old, ans |-> ans]
  <2>1. Handle(buf.fc, old, buf) = eMBFuncReadHoldingRegister(old, buf)
    BY DEF Handle
  <2>2. /\ n \in 1 .. ReadRegsMax /\ InRange(a, n, NHoldings)
        /\ eMBFuncReadHoldingRegister(old, buf) = ReadAnswer(old, buf, data)
    BY <2>1 DEF eMBFuncReadHoldingRegister, Read, Refused, BadAddress
  <2>3. n >= 1
    BY <1>1, <2>2
  <2> QED
    BY <2>1, <2>2, <2>3 DEF ReadAnswer, InRange
<1> DEFINE g == MasterExecute(copy, buf, ans, FALSE)
<1>3. old.holds \in Regs(NHoldings) /\ copy.holds \in Regs(NHoldings)
  BY MemoriesIs
<1>4. /\ Len(data) = 2 * buf.word
      /\ \A i \in DOMAIN copy.holds :
           f[i] = IF i \in a .. a + n - 1 THEN old.holds[i] ELSE copy.holds[i]
  <2>1. data = RegsRead(old.holds, a, n)
    OBVIOUS
  <2> DEFINE o == old.holds
             c == copy.holds
  <2>2. a + n <= NHoldings
    BY <1>2
  <2> HIDE DEF a, n, data, o, c
  <2>3. /\ Len(data) = 2 * n
        /\ \A i \in DOMAIN c :
             RegsWritten(c, a, n, data)[i] =
               IF i \in a .. a + n - 1 THEN o[i] ELSE c[i]
    BY <1>1, <1>3, <2>1, <2>2, RegsBack DEF o, c
  <2> QED
    BY <2>3 DEF n, o, c
<1>5. g.ex = "NONE" /\ g.mem = new
  <2>1. ans.fc = "ReadHoldings" /\ ans.bytes = Len(data) /\ ans.data = data
    OBVIOUS
  <2> HIDE DEF ans
  <2>2. g = Store(copy, buf, ans, 2 * buf.word, NHoldings, new)
    BY <2>1 DEF MasterExecute, eMBMasterFuncReadHoldingRegister
  <2> HIDE DEF g, new, data
  <2> QED
    BY <1>1, <1>2, <1>4, <2>1, <2>2 DEF Store, Copied, InRange
<1> HIDE DEF data, f, new, ans, g
<1>6. /\ new["holds"] = f
      /\ old["holds"] = old.holds /\ copy["holds"] = copy.holds
      /\ \A u \in TableNames \ {"holds"} : new[u] = copy[u]
  BY HoldsReplaced DEF new
<1>7. new \in Memories
  <2>1. ans \in Answers
    BY <1>2, HandlerType
  <2>2. ans.fc # "ReadWriteHoldings"
    BY DEF ans
  <2>3. g.mem \in Memories
    BY <2>1, <2>2, MasterHandlerType DEF g
  <2> QED
    BY <1>5, <2>3
<1>8. DOMAIN new["holds"] = DOMAIN copy.holds
  BY <1>3, <1>7, MemoriesIs DEF Regs
<1>9. Differing(new, old) \cap {<<"holds", i>> : i \in a .. a + n - 1} = {}
  <2> DEFINE R == a .. a + n - 1
  <2>1. \A i \in DOMAIN new["holds"] :
          i \in R => new["holds"][i] = old["holds"][i]
    BY <1>4, <1>6, <1>8
  <2> HIDE DEF R
  <2>2. Differing(new, old) \cap {<<"holds", i>> : i \in R} = {}
    BY <2>1, AgreeIn
  <2> QED
    BY <2>2 DEF R
<1>10. Differing(copy, new) \subseteq {<<"holds", i>> : i \in a .. a + n - 1}
  <2>1. \A i \in DOMAIN copy["holds"] :
          i \notin a .. a + n - 1 => new["holds"][i] = copy["holds"][i]
    BY <1>4, <1>6
  <2>2. "holds" \in TableNames
    BY DEF TableNames
  <2> QED
    BY <1>6, <2>1, <2>2, ChangedIn
<1>11. ReadBy(buf) \cup WrittenBy(buf)
         = {<<"holds", i>> : i \in a .. a + n - 1}
  BY DEF ReadBy, WrittenBy, Places
<1> QED
  <2> DEFINE h == Handle(buf.fc, old, buf)
  <2>1. h.mem = old /\ h.ans = ans
    BY <1>2 DEF ans
  <2> HIDE DEF h, a, n
  <2>2. MasterExecute(copy, buf, h.ans, FALSE) = g
    BY <2>1 DEF g
  <2> QED
    BY <1>5, <1>9, <1>10, <1>11, <2>1, <2>2 DEF InStep, h


\* Registers that are written to two arrays.
LEMMA RegsBoth ==
  ASSUME NEW size \in Nat, NEW old \in Regs(size), NEW copy \in Regs(size),
         NEW addr \in Nat, NEW n \in Nat, NEW data
  PROVE  \A i \in DOMAIN copy :
           RegsWritten(copy, addr, n, data)[i] =
             IF i \in addr .. addr + n - 1
             THEN RegsWritten(old, addr, n, data)[i] ELSE copy[i]
BY DEF RegsWritten, Regs

(* The master takes the answer, and a broadcast alike. *)
WriteInStep(copy, old, buf) ==
  /\ InStep(copy, old, buf)
  /\ MasterExecute(copy, buf, buf, TRUE)
       = MasterExecute(copy, buf, Handle(buf.fc, old, buf).ans, FALSE)

LEMMA WriteCoilInStep ==
  ASSUME NEW copy \in Memories, NEW old \in Memories, NEW buf \in Carrying,
         BuiltFrame(buf),
         buf.fc = "WriteCoil", Handle(buf.fc, old, buf).ex = "NONE"
  PROVE  WriteInStep(copy, old, buf)
<1> DEFINE a == buf.addr
           n == 1
           data == <<ByteOf(IF buf.word = CoilOn THEN 1 ELSE 0)>>
           f == BitsWritten(copy.coils, a, n, data)
           f2 == BitsWritten(old.coils, a, n, data)
           new == [copy EXCEPT !.coils = f]
           done == [old EXCEPT !.coils = f2]
           ans == [fc |-> buf.fc, addr |-> buf.addr, word |-> buf.word,
                   len |-> 5]
           g == MasterExecute(copy, buf, ans, FALSE)
           R == a .. a + n - 1
<1>1. a \in Nat /\ n \in Nat /\ NCoils \in Nat
  BY SizesNat DEF Carrying, Frames
<1>2. /\ buf.len = 5 /\ buf.word \in {0, CoilOn} /\ a + n <= NCoils
      /\ Handle(buf.fc, old, buf) = [ex |-> "NONE", mem |-> done, ans |-> ans]
  <2>1. Handle(buf.fc, old, buf) = eMBFuncWriteCoil(old, buf)
    BY DEF Handle
  <2>2. /\ buf.len = 5 /\ buf.word \in {0, CoilOn} /\ InRange(a, n, NCoils)
        /\ eMBFuncWriteCoil(old, buf) = Done(done, buf)
    BY <2>1 DEF eMBFuncWriteCoil, Refused, BadAddress
  <2> QED
    BY <2>1, <2>2 DEF Done, InRange
<1>3. old.coils \in Bits(NCoils) /\ copy.coils \in Bits(NCoils)
  BY MemoriesIs
<1>4. /\ \A i \in DOMAIN copy.coils : i \in R => f[i] = f2[i]
      /\ PaddedFrame(buf) =>
           \A i \in DOMAIN copy.coils : i \notin R => f[i] = copy.coils[i]
  <2> DEFINE o == old.coils
             c == copy.coils
  <2>1. PaddedFrame(buf) => Padded(data, n)
    BY OneBitPadded
  <2> HIDE DEF a, n, data, o, c
  <2>2. /\ \A i \in DOMAIN c :
             i \in a .. a + n - 1 =>
               BitsWritten(c, a, n, data)[i] = BitsWritten(o, a, n, data)[i]
        /\ Padded(data, n) =>
             \A i \in DOMAIN c :
               i \notin a .. a + n - 1 => BitsWritten(c, a, n, data)[i] = c[i]
    BY <1>1, <1>3, BitsBoth DEF o, c
  <2> QED
    BY <2>1, <2>2 DEF o, c
<1>5. g = Copied(new) /\ MasterExecute(copy, buf, buf, TRUE) = Copied(new)
  <2>1. /\ ans.fc = "WriteCoil" /\ ans.addr = a /\ ans.word = buf.word
        /\ ans.len = 5
    OBVIOUS
  <2> HIDE DEF ans
  <2>2. /\ g = eMBMasterFuncWriteCoil(copy, buf, ans)
        /\ MasterExecute(copy, buf, buf, TRUE)
             = eMBMasterFuncWriteCoil(copy, buf, buf)
    BY <2>1 DEF MasterExecute
  <2>3. InRange(a, n, NCoils)
    BY <1>2 DEF InRange
  <2>4. eMBMasterFuncWriteCoil(copy, buf, ans) = Copied(new)
    BY <1>1, <1>2, <2>1, <2>3 DEF eMBMasterFuncWriteCoil
  <2>5. eMBMasterFuncWriteCoil(copy, buf, buf) = Copied(new)
    BY <1>1, <1>2, <2>3 DEF eMBMasterFuncWriteCoil
  <2> QED
    BY <2>2, <2>4, <2>5
<1> HIDE DEF data, f, f2, new, done, ans, g, R
<1>6. g.ex = "NONE" /\ g.mem = new
  BY <1>5 DEF Copied
<1>7. /\ new["coils"] = f /\ copy["coils"] = copy.coils /\ done["coils"] = f2
      /\ \A u \in TableNames \ {"coils"} : new[u] = copy[u]
  BY CoilsReplaced DEF new, done
<1>8. new \in Memories
  <2>1. ans \in Answers
    BY <1>2, HandlerType
  <2>2. ans.fc # "ReadWriteHoldings"
    BY DEF ans
  <2>3. g.mem \in Memories
    BY <2>1, <2>2, MasterHandlerType DEF g
  <2> QED
    BY <1>6, <2>3
<1>9. DOMAIN new["coils"] = DOMAIN copy.coils
  BY <1>3, <1>8, MemoriesIs DEF Bits
<1>10. Differing(new, done) \cap {<<"coils", i>> : i \in R} = {}
  <2>1. \A i \in DOMAIN new["coils"] :
          i \in R => new["coils"][i] = done["coils"][i]
    BY <1>4, <1>7, <1>9
  <2> QED
    BY <2>1, AgreeIn
<1>11. PaddedFrame(buf) =>
         Differing(copy, new) \subseteq {<<"coils", i>> : i \in R}
  <2> SUFFICES ASSUME PaddedFrame(buf)
               PROVE  Differing(copy, new) \subseteq {<<"coils", i>> : i \in R}
    OBVIOUS
  <2>1. \A i \in DOMAIN copy["coils"] :
          i \notin R => new["coils"][i] = copy["coils"][i]
    BY <1>4, <1>7
  <2>2. "coils" \in TableNames
    BY DEF TableNames
  <2> QED
    BY <1>7, <2>1, <2>2, ChangedIn
<1>12. ReadBy(buf) \cup WrittenBy(buf) = {<<"coils", i>> : i \in R}
  BY DEF ReadBy, WrittenBy, Places, R
<1> QED
  <2> DEFINE h == Handle(buf.fc, old, buf)
  <2>1. h.mem = done /\ h.ans = ans
    BY <1>2
  <2> HIDE DEF h
  <2>2. MasterExecute(copy, buf, h.ans, FALSE) = g
    BY <2>1 DEF g
  <2>3. InStep(copy, old, buf)
    BY <1>6, <1>10, <1>11, <1>12, <2>1, <2>2 DEF InStep, h
  <2> QED
    BY <1>5, <2>2, <2>3 DEF WriteInStep, h

LEMMA WriteCoilsInStep ==
  ASSUME NEW copy \in Memories, NEW old \in Memories, NEW buf \in Carrying,
         BuiltFrame(buf),
         buf.fc = "WriteCoils", Handle(buf.fc, old, buf).ex = "NONE"
  PROVE  WriteInStep(copy, old, buf)
<1> DEFINE a == buf.addr
           n == buf.word
           data == buf.data
           f == BitsWritten(copy.coils, a, n, data)
           f2 == BitsWritten(old.coils, a, n, data)
           new == [copy EXCEPT !.coils = f]
           done == [old EXCEPT !.coils = f2]
           ans == [fc |-> buf.fc, addr |-> buf.addr, word |-> buf.word,
                   len |-> 5]
           g == MasterExecute(copy, buf, ans, FALSE)
           R == a .. a + n - 1
<1>1. a \in Nat /\ n \in Nat /\ NCoils \in Nat
  BY SizesNat DEF Carrying, Frames
<1>2. /\ n >= 1 /\ buf.bytes = ByteCount(n) /\ a + n <= NCoils
      /\ Handle(buf.fc, old, buf) = [ex |-> "NONE", mem |-> done, ans |-> ans]
  <2>1. Handle(buf.fc, old, buf) = eMBFuncWriteMultipleCoils(old, buf)
    BY DEF Handle
  <2>2. /\ n >= 1 /\ buf.bytes = ByteCount(n) /\ InRange(a, n, NCoils)
        /\ eMBFuncWriteMultipleCoils(old, buf) = Done(done, buf)
    BY <2>1, <1>1 DEF eMBFuncWriteMultipleCoils, Refused, BadAddress
  <2> QED
    BY <2>1, <2>2 DEF Done, InRange
<1>3. old.coils \in Bits(NCoils) /\ copy.coils \in Bits(NCoils)
  BY MemoriesIs
<1>4. /\ \A i \in DOMAIN copy.coils : i \in R => f[i] = f2[i]
      /\ PaddedFrame(buf) =>
           \A i \in DOMAIN copy.coils : i \notin R => f[i] = copy.coils[i]
  <2> DEFINE o == old.coils
             c == copy.coils
  <2>1. PaddedFrame(buf) => Padded(data, n)
    BY <1>2 DEF PaddedFrame
  <2> HIDE DEF a, n, data, o, c
  <2>2. /\ \A i \in DOMAIN c :
             i \in a .. a + n - 1 =>
               BitsWritten(c, a, n, data)[i] = BitsWritten(o, a, n, data)[i]
        /\ Padded(data, n) =>
             \A i \in DOMAIN c :
               i \notin a .. a + n - 1 => BitsWritten(c, a, n, data)[i] = c[i]
    BY <1>1, <1>3, BitsBoth DEF o, c
  <2> QED
    BY <2>1, <2>2 DEF o, c
<1>5. g = Copied(new) /\ MasterExecute(copy, buf, buf, TRUE) = Copied(new)
  <2>1. /\ ans.fc = "WriteCoils" /\ ans.addr = a /\ ans.word = buf.word
        /\ ans.len = 5
    OBVIOUS
  <2> HIDE DEF ans
  <2>2. /\ g = eMBMasterFuncWriteMultipleCoils(copy, buf, ans, FALSE)
        /\ MasterExecute(copy, buf, buf, TRUE)
             = eMBMasterFuncWriteMultipleCoils(copy, buf, buf, TRUE)
    BY <2>1 DEF MasterExecute
  <2>3. InRange(a, n, NCoils)
    BY <1>2 DEF InRange
  <2>4. eMBMasterFuncWriteMultipleCoils(copy, buf, ans, FALSE) = Copied(new)
    BY <1>1, <1>2, <2>1, <2>3
       DEF eMBMasterFuncWriteMultipleCoils, ByteCountSent,
           BuiltFrame
  <2>5. eMBMasterFuncWriteMultipleCoils(copy, buf, buf, TRUE) = Copied(new)
    BY <1>1, <1>2, <2>3
       DEF eMBMasterFuncWriteMultipleCoils, ByteCountSent,
           BuiltFrame
  <2> QED
    BY <2>2, <2>4, <2>5
<1> HIDE DEF data, f, f2, new, done, ans, g, R
<1>6. g.ex = "NONE" /\ g.mem = new
  BY <1>5 DEF Copied
<1>7. /\ new["coils"] = f /\ copy["coils"] = copy.coils /\ done["coils"] = f2
      /\ \A u \in TableNames \ {"coils"} : new[u] = copy[u]
  BY CoilsReplaced DEF new, done
<1>8. new \in Memories
  <2>1. ans \in Answers
    BY <1>2, HandlerType
  <2>2. ans.fc # "ReadWriteHoldings"
    BY DEF ans
  <2>3. g.mem \in Memories
    BY <2>1, <2>2, MasterHandlerType DEF g
  <2> QED
    BY <1>6, <2>3
<1>9. DOMAIN new["coils"] = DOMAIN copy.coils
  BY <1>3, <1>8, MemoriesIs DEF Bits
<1>10. Differing(new, done) \cap {<<"coils", i>> : i \in R} = {}
  <2>1. \A i \in DOMAIN new["coils"] :
          i \in R => new["coils"][i] = done["coils"][i]
    BY <1>4, <1>7, <1>9
  <2> QED
    BY <2>1, AgreeIn
<1>11. PaddedFrame(buf) =>
         Differing(copy, new) \subseteq {<<"coils", i>> : i \in R}
  <2> SUFFICES ASSUME PaddedFrame(buf)
               PROVE  Differing(copy, new) \subseteq {<<"coils", i>> : i \in R}
    OBVIOUS
  <2>1. \A i \in DOMAIN copy["coils"] :
          i \notin R => new["coils"][i] = copy["coils"][i]
    BY <1>4, <1>7
  <2>2. "coils" \in TableNames
    BY DEF TableNames
  <2> QED
    BY <1>7, <2>1, <2>2, ChangedIn
<1>12. ReadBy(buf) \cup WrittenBy(buf) = {<<"coils", i>> : i \in R}
  BY DEF ReadBy, WrittenBy, Places, R
<1> QED
  <2> DEFINE h == Handle(buf.fc, old, buf)
  <2>1. h.mem = done /\ h.ans = ans
    BY <1>2
  <2> HIDE DEF h
  <2>2. MasterExecute(copy, buf, h.ans, FALSE) = g
    BY <2>1 DEF g
  <2>3. InStep(copy, old, buf)
    BY <1>6, <1>10, <1>11, <1>12, <2>1, <2>2 DEF InStep, h
  <2> QED
    BY <1>5, <2>2, <2>3 DEF WriteInStep, h

LEMMA WriteHoldingInStep ==
  ASSUME NEW copy \in Memories, NEW old \in Memories, NEW buf \in Carrying,
         BuiltFrame(buf),
         buf.fc = "WriteHolding", Handle(buf.fc, old, buf).ex = "NONE"
  PROVE  WriteInStep(copy, old, buf)
<1> DEFINE a == buf.addr
           n == 1
           data == WordOf(buf.word)
           f == RegsWritten(copy.holds, a, n, data)
           f2 == RegsWritten(old.holds, a, n, data)
           new == [copy EXCEPT !.holds = f]
           done == [old EXCEPT !.holds = f2]
           ans == [fc |-> buf.fc, addr |-> buf.addr, word |-> buf.word,
                   len |-> 5]
           g == MasterExecute(copy, buf, ans, FALSE)
           R == a .. a + n - 1
<1>1. a \in Nat /\ n \in Nat /\ NHoldings \in Nat
  BY SizesNat DEF Carrying, Frames
<1>2. /\ buf.len = 5 /\ a + n <= NHoldings
      /\ Handle(buf.fc, old, buf) = [ex |-> "NONE", mem |-> done, ans |-> ans]
  <2>1. Handle(buf.fc, old, buf) = eMBFuncWriteHoldingRegister(old, buf)
    BY DEF Handle
  <2>2. /\ buf.len = 5 /\ InRange(a, n, NHoldings)
        /\ eMBFuncWriteHoldingRegister(old, buf) = Done(done, buf)
    BY <2>1 DEF eMBFuncWriteHoldingRegister, Refused, BadAddress
  <2> QED
    BY <2>1, <2>2 DEF Done, InRange
<1>3. old.holds \in Regs(NHoldings) /\ copy.holds \in Regs(NHoldings)
  BY MemoriesIs
<1>4. \A i \in DOMAIN copy.holds :
        f[i] = IF i \in R THEN f2[i] ELSE copy.holds[i]
  <2> DEFINE o == old.holds
             c == copy.holds
  <2> HIDE DEF a, n, data, o, c
  <2>1. \A i \in DOMAIN c :
          RegsWritten(c, a, n, data)[i] =
            IF i \in a .. a + n - 1
            THEN RegsWritten(o, a, n, data)[i] ELSE c[i]
    BY <1>1, <1>3, RegsBoth DEF o, c
  <2> QED
    BY <2>1 DEF o, c
<1>5. g = Copied(new) /\ MasterExecute(copy, buf, buf, TRUE) = Copied(new)
  <2>1. /\ ans.fc = "WriteHolding" /\ ans.addr = a /\ ans.word = buf.word
        /\ ans.len = 5
    OBVIOUS
  <2> HIDE DEF ans
  <2>2. /\ g = eMBMasterFuncWriteHoldingRegister(copy, buf, ans)
        /\ MasterExecute(copy, buf, buf, TRUE)
             = eMBMasterFuncWriteHoldingRegister(copy, buf, buf)
    BY <2>1 DEF MasterExecute
  <2>3. InRange(a, n, NHoldings)
    BY <1>2 DEF InRange
  <2>4. eMBMasterFuncWriteHoldingRegister(copy, buf, ans) = Copied(new)
    BY <1>1, <1>2, <2>1, <2>3 DEF eMBMasterFuncWriteHoldingRegister
  <2>5. eMBMasterFuncWriteHoldingRegister(copy, buf, buf) = Copied(new)
    BY <1>1, <1>2, <2>3 DEF eMBMasterFuncWriteHoldingRegister
  <2> QED
    BY <2>2, <2>4, <2>5
<1> HIDE DEF data, f, f2, new, done, ans, g, R
<1>6. g.ex = "NONE" /\ g.mem = new
  BY <1>5 DEF Copied
<1>7. /\ new["holds"] = f /\ copy["holds"] = copy.holds /\ done["holds"] = f2
      /\ \A u \in TableNames \ {"holds"} : new[u] = copy[u]
  BY HoldsReplaced DEF new, done
<1>8. new \in Memories
  <2>1. ans \in Answers
    BY <1>2, HandlerType
  <2>2. ans.fc # "ReadWriteHoldings"
    BY DEF ans
  <2>3. g.mem \in Memories
    BY <2>1, <2>2, MasterHandlerType DEF g
  <2> QED
    BY <1>6, <2>3
<1>9. DOMAIN new["holds"] = DOMAIN copy.holds
  BY <1>3, <1>8, MemoriesIs DEF Regs
<1>10. Differing(new, done) \cap {<<"holds", i>> : i \in R} = {}
  <2>1. \A i \in DOMAIN new["holds"] :
          i \in R => new["holds"][i] = done["holds"][i]
    BY <1>4, <1>7, <1>9
  <2> QED
    BY <2>1, AgreeIn
<1>11. PaddedFrame(buf) =>
         Differing(copy, new) \subseteq {<<"holds", i>> : i \in R}
  <2> SUFFICES ASSUME PaddedFrame(buf)
               PROVE  Differing(copy, new) \subseteq {<<"holds", i>> : i \in R}
    OBVIOUS
  <2>1. \A i \in DOMAIN copy["holds"] :
          i \notin R => new["holds"][i] = copy["holds"][i]
    BY <1>4, <1>7
  <2>2. "holds" \in TableNames
    BY DEF TableNames
  <2> QED
    BY <1>7, <2>1, <2>2, ChangedIn
<1>12. ReadBy(buf) \cup WrittenBy(buf) = {<<"holds", i>> : i \in R}
  BY DEF ReadBy, WrittenBy, Places, R
<1> QED
  <2> DEFINE h == Handle(buf.fc, old, buf)
  <2>1. h.mem = done /\ h.ans = ans
    BY <1>2
  <2> HIDE DEF h
  <2>2. MasterExecute(copy, buf, h.ans, FALSE) = g
    BY <2>1 DEF g
  <2>3. InStep(copy, old, buf)
    BY <1>6, <1>10, <1>11, <1>12, <2>1, <2>2 DEF InStep, h
  <2> QED
    BY <1>5, <2>2, <2>3 DEF WriteInStep, h

LEMMA WriteHoldingsInStep ==
  ASSUME NEW copy \in Memories, NEW old \in Memories, NEW buf \in Carrying,
         BuiltFrame(buf),
         buf.fc = "WriteHoldings", Handle(buf.fc, old, buf).ex = "NONE"
  PROVE  WriteInStep(copy, old, buf)
<1> DEFINE a == buf.addr
           n == buf.word
           data == buf.data
           f == RegsWritten(copy.holds, a, n, data)
           f2 == RegsWritten(old.holds, a, n, data)
           new == [copy EXCEPT !.holds = f]
           done == [old EXCEPT !.holds = f2]
           ans == [fc |-> buf.fc, addr |-> buf.addr, word |-> buf.word,
                   len |-> 5]
           g == MasterExecute(copy, buf, ans, FALSE)
           R == a .. a + n - 1
<1>1. a \in Nat /\ n \in Nat /\ NHoldings \in Nat
  BY SizesNat DEF Carrying, Frames
<1>2. /\ n >= 1 /\ buf.bytes = 2 * n /\ a + n <= NHoldings
      /\ Handle(buf.fc, old, buf) = [ex |-> "NONE", mem |-> done, ans |-> ans]
  <2>1. Handle(buf.fc, old, buf) = eMBFuncWriteMultipleHoldingRegister(old, buf)
    BY DEF Handle
  <2>2. /\ n >= 1 /\ buf.bytes = 2 * n /\ InRange(a, n, NHoldings)
        /\ eMBFuncWriteMultipleHoldingRegister(old, buf) = Done(done, buf)
    BY <2>1, <1>1 DEF eMBFuncWriteMultipleHoldingRegister, Refused, BadAddress
  <2> QED
    BY <2>1, <2>2 DEF Done, InRange
<1>3. old.holds \in Regs(NHoldings) /\ copy.holds \in Regs(NHoldings)
  BY MemoriesIs
<1>4. \A i \in DOMAIN copy.holds :
        f[i] = IF i \in R THEN f2[i] ELSE copy.holds[i]
  <2> DEFINE o == old.holds
             c == copy.holds
  <2> HIDE DEF a, n, data, o, c
  <2>1. \A i \in DOMAIN c :
          RegsWritten(c, a, n, data)[i] =
            IF i \in a .. a + n - 1
            THEN RegsWritten(o, a, n, data)[i] ELSE c[i]
    BY <1>1, <1>3, RegsBoth DEF o, c
  <2> QED
    BY <2>1 DEF o, c
<1>5. g = Copied(new) /\ MasterExecute(copy, buf, buf, TRUE) = Copied(new)
  <2>1. /\ ans.fc = "WriteHoldings" /\ ans.addr = a /\ ans.word = buf.word
        /\ ans.len = 5
    OBVIOUS
  <2> HIDE DEF ans
  <2>2. /\ g = eMBMasterFuncWriteMultipleHoldingRegister(copy, buf, ans, FALSE)
        /\ MasterExecute(copy, buf, buf, TRUE)
             = eMBMasterFuncWriteMultipleHoldingRegister(copy, buf, buf, TRUE)
    BY <2>1 DEF MasterExecute
  <2>3. InRange(a, n, NHoldings)
    BY <1>2 DEF InRange
  <2>4. eMBMasterFuncWriteMultipleHoldingRegister(copy, buf, ans, FALSE)
          = Copied(new)
    BY <1>1, <1>2, <2>1, <2>3
       DEF eMBMasterFuncWriteMultipleHoldingRegister, ByteCountSent,
           BuiltFrame
  <2>5. eMBMasterFuncWriteMultipleHoldingRegister(copy, buf, buf, TRUE)
          = Copied(new)
    BY <1>1, <1>2, <2>3
       DEF eMBMasterFuncWriteMultipleHoldingRegister, ByteCountSent,
           BuiltFrame
  <2> QED
    BY <2>2, <2>4, <2>5
<1> HIDE DEF data, f, f2, new, done, ans, g, R
<1>6. g.ex = "NONE" /\ g.mem = new
  BY <1>5 DEF Copied
<1>7. /\ new["holds"] = f /\ copy["holds"] = copy.holds /\ done["holds"] = f2
      /\ \A u \in TableNames \ {"holds"} : new[u] = copy[u]
  BY HoldsReplaced DEF new, done
<1>8. new \in Memories
  <2>1. ans \in Answers
    BY <1>2, HandlerType
  <2>2. ans.fc # "ReadWriteHoldings"
    BY DEF ans
  <2>3. g.mem \in Memories
    BY <2>1, <2>2, MasterHandlerType DEF g
  <2> QED
    BY <1>6, <2>3
<1>9. DOMAIN new["holds"] = DOMAIN copy.holds
  BY <1>3, <1>8, MemoriesIs DEF Regs
<1>10. Differing(new, done) \cap {<<"holds", i>> : i \in R} = {}
  <2>1. \A i \in DOMAIN new["holds"] :
          i \in R => new["holds"][i] = done["holds"][i]
    BY <1>4, <1>7, <1>9
  <2> QED
    BY <2>1, AgreeIn
<1>11. PaddedFrame(buf) =>
         Differing(copy, new) \subseteq {<<"holds", i>> : i \in R}
  <2> SUFFICES ASSUME PaddedFrame(buf)
               PROVE  Differing(copy, new) \subseteq {<<"holds", i>> : i \in R}
    OBVIOUS
  <2>1. \A i \in DOMAIN copy["holds"] :
          i \notin R => new["holds"][i] = copy["holds"][i]
    BY <1>4, <1>7
  <2>2. "holds" \in TableNames
    BY DEF TableNames
  <2> QED
    BY <1>7, <2>1, <2>2, ChangedIn
<1>12. ReadBy(buf) \cup WrittenBy(buf) = {<<"holds", i>> : i \in R}
  BY DEF ReadBy, WrittenBy, Places, R
<1> QED
  <2> DEFINE h == Handle(buf.fc, old, buf)
  <2>1. h.mem = done /\ h.ans = ans
    BY <1>2
  <2> HIDE DEF h
  <2>2. MasterExecute(copy, buf, h.ans, FALSE) = g
    BY <2>1 DEF g
  <2>3. InStep(copy, old, buf)
    BY <1>6, <1>10, <1>11, <1>12, <2>1, <2>2 DEF InStep, h
  <2> QED
    BY <1>5, <2>2, <2>3 DEF WriteInStep, h


LEMMA ReadWriteHoldingsInStep ==
  ASSUME NEW copy \in Memories, NEW old \in Memories, NEW buf \in Carrying,
         BuiltFrame(buf), buf.fc = "ReadWriteHoldings",
         Handle(buf.fc, old, buf).ex = "NONE"
  PROVE  InStep(copy, old, buf)
<1> DEFINE a == buf.addr
           n == buf.word
           wa == buf.waddr
           wn == buf.wcnt
           w == RegsWritten(old.holds, wa, wn, buf.data)
           done == [old EXCEPT !.holds = w]
           data == RegsRead(done.holds, a, n)
           ans == [fc |-> buf.fc, bytes |-> Len(data), data |-> data,
                   len |-> 2 + Len(data)]
           c == RegsWritten(copy.holds, wa, wn, buf.data)
           mid == [copy EXCEPT !.holds = c]
           f == RegsWritten(mid.holds, a, n, data)
           new == [mid EXCEPT !.holds = f]
           g == MasterExecute(copy, buf, ans, FALSE)
           R == (a .. a + n - 1) \cup (wa .. wa + wn - 1)
<1>1. /\ a \in Nat /\ n \in Nat /\ wa \in Nat /\ wn \in Nat
      /\ NHoldings \in Nat /\ buf.data \in Seq(Byte)
      /\ buf.bytes = 2 * wn /\ Len(buf.data) >= 2 * wn /\ buf.len >= 10
  BY SizesNat DEF Carrying, Frames, BuiltFrame
<1>2. /\ n >= 1 /\ a + n <= NHoldings /\ wa + wn <= NHoldings
      /\ Handle(buf.fc, old, buf) = [ex |-> "NONE", mem |-> done, ans |-> ans]
  <2> DEFINE sf == eMBFuncReadWriteMultipleHoldingRegister(old, buf)
  <2>1. Handle(buf.fc, old, buf) = sf
    BY DEF Handle
  <2>2. /\ n \in 1 .. ReadRegsMax
        /\ InRange(a, n, NHoldings) /\ InRange(wa, wn, NHoldings)
        /\ sf = ReadAnswer(done, buf, data)
    <3> USE DEF eMBFuncReadWriteMultipleHoldingRegister
    <3>0. ~(buf.len < 10)
      <4>1. buf.len \in Nat /\ buf.len >= 10
        BY <1>1 DEF Carrying, Frames
      <4> QED
        BY <4>1
    <3>1. sf.ex = "NONE" /\ ~(buf.len < 10)
      <4> HIDE DEF sf
      <4> QED
        BY <2>1, <3>0
    <3>2. /\ n \in 1 .. ReadRegsMax /\ wn \in 1 .. RWWriteMax
          /\ buf.bytes = 2 * wn
      BY <3>1 DEF Refused
    <3>3. InRange(wa, wn, NHoldings)
      BY <3>1, <3>2 DEF Refused, BadAddress
    <3>4. InRange(a, n, NHoldings)
      BY <3>1, <3>2, <3>3 DEF Refused, BadAddress
    <3>5. sf = ReadAnswer(done, buf, data)
      BY <3>1, <3>2, <3>3, <3>4
    <3> QED
      BY <3>2, <3>3, <3>4, <3>5
  <2>3. n >= 1
    BY <1>1, <2>2
  <2> HIDE DEF sf
  <2> QED
    BY <2>1, <2>2, <2>3 DEF ReadAnswer, InRange
<1>3. old.holds \in Regs(NHoldings) /\ copy.holds \in Regs(NHoldings)
  BY MemoriesIs
<1>4. w \in Regs(NHoldings) /\ c \in Regs(NHoldings)
  BY <1>1, <1>3, RegsStored
<1>5. ans.fc = buf.fc /\ ans.bytes = Len(data) /\ ans.data = data
  OBVIOUS
<1> HIDE DEF ans
<1>6. done \in Memories /\ mid \in Memories
  BY <1>4, HoldsType
<1>7. done.holds = w /\ mid.holds = c
  BY MemoriesIs
<1>8. /\ Len(data) = 2 * n
      /\ \A i \in DOMAIN c :
           f[i] = IF i \in a .. a + n - 1 THEN w[i] ELSE c[i]
  <2>1. data = RegsRead(w, a, n) /\ f = RegsWritten(c, a, n, data)
    BY <1>7
  <2>3. a \in Nat /\ n \in Nat /\ a + n <= NHoldings /\ NHoldings \in Nat
    BY <1>1, <1>2
  <2> HIDE DEF a, n, data, w, c, f
  <2>2. /\ Len(data) = 2 * n
        /\ \A i \in DOMAIN c :
             RegsWritten(c, a, n, data)[i] =
               IF i \in a .. a + n - 1 THEN w[i] ELSE c[i]
    BY <1>4, <2>1, <2>3, RegsBack
  <2> QED
    BY <2>1, <2>2
<1>9. g = Copied(new)
  <2>1. g = eMBMasterFuncReadWriteMultipleHoldingRegister(copy, buf, ans)
    BY <1>5 DEF MasterExecute
  <2>2. InRange(a, n, NHoldings) /\ InRange(wa, wn, NHoldings)
    BY <1>2 DEF InRange
  <2>3. ans.bytes = 2 * buf.word
    BY <1>5, <1>8
  <2>4. eMBMasterFuncReadWriteMultipleHoldingRegister(copy, buf, ans)
          = Copied([mid EXCEPT !.holds =
                      RegsWritten(@, a, n, ans.data)])
    <3> HIDE DEF data, g
    <3> QED
      BY <2>2, <2>3 DEF eMBMasterFuncReadWriteMultipleHoldingRegister
  <2>5. [mid EXCEPT !.holds = RegsWritten(@, a, n, ans.data)] = new
    BY <1>5
  <2> HIDE DEF new, g
  <2> QED
    BY <2>1, <2>4, <2>5
<1>10. \A i \in DOMAIN copy.holds :
         c[i] = IF i \in wa .. wa + wn - 1 THEN w[i] ELSE copy.holds[i]
  <2> DEFINE o == old.holds
             k == copy.holds
             d == buf.data
  <2>1. o \in Regs(NHoldings) /\ k \in Regs(NHoldings)
    BY <1>3
  <2>2. w = RegsWritten(o, wa, wn, d) /\ c = RegsWritten(k, wa, wn, d)
    OBVIOUS
  <2> HIDE DEF o, k, d, wa, wn, w, c
  <2>3. \A i \in DOMAIN k :
          RegsWritten(k, wa, wn, d)[i] =
            IF i \in wa .. wa + wn - 1
            THEN RegsWritten(o, wa, wn, d)[i] ELSE k[i]
    BY <1>1, <2>1, RegsBoth
  <2> QED
    BY <2>2, <2>3 DEF k
<1>11. DOMAIN c = DOMAIN copy.holds
  BY DEF RegsWritten
<1> HIDE DEF data, w, done, c, mid, f, new, g
<1>12. \A i \in DOMAIN copy.holds :
         f[i] = IF i \in R THEN w[i] ELSE copy.holds[i]
  <2> HIDE DEF a, n, wa, wn
  <2> QED
    BY <1>8, <1>10, <1>11
<1> HIDE DEF R
<1>13. g.ex = "NONE" /\ g.mem = new
  BY <1>9 DEF Copied
<1>14. /\ new["holds"] = f /\ copy["holds"] = copy.holds /\ done["holds"] = w
       /\ \A u \in TableNames \ {"holds"} : new[u] = copy[u]
  <2>1. /\ new["holds"] = f
        /\ \A u \in TableNames \ {"holds"} : new[u] = mid[u]
    BY <1>6, HoldsReplaced DEF new
  <2>2. \A u \in TableNames \ {"holds"} : mid[u] = copy[u]
    BY HoldsReplaced DEF mid
  <2>3. done["holds"] = w
    BY HoldsReplaced DEF done
  <2> QED
    BY <2>1, <2>2, <2>3
<1>15. new \in Memories
  <2>1. ans \in Answers
    BY <1>2, HandlerType
  <2>2. ans.fc = "ReadWriteHoldings" => Len(buf.data) >= 2 * buf.wcnt
    BY <1>1
  <2>3. g.mem \in Memories
    BY <2>1, <2>2, MasterHandlerType DEF g
  <2> QED
    BY <1>13, <2>3
<1>16. DOMAIN new["holds"] = DOMAIN copy.holds
  BY <1>3, <1>15, MemoriesIs DEF Regs
<1>17. Differing(new, done) \cap {<<"holds", i>> : i \in R} = {}
  <2>1. \A i \in DOMAIN new["holds"] :
          i \in R => new["holds"][i] = done["holds"][i]
    BY <1>12, <1>14, <1>16
  <2> QED
    BY <2>1, AgreeIn
<1>18. Differing(copy, new) \subseteq {<<"holds", i>> : i \in R}
  <2>1. \A i \in DOMAIN copy["holds"] :
          i \notin R => new["holds"][i] = copy["holds"][i]
    BY <1>12, <1>14
  <2>2. "holds" \in TableNames
    BY DEF TableNames
  <2> QED
    BY <1>14, <2>1, <2>2, ChangedIn
<1>19. ReadBy(buf) \cup WrittenBy(buf) = {<<"holds", i>> : i \in R}
  <2>1. /\ ReadBy(buf) = {<<"holds", i>> : i \in a .. a + n - 1}
        /\ WrittenBy(buf) = {<<"holds", i>> : i \in wa .. wa + wn - 1}
    BY DEF ReadBy, WrittenBy, Places
  <2> DEFINE RR == a .. a + n - 1
             WR == wa .. wa + wn - 1
  <2>2. R = RR \cup WR
    BY DEF R
  <2> HIDE DEF RR, WR
  <2> QED
    BY <2>1, <2>2 DEF RR, WR
<1> QED
  <2> DEFINE h == Handle(buf.fc, old, buf)
  <2>1. h.mem = done /\ h.ans = ans
    BY <1>2
  <2> HIDE DEF h
  <2>2. MasterExecute(copy, buf, h.ans, FALSE) = g
    BY <2>1 DEF g
  <2> QED
    BY <1>13, <1>17, <1>18, <1>19, <2>1, <2>2 DEF InStep, h

\* The answer of any request that the slave carries out is understood.
LEMMA AnswerInStep ==
  ASSUME NEW copy \in Memories, NEW old \in Memories, NEW buf \in Carrying,
         BuiltFrame(buf), Handle(buf.fc, old, buf).ex = "NONE"
  PROVE  /\ InStep(copy, old, buf)
         /\ buf.fc \notin Reads => WriteInStep(copy, old, buf)
<1>1. buf.fc \in Functions
  BY DEF Carrying, Frames
<1>2. CASE buf.fc \in {"WriteCoil", "WriteCoils", "WriteHolding",
                       "WriteHoldings"}
  <2>1. WriteInStep(copy, old, buf)
    BY <1>2, WriteCoilInStep, WriteCoilsInStep, WriteHoldingInStep,
       WriteHoldingsInStep
  <2> QED
    BY <2>1 DEF WriteInStep
<1>3. CASE buf.fc \in Reads
  <2>1. InStep(copy, old, buf)
    BY <1>3, ReadCoilsInStep, ReadDiscretesInStep, ReadInputsInStep,
       ReadHoldingsInStep, ReadWriteHoldingsInStep DEF Reads
  <2> QED
    BY <1>3, <2>1
<1> QED
  BY <1>1, <1>2, <1>3 DEF Functions, Reads

\* The outcome g of an answer m to the last request: an exception leaves
\* the copy alone, any other answer is stored where the request reads or
\* writes, as the slave had it.
Outcome(m, g) ==
  LET places == ReadBy(sndBuf) \cup WrittenBy(sndBuf)
  IN  \/ /\ m.pdu.fc = "exception"
         /\ g.ex # "NONE" /\ g.mem = copies[1]
      \/ /\ m.pdu.fc # "exception"
         /\ g.ex = "NONE"
         /\ Differing(g.mem, served.memory) \cap places = {}
         /\ PaddedFrame(sndBuf) =>
              Differing(copies[1], g.mem) \subseteq places

\* What the master makes of an answer to its last request.
LEMMA AnswerReceived ==
  ASSUME ExchangeInv, Receive, NEW m, m = Head(toMaster), m.n = asked,
         NEW g, g = MasterExecute(copies[1], sndBuf, m.pdu, FALSE)
  PROVE  Outcome(m, g)
<1> DEFINE places == ReadBy(sndBuf) \cup WrittenBy(sndBuf)
<1>1. toMaster # <<>>
  BY DEF Receive
<1>2. m \in Range(toMaster)
  BY <1>1, RangeIn DEF ExchangeInv, FlagsInv
<1>3. ReplyInv(m)
  BY <1>2 DEF ExchangeInv, RepliesInv
<1>4. CASE m.pdu.fc = "exception"
  <2>1. g = Failed(copies[1], "ILLEGAL_FUNCTION")
    BY <1>4 DEF MasterExecute
  <2>2. \A c : /\ Failed(c, "ILLEGAL_FUNCTION").ex # "NONE"
              /\ Failed(c, "ILLEGAL_FUNCTION").mem = c
    BY DEF Failed
  <2>3. /\ Failed(copies[1], "ILLEGAL_FUNCTION").ex # "NONE"
        /\ Failed(copies[1], "ILLEGAL_FUNCTION").mem = copies[1]
    BY ONLY <2>2
  <2>4. g.ex # "NONE" /\ g.mem = copies[1]
    BY ONLY <2>1, <2>3
  <2> QED
    BY <1>4, <2>4 DEF Outcome
<1>5. CASE m.pdu.fc # "exception"
  <2>1. CarriedOut(m.pdu)
    BY <1>3, <1>5 DEF ReplyInv
  <2>2. PICK old \in Memories :
          /\ Handle(sndBuf.fc, old, sndBuf).ex = "NONE"
          /\ m.pdu = Handle(sndBuf.fc, old, sndBuf).ans
          /\ served.memory = Handle(sndBuf.fc, old, sndBuf).mem
    BY <2>1 DEF CarriedOut
  <2>3. BuiltFrame(sndBuf) /\ sndBuf \in Carrying
    BY DEF ExchangeInv, SentInv, BuiltFrame
  <2>4. copies[1] \in Memories
    BY ExchangeAssumption DEF ExchangeInv, MemoriesInv
  <2>5. InStep(copies[1], old, sndBuf)
    BY <2>2, <2>3, <2>4, AnswerInStep
  <2>6. /\ g.ex = "NONE"
        /\ Differing(g.mem, served.memory) \cap places = {}
        /\ PaddedFrame(sndBuf) =>
             Differing(copies[1], g.mem) \subseteq places
    BY <2>2, <2>5 DEF InStep
  <2> QED
    BY <1>5, <2>6 DEF Outcome
<1> QED
  BY <1>4, <1>5

(* The master understands what the slave answers: its own answer fails if  *)
(* and only if it is an exception, for all limits, sizes and requests (the *)
(* lengths, byte counts and ranges that the two sides check fit).          *)
THEOREM AnswersUnderstood == Spec => OwnAnswerUnderstood
<1>1. ASSUME ExchangeInv, Receive, OwnAnswer
      PROVE  result' = "EXE_FUN" <=> Head(toMaster).pdu.fc = "exception"
  <2>1. PICK m : m = Head(toMaster)
    OBVIOUS
  <2>2. PICK g : g = MasterExecute(copies[1], sndBuf, m.pdu, FALSE)
    OBVIOUS
  <2>3. \/ m.pdu.fc = "exception" /\ g.ex # "NONE"
        \/ m.pdu.fc # "exception" /\ g.ex = "NONE"
    <3>1. Outcome(m, g)
      BY <1>1, <2>1, <2>2, AnswerReceived DEF OwnAnswer
    <3> QED
      BY <3>1 DEF Outcome
  <2>4. result' = IF g.ex = "NONE" THEN "NO_ERR" ELSE "EXE_FUN"
    BY <1>1, <2>1, <2>2 DEF Receive, OwnAnswer
  <2> QED
    BY <2>1, <2>3, <2>4
<1>2. ExchangeInv /\ [Next]_vars =>
        [(Receive /\ OwnAnswer) =>
           (result' = "EXE_FUN" <=> Head(toMaster).pdu.fc = "exception")]_vars
  BY <1>1
<1> QED
  BY <1>2, ExchangeAlways, PTL DEF Spec, OwnAnswerUnderstood

(* A request that returns NO_ERR with its own answer leaves the copy of    *)
(* what it read and wrote as the slave had it when it answered, whatever   *)
(* the copy held before and however many bits a byte has (mbfunc*.c,       *)
(* mbfunc*_m.c, user_mb_app.c, user_mb_app_m.c).                           *)
THEOREM CopiesFollow == Spec => CopiesAgree
<1>1. ASSUME ExchangeInv, Receive, OwnAnswer, result' = "NO_ERR"
      PROVE  Differing(copies'[1], served.memory)
               \cap (ReadBy(sndBuf) \cup WrittenBy(sndBuf)) = {}
  <2>1. PICK m : m = Head(toMaster)
    OBVIOUS
  <2>2. PICK g : g = MasterExecute(copies[1], sndBuf, m.pdu, FALSE)
    OBVIOUS
  <2>3. PICK places : places = ReadBy(sndBuf) \cup WrittenBy(sndBuf)
    OBVIOUS
  <2>4. g.ex = "NONE" => Differing(g.mem, served.memory) \cap places = {}
    <3>1. Outcome(m, g)
      BY <1>1, <2>1, <2>2, AnswerReceived DEF OwnAnswer
    <3> QED
      BY <2>3, <3>1 DEF Outcome
  <2>5. /\ result' = IF g.ex = "NONE" THEN "NO_ERR" ELSE "EXE_FUN"
        /\ copies' = [copies EXCEPT ![1] = g.mem]
    BY <1>1, <2>1, <2>2 DEF Receive, OwnAnswer
  <2>6. copies'[1] = g.mem
    BY <1>1, <2>5, ExchangeAssumption DEF ExchangeInv, MemoriesInv
  <2> QED
    BY <1>1, <2>3, <2>4, <2>5, <2>6
<1>2. ExchangeInv /\ [Next]_vars =>
        [(Receive /\ OwnAnswer /\ result' = "NO_ERR") =>
            Differing(copies'[1], served.memory)
              \cap (ReadBy(sndBuf) \cup WrittenBy(sndBuf)) = {}]_vars
  BY <1>1
<1> QED
  BY <1>2, ExchangeAlways, PTL DEF Spec, CopiesAgree

(* An answer to the last request changes, in the copy, what that request   *)
(* read or wrote and nothing else, even when it comes too late, if the     *)
(* surplus bits of what the master writes are zero: the bytes of an answer *)
(* may reach over the range (user_mb_app_m.c:209, mbutils.c:76).           *)
THEOREM NothingElseCopied == PaddedRequests => (Spec => OnlyNamedCopied)
<1> SUFFICES ASSUME PaddedRequests PROVE Spec => OnlyNamedCopied
  OBVIOUS
<1>1. ASSUME ExchangeInv, Receive, Head(toMaster).n = asked
      PROVE  Differing(copies[1], copies'[1])
               \subseteq ReadBy(sndBuf) \cup WrittenBy(sndBuf)
  <2>1. PICK m : m = Head(toMaster)
    OBVIOUS
  <2>2. PICK g : g = MasterExecute(copies[1], sndBuf, m.pdu, FALSE)
    OBVIOUS
  <2>3. PICK places : places = ReadBy(sndBuf) \cup WrittenBy(sndBuf)
    OBVIOUS
  <2>4. PaddedFrame(sndBuf)
    BY <1>1 DEF ExchangeInv, SentInv
  <2>5. Differing(copies[1], copies[1]) \subseteq places
    BY DiffersNowhere
  <2>6. Differing(copies[1], g.mem) \subseteq places
    <3>1. \/ g.mem = copies[1]
          \/ Differing(copies[1], g.mem) \subseteq places
      <4>1. m.n = asked
        BY <1>1, <2>1
      <4>2. Outcome(m, g)
        BY <1>1, <2>1, <2>2, <4>1, AnswerReceived
      <4> QED
        BY <2>3, <2>4, <4>2 DEF Outcome
    <3>2. g.mem = copies[1] =>
             Differing(copies[1], g.mem) = Differing(copies[1], copies[1])
      OBVIOUS
    <3> QED
      BY <2>5, <3>1, <3>2
  <2>7. copies' = copies \/ copies' = [copies EXCEPT ![1] = g.mem]
    BY <1>1, <2>1, <2>2 DEF Receive
  <2>8. copies'[1] = copies[1] \/ copies'[1] = g.mem
    BY <1>1, <2>7, ExchangeAssumption DEF ExchangeInv, MemoriesInv
  <2> QED
    BY <2>3, <2>5, <2>6, <2>8
<1>2. ExchangeInv /\ [Next]_vars =>
        [(Receive /\ Head(toMaster).n = asked) =>
            Differing(copies[1], copies'[1])
              \subseteq ReadBy(sndBuf) \cup WrittenBy(sndBuf)]_vars
  BY <1>1
<1> QED
  BY <1>2, ExchangeAlways, PTL DEF Spec, OnlyNamedCopied

(* When the slave has carried a broadcast out, the copy of every slave has *)
(* what it wrote, unless it was a ReadWrite request, which the master      *)
(* sends to all and executes for none (mb_m.c:334, mbfunc*_m.c).           *)
THEOREM BroadcastsMirrored == Spec => BroadcastMirrored
<1>1. ASSUME ExchangeInv, ExecuteBroadcast, served.n = asked,
             sndBuf.fc # "ReadWriteHoldings", NEW s \in 1 .. TotalSlaveNum
      PROVE  Differing(copies'[s], served.memory) \cap WrittenBy(sndBuf) = {}
  <2>1. asked # 0
    BY <1>1 DEF ExecuteBroadcast, ExchangeInv, CountsInv
  <2>2. PICK old \in Memories :
          /\ Handle(sndBuf.fc, old, sndBuf).ex = "NONE"
          /\ served.memory = Handle(sndBuf.fc, old, sndBuf).mem
    BY <1>1, <2>1 DEF ExchangeInv, ServedInv, CarriedOut
  <2>3. BuiltFrame(sndBuf) /\ sndBuf \in Carrying
    BY <1>1 DEF ExchangeInv, SentInv, BuiltFrame
  <2>4. copies[s] \in Memories /\ DOMAIN copies = 1 .. TotalSlaveNum
    BY <1>1 DEF ExchangeInv, MemoriesInv
  <2>5. copies'[s] = MasterExecute(copies[s], sndBuf, sndBuf, TRUE).mem
    BY <1>1, <2>4 DEF ExecuteBroadcast
  <2>6. CASE sndBuf.fc \in Reads
    <3>1. WrittenBy(sndBuf) = {}
      BY <1>1, <2>6 DEF WrittenBy, Reads
    <3> QED
      BY <3>1
  <2>7. CASE sndBuf.fc \notin Reads
    <3>1. WriteInStep(copies[s], old, sndBuf)
      BY <2>2, <2>3, <2>4, <2>7, AnswerInStep
    <3> QED
      BY <2>2, <2>5, <3>1 DEF WriteInStep, InStep
  <2> QED
    BY <2>6, <2>7
<1>2. ExchangeInv /\ [Next]_vars =>
        [(/\ ExecuteBroadcast /\ served.n = asked
          /\ sndBuf.fc # "ReadWriteHoldings") =>
            \A s \in 1 .. TotalSlaveNum :
              Differing(copies'[s], served.memory)
                \cap WrittenBy(sndBuf) = {}]_vars
  BY <1>1
<1> QED
  BY <1>2, ExchangeAlways, PTL DEF Spec, BroadcastMirrored
=============================================================================
