-------------------------- MODULE RegisterExchange --------------------------
(***************************************************************************)
(* One master, the slave with address 1 and the registers of both: what    *)
(* requests, answers and late answers do to the memory of the slave and to *)
(* the copies that the master keeps of its slaves' memories.               *)
(*                                                                         *)
(* The modules of the links say when a frame is sent, received or given    *)
(* up; here a request or an answer is lost, late or in time, as it may be. *)
(* The slaves beyond the first one do not exist: nobody answers for them.  *)
(***************************************************************************)
EXTENDS MasterHandlers, Functions

CONSTANTS TotalSlaveNum,    \* MB_MASTER_TOTAL_SLAVE_NUM
          Dests,            \* addresses that requests are sent to
          Requests,         \* calls of eMBMasterReq...
          ForeignRequests,  \* requests that the slave gets from elsewhere
          FirstMemories,    \* memories of the slave at the start
          Removable,        \* function codes whose handler is removed
          MaxRounds         \* bound on requests and removals together

ASSUME ExchangeAssumption ==
  /\ TotalSlaveNum \in Nat \ {0} /\ MaxRounds \in Nat
  /\ Dests \subseteq 0 .. TotalSlaveNum + 1
  /\ FirstMemories \subseteq Memories /\ Removable \subseteq Functions

(* The requests that a call builds, and frames from elsewhere, with the    *)
(* data that the byte counts speak of: what lies beyond the length of a    *)
(* frame is in the buffer all the same.                                    *)
Frames == [fc : Functions, addr : Nat, word : Nat, len : Nat, rw : BOOLEAN,
           waddr : Nat, wcnt : Nat, bytes : Nat, data : Seq(Byte)]

ASSUME CallsAssumption ==
  /\ Requests \subseteq Frames /\ ForeignRequests \subseteq Frames
  /\ \A q \in Requests :
       /\ q.fc = "WriteCoils" => Len(q.data) >= ByteCount(q.word)
       /\ q.fc = "WriteHoldings" => Len(q.data) >= 2 * q.word
       /\ q.fc = "ReadWriteHoldings" => Len(q.data) >= 2 * q.wcnt
  /\ \A q \in ForeignRequests : Len(q.data) >= q.bytes

VARIABLES
  memory,    \* registers of the slave
  copies,    \* copies[s]: usMRegHoldBuf[s - 1], ucMCoilBuf[s - 1], ...
  xFuncHandlers,
  sndBuf,    \* ucMasterRTUSndBuf, without the address
  dest,      \* ucMBMasterDestAddress
  asked,     \* number of requests so far: names the last one
  waiting,   \* the request is under way
  result,    \* what the last request returned
  toSlave,   \* the request that the slave has to serve, if any
  toMaster,  \* answers under way, in order
  served,    \* history: the last request carried out, and the memory then
  removed,   \* history: codes whose handler is removed, not registered again
  rounds     \* requests and removals so far

vars == <<memory, copies, xFuncHandlers, sndBuf, dest, asked, waiting, result,
          toSlave, toMaster, served, removed, rounds>>

Blank == [coils |-> [i \in BitIndex(NCoils) |-> 0],
          discs |-> [i \in BitIndex(NDiscretes) |-> 0],
          inputs |-> [i \in 0 .. NInputs - 1 |-> WordOf(0)],
          holds |-> [i \in 0 .. NHoldings - 1 |-> WordOf(0)]]

Results == {"NO_ERR", "ILL_ARG", "REV_DATA", "TIMEDOUT", "EXE_FUN"}

TypeOK ==
  /\ memory \in Memories
  /\ copies \in [1 .. TotalSlaveNum -> Memories]
  /\ xFuncHandlers \in Tables
  /\ dest \in 0 .. TotalSlaveNum /\ asked \in 0 .. MaxRounds
  /\ waiting \in BOOLEAN /\ result \in Results
  /\ Len(toSlave) <= 1 /\ Len(toMaster) <= MaxRounds
  /\ served.n \in 0 .. asked /\ served.memory \in Memories
  /\ removed \subseteq Functions /\ rounds \in 0 .. MaxRounds

Init ==
  /\ memory \in FirstMemories
  /\ copies = [s \in 1 .. TotalSlaveNum |-> Blank]
  /\ xFuncHandlers = xFuncHandlersInit
  /\ sndBuf = NoRequest /\ dest = 1
  /\ asked = 0 /\ waiting = FALSE /\ result = "NO_ERR"
  /\ toSlave = <<>> /\ toMaster = <<>>
  /\ served = [n |-> 0, memory |-> Blank]
  /\ removed = {} /\ rounds = 0

-----------------------------------------------------------------------------
(* The send buffer after the request q. *)
Built(q) ==
  CASE q.fc \in {"ReadCoils", "ReadDiscretes", "ReadInputs", "ReadHoldings"} ->
         eMBMasterReqRead(sndBuf, q.fc, q.addr, q.word)
    [] q.fc = "WriteCoil" -> eMBMasterReqWriteCoil(sndBuf, q.addr, q.word)
    [] q.fc = "WriteHolding" ->
         eMBMasterReqWriteHoldingRegister(sndBuf, q.addr, q.word)
    [] q.fc = "WriteCoils" ->
         eMBMasterReqWriteMultipleCoils(q.addr, q.word, q.data)
    [] q.fc = "WriteHoldings" ->
         eMBMasterReqWriteMultipleHoldingRegister(q.addr, q.word, q.data)
    [] q.fc = "ReadWriteHoldings" ->
         eMBMasterReqReadWriteMultipleHoldingRegister(q.addr, q.word, q.waddr,
                                                      q.wcnt, q.data)

(* A request is asked: it is in the buffer, and sent.  It does not reach a *)
(* slave that has a request to serve already.  Bound: no request is asked  *)
(* while an answer to a ReadWrite request may still come, for then the     *)
(* bytes of the new request would be read as those of a ReadWrite.         *)
Ask(d, q) ==
  /\ ~waiting /\ rounds < MaxRounds /\ rounds' = rounds + 1
  /\ \A m \in Range(toSlave) \cup Range(toMaster) :
       m.pdu.fc # "ReadWriteHoldings"
  /\ d <= TotalSlaveNum /\ ~IllegalArgument(q)
  /\ sndBuf' = Built(q) /\ dest' = d
  /\ asked' = asked + 1 /\ waiting' = TRUE /\ result' = "NO_ERR"
  /\ toSlave' = IF d \in {0, 1} /\ toSlave = <<>>
                THEN <<[n |-> asked + 1, broadcast |-> d = 0,
                        pdu |-> Built(q)]>>
                ELSE toSlave
  /\ UNCHANGED <<memory, copies, xFuncHandlers, toMaster, served, removed>>

AskRefused ==
  /\ ~waiting
  /\ \E d \in Dests, q \in Requests :
       d > TotalSlaveNum \/ IllegalArgument(q)
  /\ result' = "ILL_ARG"
  /\ UNCHANGED <<memory, copies, xFuncHandlers, sndBuf, dest, asked, waiting,
                 toSlave, toMaster, served, removed, rounds>>

(* A request that this master did not build: it may have any length, count *)
(* or byte count.  Its answer goes where it came from.                     *)
AskElsewhere(q) ==
  /\ toSlave = <<>> /\ rounds < MaxRounds /\ rounds' = rounds + 1
  /\ toSlave' = <<[n |-> 0, broadcast |-> FALSE, pdu |-> q]>>
  /\ UNCHANGED <<memory, copies, xFuncHandlers, sndBuf, dest, asked, waiting,
                 result, toMaster, served, removed>>

(* EV_EXECUTE of the slave. *)
Serve ==
  /\ toSlave # <<>>
  /\ LET q == Head(toSlave)
         h == Execute(xFuncHandlers, memory, q.pdu)
     IN  /\ memory' = h.mem
         /\ toMaster' = IF q.broadcast \/ q.n = 0 THEN toMaster
                        ELSE Append(toMaster, [n |-> q.n, pdu |-> h.ans])
         /\ served' = IF q.n = 0 \/ h.ex # "NONE" THEN served
                      ELSE [n |-> q.n, memory |-> h.mem]
  /\ toSlave' = <<>>
  /\ UNCHANGED <<copies, xFuncHandlers, sndBuf, dest, asked, waiting, result,
                 removed, rounds>>

(* EV_MASTER_FRAME_RECEIVED and EV_MASTER_EXECUTE.  Only the address of an *)
(* answer is compared.  One that comes when nobody waits is executed too.  *)
Receive ==
  /\ toMaster # <<>>
  /\ toMaster' = Tail(toMaster)
  /\ LET h == MasterExecute(copies[1], sndBuf, Head(toMaster).pdu, FALSE)
     IN  IF dest # 1
         THEN /\ result' = IF waiting THEN "REV_DATA" ELSE result
              /\ UNCHANGED copies
         ELSE /\ result' = IF ~waiting THEN result
                           ELSE IF h.ex = "NONE" THEN "NO_ERR" ELSE "EXE_FUN"
              /\ copies' = [copies EXCEPT ![1] = h.mem]
  /\ waiting' = FALSE
  /\ UNCHANGED <<memory, xFuncHandlers, sndBuf, dest, asked, toSlave, served,
                 removed, rounds>>

\* faulty variant: the loop runs once more
DestPastEnd == TotalSlaveNum + 1

(* The destination that the loop over all slaves leaves behind. *)
DestLeft == TotalSlaveNum

(* The delay of a broadcast is over: it is executed for every slave, and   *)
(* the last of them decides on the result.                                 *)
ExecuteBroadcast ==
  /\ waiting /\ dest = 0
  /\ LET h(s) == MasterExecute(copies[s], sndBuf, sndBuf, TRUE)
     IN  /\ copies' = [s \in DOMAIN copies |-> h(s).mem]
         /\ result' = IF h(TotalSlaveNum).ex = "NONE" THEN "NO_ERR"
                      ELSE "EXE_FUN"
  /\ dest' = DestLeft /\ waiting' = FALSE
  /\ UNCHANGED <<memory, xFuncHandlers, sndBuf, asked, toSlave, toMaster,
                 served, removed, rounds>>

(* The slave does not answer in time. *)
TimeOut ==
  /\ waiting /\ dest # 0
  /\ waiting' = FALSE /\ result' = "TIMEDOUT"
  /\ UNCHANGED <<memory, copies, xFuncHandlers, sndBuf, dest, asked, toSlave,
                 toMaster, served, removed, rounds>>

(* A frame is lost on the line. *)
LoseRequest ==
  /\ toSlave # <<>> /\ toSlave' = <<>>
  /\ UNCHANGED <<memory, copies, xFuncHandlers, sndBuf, dest, asked, waiting,
                 result, toMaster, served, removed, rounds>>

LoseAnswer ==
  /\ toMaster # <<>> /\ toMaster' = Tail(toMaster)
  /\ UNCHANGED <<memory, copies, xFuncHandlers, sndBuf, dest, asked, waiting,
                 result, toSlave, served, removed, rounds>>

(* The application of the slave removes the handler of a code, and         *)
(* registers it again.                                                     *)
Remove(code) ==
  /\ code \notin removed /\ rounds < MaxRounds /\ rounds' = rounds + 1
  /\ xFuncHandlers' = Removed(xFuncHandlers, code)
  /\ removed' = removed \cup {code}
  /\ UNCHANGED <<memory, copies, sndBuf, dest, asked, waiting, result, toSlave,
                 toMaster, served>>

Register(code) ==
  /\ code \in removed
  /\ xFuncHandlers' = Registered(xFuncHandlers, code, code)
  /\ removed' = removed \ {code}
  /\ UNCHANGED <<memory, copies, sndBuf, dest, asked, waiting, result, toSlave,
                 toMaster, served, rounds>>

Next ==
  \/ \E d \in Dests, q \in Requests : Ask(d, q)
  \/ AskRefused
  \/ \E q \in ForeignRequests : AskElsewhere(q)
  \/ Serve \/ Receive \/ ExecuteBroadcast
  \/ TimeOut \/ LoseRequest \/ LoseAnswer
  \/ \E code \in Removable : Remove(code) \/ Register(code)

Spec == Init /\ [][Next]_vars

-----------------------------------------------------------------------------
(* The places of a memory that a request names: what it writes or reads.   *)
Places(table, addr, n) == {<<table, i>> : i \in addr .. addr + n - 1}

WrittenBy(q) ==
  CASE q.fc = "WriteCoil"     -> Places("coils", q.addr, 1)
    [] q.fc = "WriteCoils"    -> Places("coils", q.addr, q.word)
    [] q.fc = "WriteHolding"  -> Places("holds", q.addr, 1)
    [] q.fc = "WriteHoldings" -> Places("holds", q.addr, q.word)
    [] q.fc = "ReadWriteHoldings" -> Places("holds", q.waddr, q.wcnt)
    [] OTHER -> {}

ReadBy(q) ==
  CASE q.fc = "ReadCoils"     -> Places("coils", q.addr, q.word)
    [] q.fc = "ReadDiscretes" -> Places("discs", q.addr, q.word)
    [] q.fc = "ReadInputs"    -> Places("inputs", q.addr, q.word)
    [] q.fc \in {"ReadHoldings", "ReadWriteHoldings"} ->
         Places("holds", q.addr, q.word)
    [] OTHER -> {}

(* The places at which two memories differ. *)
Differing(m1, m2) ==
  UNION {{<<t, i>> : i \in {j \in DOMAIN m1[t] : m1[t][j] # m2[t][j]}} :
           t \in {"coils", "discs", "inputs", "holds"}}

(* The answer that the master gets next is the one to its request. *)
OwnAnswer == waiting /\ Head(toMaster).n = asked /\ dest = 1

(* A request that returns NO_ERR with its own answer leaves the copy of    *)
(* what it read and wrote as the slave had it when it answered: the two    *)
(* sides agree on order, alignment and range of what they exchange         *)
(* (mbfunc*.c, mbfunc*_m.c and the callbacks).                             *)
CopiesAgree ==
  [][(Receive /\ OwnAnswer /\ result' = "NO_ERR") =>
        Differing(copies'[1], served.memory)
          \cap (ReadBy(sndBuf) \cup WrittenBy(sndBuf)) = {}]_vars

(* The master understands what the slave answers: its own answer fails if  *)
(* and only if it is an exception (the limits, lengths and byte counts of  *)
(* the two sides fit).                                                     *)
OwnAnswerUnderstood ==
  [][(Receive /\ OwnAnswer) =>
        (result' = "EXE_FUN" <=> Head(toMaster).pdu.fc = "exception")]_vars

(* Serving a request changes what it writes and nothing else: no bit next  *)
(* to it in its bytes, and none behind the array (mbutils.c:76).           *)
OnlyWrittenChanges ==
  [][Serve => Differing(memory, memory')
                \subseteq WrittenBy(Head(toSlave).pdu)]_vars

(* An answer to the last request changes, in the copy, what that request   *)
(* read or wrote and nothing else, even when it comes too late: also where *)
(* the bytes of an answer reach over the range (user_mb_app_m.c:209).      *)
OnlyNamedCopied ==
  [][(Receive /\ Head(toMaster).n = asked) =>
        Differing(copies[1], copies'[1])
          \subseteq ReadBy(sndBuf) \cup WrittenBy(sndBuf)]_vars

(* xMBUtilSetBits modifies the bits it is told to (mbutils.h:59): the bits *)
(* behind the coils of a copy, the first of the next slave's, stay.  They  *)
(* do not when the answer of an earlier request comes late.                *)
BehindUntouched ==
  [][\A s \in 1 .. TotalSlaveNum, i \in Behind(NCoils) :
        copies'[s].coils[i] = copies[s].coils[i]]_vars

(* A refused request changes nothing, unless it is a ReadWrite that wrote  *)
(* before it could not read (mbfuncholding.c:270).                         *)
RefusedChangesNothing ==
  [][Serve =>
       LET q == Head(toSlave).pdu IN
       \/ Execute(xFuncHandlers, memory, q).ex = "NONE"
       \/ memory' = memory
       \/ /\ q.fc = "ReadWriteHoldings"
          /\ ~InRange(q.addr, q.word, NHoldings)]_vars

(* When the slave has carried a broadcast out, every copy has what it      *)
(* wrote, unless it was a ReadWrite request.                               *)
BroadcastMirrored ==
  [][(/\ ExecuteBroadcast /\ served.n = asked
      /\ sndBuf.fc # "ReadWriteHoldings") =>
        \A s \in 1 .. TotalSlaveNum :
          Differing(copies'[s], served.memory) \cap WrittenBy(sndBuf) = {}]_vars

(* When every handler that was removed is registered again, whatever the   *)
(* order, each function is served by its own handler (mb.c:229, mb.c:378). *)
RegisteredServed ==
  removed = {} =>
    \A code \in Functions :
      /\ Served(xFuncHandlers, code)
      /\ xFuncHandlers[First({i \in DOMAIN xFuncHandlers :
                                xFuncHandlers[i].code = code})].handler = code
=============================================================================
