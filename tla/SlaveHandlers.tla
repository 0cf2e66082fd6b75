---------------------------- MODULE SlaveHandlers ----------------------------
(***************************************************************************)
(* The function handlers of the slave (modbus/functions/mbfunc*.c), and    *)
(* the table of handlers of modbus/mb.c.                                   *)
(*                                                                         *)
(* A request carries the fields that a handler can read, whatever the      *)
(* length of the frame: what lies beyond the length is what the buffer of  *)
(* the receiver holds.  "word" is the value or the number of registers at  *)
(* byte 3, "bytes" the byte count, "data" the bytes behind it; a ReadWrite *)
(* request has the range to write in "waddr" and "wcnt".                   *)
(*                                                                         *)
(* A handler maps the memory of the slave and a request to a record: its   *)
(* exception, the memory and the answer in the same buffer.                *)
(***************************************************************************)
EXTENDS RegisterCallbacks

CONSTANTS ReadBitsMax,    \* MB_PDU_FUNC_READ_COILCNT_MAX, ..._DISCCNT_MAX
          WriteBitsMax,   \* MB_PDU_FUNC_WRITE_MUL_COILCNT_MAX
          ReadRegsMax,    \* MB_PDU_FUNC_READ_REGCNT_MAX
          WriteRegsMax,   \* MB_PDU_FUNC_WRITE_MUL_REGCNT_MAX
          RWWriteMax,     \* 0x79 of eMBFuncReadWriteMultipleHoldingRegister
          FuncHandlersMax \* MB_FUNC_HANDLERS_MAX

Functions == {"ReadCoils", "WriteCoil", "WriteCoils", "ReadDiscretes",
              "ReadInputs", "WriteHolding", "WriteHoldings", "ReadHoldings",
              "ReadWriteHoldings"}

ASSUME LimitsAssumption ==
  /\ {ReadBitsMax, WriteBitsMax, ReadRegsMax, WriteRegsMax, RWWriteMax}
       \subseteq Nat
  /\ FuncHandlersMax \in Nat /\ FuncHandlersMax >= 9

(* The value that switches a coil on: the high byte all ones, the low 0.   *)
CoilOn == 2 ^ (2 * BitsUchar) - 2 ^ BitsUchar

Refused(mem, ex) == [ex |-> ex, mem |-> mem, ans |-> [fc |-> "exception"]]

(* prveMBError2Exception of the MB_ENOREG of a callback. *)
BadAddress(mem) == Refused(mem, "ILLEGAL_DATA_ADDRESS")

(* A write answers with the head of the request: function, address, word.  *)
Done(mem, q) ==
  [ex |-> "NONE", mem |-> mem,
   ans |-> [fc |-> q.fc, addr |-> q.addr, word |-> q.word, len |-> 5]]

ReadAnswer(mem, q, data) ==
  [ex |-> "NONE", mem |-> mem,
   ans |-> [fc |-> q.fc, bytes |-> Len(data), data |-> data,
            len |-> 2 + Len(data)]]

(* The four handlers that only read. *)
Read(mem, q, counts, size, data) ==
  IF q.len # 5 \/ q.word \notin counts
  THEN Refused(mem, "ILLEGAL_DATA_VALUE")
  ELSE IF ~InRange(q.addr, q.word, size) THEN BadAddress(mem)
  ELSE ReadAnswer(mem, q, data)

eMBFuncReadCoils(mem, q) ==
  Read(mem, q, 1 .. ReadBitsMax - 1, NCoils,
       BitsRead(mem.coils, q.addr, q.word))

eMBFuncReadDiscreteInputs(mem, q) ==
  Read(mem, q, 1 .. ReadBitsMax - 1, NDiscretes,
       BitsRead(mem.discs, q.addr, q.word))

eMBFuncReadInputRegister(mem, q) ==
  Read(mem, q, 1 .. ReadRegsMax - 1, NInputs,
       RegsRead(mem.inputs, q.addr, q.word))

eMBFuncReadHoldingRegister(mem, q) ==
  Read(mem, q, 1 .. ReadRegsMax, NHoldings,
       RegsRead(mem.holds, q.addr, q.word))

eMBFuncWriteCoil(mem, q) ==
  IF q.len # 5 \/ q.word \notin {0, CoilOn}
  THEN Refused(mem, "ILLEGAL_DATA_VALUE")
  ELSE IF ~InRange(q.addr, 1, NCoils) THEN BadAddress(mem)
  ELSE Done([mem EXCEPT !.coils =
               BitsWritten(@, q.addr, 1,
                           <<ByteOf(IF q.word = CoilOn THEN 1 ELSE 0)>>)], q)

(* The length of the frame is not compared with the byte count. *)
eMBFuncWriteMultipleCoils(mem, q) ==
  IF \/ q.len <= 5
     \/ q.word \notin 1 .. WriteBitsMax
     \/ q.bytes # ByteCount(q.word)
  THEN Refused(mem, "ILLEGAL_DATA_VALUE")
  ELSE IF ~InRange(q.addr, q.word, NCoils) THEN BadAddress(mem)
  ELSE Done([mem EXCEPT !.coils =
               BitsWritten(@, q.addr, q.word, q.data)], q)

eMBFuncWriteHoldingRegister(mem, q) ==
  IF q.len # 5 THEN Refused(mem, "ILLEGAL_DATA_VALUE")
  ELSE IF ~InRange(q.addr, 1, NHoldings) THEN BadAddress(mem)
  ELSE Done([mem EXCEPT !.holds =
               RegsWritten(@, q.addr, 1, WordOf(q.word))], q)

\* faulty variant: the range is checked when the registers are written
WriteThenCheck(mem, q) ==
  LET written == [mem EXCEPT !.holds = RegsWritten(@, q.addr, q.word, q.data)]
  IN  IF q.len < 6 \/ q.word \notin 1 .. WriteRegsMax \/ q.bytes # 2 * q.word
      THEN Refused(mem, "ILLEGAL_DATA_VALUE")
      ELSE IF ~InRange(q.addr, q.word, NHoldings) THEN BadAddress(written)
      ELSE Done(written, q)

eMBFuncWriteMultipleHoldingRegister(mem, q) ==
  IF \/ q.len < 6
     \/ q.word \notin 1 .. WriteRegsMax
     \/ q.bytes # 2 * q.word
  THEN Refused(mem, "ILLEGAL_DATA_VALUE")
  ELSE IF ~InRange(q.addr, q.word, NHoldings) THEN BadAddress(mem)
  ELSE Done([mem EXCEPT !.holds =
               RegsWritten(@, q.addr, q.word, q.data)], q)

(* It writes first.  When it then cannot read, the exception it answers    *)
(* with leaves the registers written.  A frame that is too short comes     *)
(* back unchanged, and without an exception: byte 1 of it, the byte count  *)
(* of an answer, is the high byte of the address.                          *)
eMBFuncReadWriteMultipleHoldingRegister(mem, q) ==
  LET written == [mem EXCEPT !.holds =
                    RegsWritten(@, q.waddr, q.wcnt, q.data)]
  IN  IF q.len < 10
      THEN [ex |-> "NONE", mem |-> mem,
            ans |-> [fc |-> q.fc, bytes |-> 0, data |-> <<>>, len |-> q.len]]
      ELSE IF \/ q.word \notin 1 .. ReadRegsMax
              \/ q.wcnt \notin 1 .. RWWriteMax
              \/ q.bytes # 2 * q.wcnt
      THEN Refused(mem, "ILLEGAL_DATA_VALUE")
      ELSE IF ~InRange(q.waddr, q.wcnt, NHoldings) THEN BadAddress(mem)
      ELSE IF ~InRange(q.addr, q.word, NHoldings) THEN BadAddress(written)
      ELSE ReadAnswer(written, q, RegsRead(written.holds, q.addr, q.word))

(* Each handler is the one of its function code. *)
Handle(handler, mem, q) ==
  CASE handler = "ReadCoils"     -> eMBFuncReadCoils(mem, q)
    [] handler = "WriteCoil"     -> eMBFuncWriteCoil(mem, q)
    [] handler = "WriteCoils"    -> eMBFuncWriteMultipleCoils(mem, q)
    [] handler = "ReadDiscretes" -> eMBFuncReadDiscreteInputs(mem, q)
    [] handler = "ReadInputs"    -> eMBFuncReadInputRegister(mem, q)
    [] handler = "WriteHolding"  -> eMBFuncWriteHoldingRegister(mem, q)
    [] handler = "WriteHoldings" -> eMBFuncWriteMultipleHoldingRegister(mem, q)
    [] handler = "ReadHoldings"  -> eMBFuncReadHoldingRegister(mem, q)
    [] handler = "ReadWriteHoldings" ->
         eMBFuncReadWriteMultipleHoldingRegister(mem, q)

-----------------------------------------------------------------------------
(* The table: entries of a function code and a handler, or Hole, the entry *)
(* that was never used or whose handler was removed.                       *)
Hole == [code |-> "0", handler |-> "NULL"]

Tables == [1 .. FuncHandlersMax ->
             [code : Functions, handler : Functions] \cup {Hole}]

(* The first index in S, when there is one. *)
First(S) == CHOOSE i \in S : \A j \in S : i <= j

(* xFuncHandlers.  eMBFuncReportSlaveID, its first entry, is left out.     *)
xFuncHandlersInit ==
  LET order == <<"ReadInputs", "ReadHoldings", "WriteHoldings",
                 "WriteHolding", "ReadWriteHoldings", "ReadCoils",
                 "WriteCoil", "WriteCoils", "ReadDiscretes">>
  IN  [i \in 1 .. FuncHandlersMax |->
         IF i <= Len(order) THEN [code |-> order[i], handler |-> order[i]]
         ELSE Hole]

(* eMBRegisterCB with no handler: the first entry of the code is cleared.  *)
Removed(table, code) ==
  LET S == {i \in DOMAIN table : table[i].code = code}
  IN  IF S = {} THEN table ELSE [table EXCEPT ![First(S)] = Hole]

\* faulty variant: a handler goes behind all that are there
RegisteredAtEnd(table, code, handler) ==
  LET S == {i \in DOMAIN table :
              \A j \in DOMAIN table : j >= i => table[j] = Hole}
  IN  IF S = {} THEN table
      ELSE [table EXCEPT ![First(S)] = [code |-> code, handler |-> handler]]

(* eMBRegisterCB with a handler: it goes to the first entry that is empty  *)
(* or has this handler already.                                            *)
Registered(table, code, handler) ==
  LET S == {i \in DOMAIN table : table[i].handler \in {"NULL", handler}}
  IN  IF S = {} THEN table
      ELSE [table EXCEPT ![First(S)] = [code |-> code, handler |-> handler]]

(* The loop of EV_EXECUTE: it ends at the first hole. *)
Served(table, code) ==
  \E i \in DOMAIN table :
    table[i].code = code /\ \A j \in 1 .. i : table[j].code # "0"

Execute(table, mem, q) ==
  IF Served(table, q.fc)
  THEN Handle(table[First({i \in DOMAIN table : table[i].code = q.fc})].handler,
              mem, q)
  ELSE Refused(mem, "ILLEGAL_FUNCTION")
=============================================================================
