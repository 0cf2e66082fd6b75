--------------------------- MODULE MasterHandlers ---------------------------
(***************************************************************************)
(* The requests of the master and the handlers of their answers            *)
(* (modbus/functions/mbfunc*_m.c).                                         *)
(*                                                                         *)
(* Requests are built in the send buffer of the master, sndBuf.  A request *)
(* that is shorter than the one before leaves the rest of that one in the  *)
(* buffer.  The handlers take from the buffer what an answer does not say, *)
(* and a late answer meets the buffer of a later request.  "rw" tells      *)
(* whether the bytes from byte 5 on are those of a ReadWrite request.      *)
(*                                                                         *)
(* Addresses and counts are below 256: byte 5 of a ReadWrite request, the  *)
(* high byte of its write address, is 0.                                   *)
(***************************************************************************)
EXTENDS SlaveHandlers

NoRequest == [fc |-> "ReadCoils", addr |-> 0, word |-> 0, len |-> 0,
              rw |-> FALSE, waddr |-> 0, wcnt |-> 0, bytes |-> 0,
              data |-> <<>>]

Short(buf, fc, addr, word) ==
  [buf EXCEPT !.fc = fc, !.addr = addr, !.word = word, !.len = 5]

Multiple(fc, addr, n, bytes, data) ==
  [NoRequest EXCEPT !.fc = fc, !.addr = addr, !.word = n,
                    !.bytes = bytes, !.data = data, !.len = 6 + bytes]

(* eMBMasterReqReadCoils, ...ReadDiscreteInputs, ...ReadInputRegister,     *)
(* ...ReadHoldingRegister; no count is refused.                            *)
eMBMasterReqRead(buf, fc, addr, n) == Short(buf, fc, addr, n)

eMBMasterReqWriteCoil(buf, addr, value) == Short(buf, "WriteCoil", addr, value)

eMBMasterReqWriteHoldingRegister(buf, addr, value) ==
  Short(buf, "WriteHolding", addr, value)

eMBMasterReqWriteMultipleCoils(addr, n, data) ==
  Multiple("WriteCoils", addr, n, ByteCount(n), data)

eMBMasterReqWriteMultipleHoldingRegister(addr, n, data) ==
  Multiple("WriteHoldings", addr, n, 2 * n, data)

eMBMasterReqReadWriteMultipleHoldingRegister(addr, n, waddr, wcnt, data) ==
  [fc |-> "ReadWriteHoldings", addr |-> addr, word |-> n,
   rw |-> TRUE, waddr |-> waddr, wcnt |-> wcnt,
   bytes |-> 2 * wcnt, data |-> data, len |-> 10 + 2 * wcnt]

(* The checks that come before a request takes the master; dest is tested  *)
(* by all of them.                                                         *)
IllegalArgument(q) ==
  \/ q.fc = "WriteCoil" /\ q.word \notin {0, CoilOn}
  \/ q.fc = "WriteCoils" /\ q.word > WriteBitsMax

-----------------------------------------------------------------------------
(* The handlers.  They map the copy of a slave's memory, the send buffer   *)
(* and an answer (for a broadcast the send buffer itself) to an exception  *)
(* and a copy.  The callbacks write whatever the mode.                     *)

(* Byte 5 of the send buffer, read as a byte count. *)
ByteCountSent(buf) == IF buf.rw THEN 0 ELSE buf.bytes

Failed(copy, ex) == [ex |-> ex, mem |-> copy]
Copied(copy) == [ex |-> "NONE", mem |-> copy]

(* The four handlers of what was read: the range is the one of the send    *)
(* buffer.                                                                 *)
Store(copy, buf, ans, bytes, size, updated) ==
  IF buf.word < 1 \/ ans.bytes # bytes THEN Failed(copy, "ILLEGAL_DATA_VALUE")
  ELSE IF ~InRange(buf.addr, buf.word, size)
  THEN Failed(copy, "ILLEGAL_DATA_ADDRESS")
  ELSE Copied(updated)

eMBMasterFuncReadCoils(copy, buf, ans) ==
  Store(copy, buf, ans, ByteCount(buf.word), NCoils,
        [copy EXCEPT !.coils = BitsWritten(@, buf.addr, buf.word, ans.data)])

\* faulty variant: whole bytes are stored
DiscretesInBytes(copy, buf, ans) ==
  Store(copy, buf, ans, ByteCount(buf.word), NDiscretes,
        [copy EXCEPT !.discs = BitsWritten(@, buf.addr,
                                           BitsUchar * ans.bytes, ans.data)])

eMBMasterFuncReadDiscreteInputs(copy, buf, ans) ==
  Store(copy, buf, ans, ByteCount(buf.word), NDiscretes,
        [copy EXCEPT !.discs = BitsWritten(@, buf.addr, buf.word, ans.data)])

eMBMasterFuncReadInputRegister(copy, buf, ans) ==
  Store(copy, buf, ans, 2 * buf.word, NInputs,
        [copy EXCEPT !.inputs = RegsWritten(@, buf.addr, buf.word, ans.data)])

eMBMasterFuncReadHoldingRegister(copy, buf, ans) ==
  Store(copy, buf, ans, 2 * buf.word, NHoldings,
        [copy EXCEPT !.holds = RegsWritten(@, buf.addr, buf.word, ans.data)])

eMBMasterFuncWriteCoil(copy, buf, ans) ==
  IF ans.len # 5 \/ ans.word \notin {0, CoilOn}
  THEN Failed(copy, "ILLEGAL_DATA_VALUE")
  ELSE IF ~InRange(ans.addr, 1, NCoils)
  THEN Failed(copy, "ILLEGAL_DATA_ADDRESS")
  ELSE Copied([copy EXCEPT !.coils =
                 BitsWritten(@, ans.addr, 1,
                             <<ByteOf(IF ans.word = CoilOn THEN 1 ELSE 0)>>)])

eMBMasterFuncWriteHoldingRegister(copy, buf, ans) ==
  IF ans.len # 5 THEN Failed(copy, "ILLEGAL_DATA_VALUE")
  ELSE IF ~InRange(ans.addr, 1, NHoldings)
  THEN Failed(copy, "ILLEGAL_DATA_ADDRESS")
  ELSE Copied([copy EXCEPT !.holds =
                 RegsWritten(@, ans.addr, 1, WordOf(ans.word))])

\* faulty variant: the answer should have the byte count of the request
CoilsAnswerTooShort(copy, buf, ans, broadcast) ==
  IF \/ ans.len # 6 /\ ~broadcast
     \/ ans.word < 1
     \/ ByteCount(ans.word) # ByteCountSent(buf)
  THEN Failed(copy, "ILLEGAL_DATA_VALUE")
  ELSE Copied([copy EXCEPT !.coils =
                 BitsWritten(@, ans.addr, ans.word, buf.data)])

(* The range of the answer, the byte count and the data of the buffer.     *)
eMBMasterFuncWriteMultipleCoils(copy, buf, ans, broadcast) ==
  IF \/ ans.len # 5 /\ ~broadcast
     \/ ans.word < 1
     \/ ByteCount(ans.word) # ByteCountSent(buf)
  THEN Failed(copy, "ILLEGAL_DATA_VALUE")
  ELSE IF ~InRange(ans.addr, ans.word, NCoils)
  THEN Failed(copy, "ILLEGAL_DATA_ADDRESS")
  ELSE Copied([copy EXCEPT !.coils =
                 BitsWritten(@, ans.addr, ans.word, buf.data)])

\* faulty variant: the length is checked for a broadcast too
HoldingsAnswerChecked(copy, buf, ans, broadcast) ==
  IF \/ ans.len # 5
     \/ ByteCountSent(buf) # 2 * buf.word
     \/ ~InRange(buf.addr, buf.word, NHoldings)
  THEN Failed(copy, "ILLEGAL_DATA_VALUE")
  ELSE Copied([copy EXCEPT !.holds =
                 RegsWritten(@, buf.addr, buf.word, buf.data)])

(* The range, the byte count and the data of the buffer. *)
eMBMasterFuncWriteMultipleHoldingRegister(copy, buf, ans, broadcast) ==
  IF \/ ans.len # 5 /\ ~broadcast
     \/ ByteCountSent(buf) # 2 * buf.word
  THEN Failed(copy, "ILLEGAL_DATA_VALUE")
  ELSE IF ~InRange(buf.addr, buf.word, NHoldings)
  THEN Failed(copy, "ILLEGAL_DATA_ADDRESS")
  ELSE Copied([copy EXCEPT !.holds =
                 RegsWritten(@, buf.addr, buf.word, buf.data)])

(* First what was sent, then what was read. *)
eMBMasterFuncReadWriteMultipleHoldingRegister(copy, buf, ans) ==
  LET written == [copy EXCEPT !.holds =
                    RegsWritten(@, buf.waddr, buf.wcnt, buf.data)]
  IN  IF ans.bytes # 2 * buf.word THEN Failed(copy, "ILLEGAL_DATA_VALUE")
      ELSE IF ~InRange(buf.waddr, buf.wcnt, NHoldings)
      THEN Failed(copy, "ILLEGAL_DATA_ADDRESS")
      ELSE IF ~InRange(buf.addr, buf.word, NHoldings)
      THEN Failed(written, "ILLEGAL_DATA_ADDRESS")
      ELSE Copied([written EXCEPT !.holds =
                     RegsWritten(@, buf.addr, buf.word, ans.data)])

(* EV_MASTER_EXECUTE for one slave.  What only reads, and ReadWrite, is    *)
(* not executed for a broadcast.                                           *)
MasterExecute(copy, buf, ans, broadcast) ==
  CASE ans.fc = "exception" -> Failed(copy, "ILLEGAL_FUNCTION")
    [] ans.fc = "WriteCoil" -> eMBMasterFuncWriteCoil(copy, buf, ans)
    [] ans.fc = "WriteHolding" ->
         eMBMasterFuncWriteHoldingRegister(copy, buf, ans)
    [] ans.fc = "WriteCoils" ->
         eMBMasterFuncWriteMultipleCoils(copy, buf, ans, broadcast)
    [] ans.fc = "WriteHoldings" ->
         eMBMasterFuncWriteMultipleHoldingRegister(copy, buf, ans, broadcast)
    [] broadcast /\ ans.fc \in {"ReadCoils", "ReadDiscretes", "ReadInputs",
                                "ReadHoldings", "ReadWriteHoldings"} ->
         Copied(copy)
    [] ~broadcast /\ ans.fc = "ReadCoils" ->
         eMBMasterFuncReadCoils(copy, buf, ans)
    [] ~broadcast /\ ans.fc = "ReadDiscretes" ->
         eMBMasterFuncReadDiscreteInputs(copy, buf, ans)
    [] ~broadcast /\ ans.fc = "ReadInputs" ->
         eMBMasterFuncReadInputRegister(copy, buf, ans)
    [] ~broadcast /\ ans.fc = "ReadHoldings" ->
         eMBMasterFuncReadHoldingRegister(copy, buf, ans)
    [] ~broadcast /\ ans.fc = "ReadWriteHoldings" ->
         eMBMasterFuncReadWriteMultipleHoldingRegister(copy, buf, ans)
=============================================================================
