----------------------------- MODULE MCRegisters -----------------------------
(* A small instance of RegisterExchange: bytes of two bits, two bytes of   *)
(* coils, one of discrete inputs, two input and three holding registers.   *)
EXTENDS RegisterExchange

(* n bits, as whole bytes whose last bits are 0. *)
MCBits(n, pattern) ==
  [j \in 1 .. ByteCount(n) |->
     [k \in 0 .. BitsUchar - 1 |->
        IF BitsUchar * (j - 1) + k < n THEN pattern[k] ELSE 0]]

MCPatterns == {[k \in 0 .. BitsUchar - 1 |-> 1],
               [k \in 0 .. BitsUchar - 1 |-> IF k = 0 THEN 1 ELSE 0]}

MCBytes(n) == [j \in 1 .. n |-> ByteOf(j)]

MCRequest(fc, addr, word) ==
  [NoRequest EXCEPT !.fc = fc, !.addr = addr, !.word = word, !.len = 5]

(* Ranges: within a byte, over bytes, the whole table, beyond its end,     *)
(* empty, over the limit.                                                  *)
MCCoilRanges == {<<0, 1>>, <<1, 3>>, <<2, 2>>, <<0, 4>>, <<3, 2>>, <<0, 0>>,
                 <<0, 6>>}
MCDiscreteRanges == {<<1, 1>>, <<0, 2>>, <<1, 2>>}
MCInputRanges == {<<0, 2>>, <<0, 4>>}
MCHoldingRanges == {<<1, 2>>, <<2, 1>>, <<2, 2>>, <<0, 0>>, <<0, 5>>}

MCReads ==
  {MCRequest("ReadCoils", r[1], r[2]) : r \in MCCoilRanges}
  \cup {MCRequest("ReadDiscretes", r[1], r[2]) : r \in MCDiscreteRanges}
  \cup {MCRequest("ReadInputs", r[1], r[2]) : r \in MCInputRanges}
  \cup {MCRequest("ReadHoldings", r[1], r[2]) : r \in MCHoldingRanges}

MCSingles ==
  {MCRequest("WriteCoil", r[1], r[2]) :
     r \in {<<0, 0>>, <<2, CoilOn>>, <<3, 1>>, <<4, 0>>}}
  \cup {MCRequest("WriteHolding", r[1], r[2]) : r \in {<<0, 7>>, <<3, 7>>}}

MCMultiples ==
  {[MCRequest("WriteCoils", r[1], r[2]) EXCEPT
      !.data = MCBits(r[2], p), !.bytes = ByteCount(r[2]),
      !.len = 6 + ByteCount(r[2])] : r \in MCCoilRanges, p \in MCPatterns}
  \cup {[MCRequest("WriteHoldings", r[1], r[2]) EXCEPT
           !.data = MCBytes(2 * r[2]), !.bytes = 2 * r[2],
           !.len = 6 + 2 * r[2]] : r \in MCHoldingRanges}
  \cup {[MCRequest("ReadWriteHoldings", r[1], r[2]) EXCEPT
           !.rw = TRUE, !.waddr = r[3], !.wcnt = r[4],
           !.data = MCBytes(2 * r[4]), !.bytes = 2 * r[4],
           !.len = 10 + 2 * r[4]] :
          r \in {<<0, 2, 1, 1>>, <<2, 2, 0, 1>>, <<0, 1, 2, 2>>}}

MCRequests == MCReads \cup MCSingles \cup MCMultiples

(* Frames of the wrong length, byte count or value.  The one of length 7   *)
(* has less data than its byte count says.                                 *)
MCForeignRequests ==
  {[MCRequest("ReadHoldings", 0, 1) EXCEPT !.len = 6],
   MCRequest("WriteCoil", 0, 1),
   MCRequest("WriteCoils", 0, 2),
   [MCRequest("WriteCoils", 0, 3) EXCEPT !.bytes = 1, !.len = 7,
                                         !.data = MCBytes(1)],
   [MCRequest("WriteCoils", 0, 3) EXCEPT !.bytes = 2, !.len = 7,
                                         !.data = MCBits(3, ByteOf(3))],
   [MCRequest("WriteHoldings", 0, 2) EXCEPT !.bytes = 2, !.len = 8,
                                            !.data = MCBytes(2)],
   [MCRequest("ReadWriteHoldings", 0, 1) EXCEPT !.rw = TRUE, !.len = 9],
   [MCRequest("ReadWriteHoldings", 0, 1) EXCEPT
      !.rw = TRUE, !.wcnt = 2, !.bytes = 2, !.data = MCBytes(2), !.len = 12]}

MCFirstMemories ==
  {[coils |-> [i \in BitIndex(NCoils) |-> IF i \in {0, 3, 4} THEN 1 ELSE 0],
    discs |-> [i \in BitIndex(NDiscretes) |-> IF i \in {1, 2} THEN 1 ELSE 0],
    inputs |-> [i \in 0 .. NInputs - 1 |-> WordOf(5 + i)],
    holds |-> [i \in 0 .. NHoldings - 1 |-> WordOf(9 + i)]]}

MCRemovable == {"ReadInputs", "WriteCoil"}
=============================================================================
