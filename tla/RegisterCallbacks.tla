-------------------------- MODULE RegisterCallbacks --------------------------
(***************************************************************************)
(* The registers of the application and the callbacks through which both   *)
(* stacks reach them: port/user_mb_app.c, port/user_mb_app_m.c, and the    *)
(* bit utilities of modbus/functions/mbutils.c.                            *)
(*                                                                         *)
(* A memory has four tables.  Coils and discrete inputs are arrays of      *)
(* bytes, modelled bit by bit, together with the byte behind the array,    *)
(* which the utilities read and write although it belongs to something     *)
(* else.  A register is the pair of its high and its low byte.  The data   *)
(* of a frame is a sequence of bytes, and a byte is a function of its bits.*)
(*                                                                         *)
(* All tables begin at address 0, as user_mb_app.h has it.  The handlers   *)
(* add one to an address and the callbacks subtract it, both in 16 bits:   *)
(* nothing is left of that here.                                           *)
(***************************************************************************)
EXTENDS Integers, Sequences

CONSTANTS BitsUchar,    \* BITS_UCHAR
          NCoils,       \* S_COIL_NCOILS, M_COIL_NCOILS
          NDiscretes,   \* S_DISCRETE_INPUT_NDISCRETES, M_...
          NInputs,      \* S_REG_INPUT_NREGS, M_...
          NHoldings     \* S_REG_HOLDING_NREGS, M_...

ASSUME SizesAssumption ==
  /\ BitsUchar \in Nat \ {0}
  /\ NCoils \in Nat \ {0} /\ NDiscretes \in Nat \ {0}
  /\ NInputs \in Nat \ {0} /\ NHoldings \in Nat \ {0}

Bit == {0, 1}
Byte == [0 .. BitsUchar - 1 -> Bit]
Word == Byte \X Byte

(* The byte, and the word, of a number. *)
ByteOf(v) == [k \in 0 .. BitsUchar - 1 |-> (v \div 2 ^ k) % 2]
WordOf(v) == <<ByteOf(v \div 2 ^ BitsUchar), ByteOf(v % 2 ^ BitsUchar)>>

(* Bytes that hold n bits. *)
ByteCount(n) == (n + BitsUchar - 1) \div BitsUchar

(* Indices of an array of n bits, with the byte behind it. *)
BitIndex(n) == 0 .. BitsUchar * (ByteCount(n) + 1) - 1

Behind(n) == {i \in BitIndex(n) : i >= BitsUchar * ByteCount(n)}

Memories == [coils : [BitIndex(NCoils) -> Bit],
             discs : [BitIndex(NDiscretes) -> Bit],
             inputs : [0 .. NInputs - 1 -> Word],
             holds : [0 .. NHoldings - 1 -> Word]]

-----------------------------------------------------------------------------
\* faulty variant: a whole byte is set, whatever the number of bits
xMBUtilSetByte(buf, off, n, value) ==
  [i \in DOMAIN buf |->
     IF i - off \in 0 .. BitsUchar - 1 THEN value[i - off] ELSE buf[i]]

(* xMBUtilSetBits works on the two bytes that begin with the one of the    *)
(* first bit.  It clears the n bits from off on and then or-s in the       *)
(* value, a byte: also the bits of it beyond the first n.                  *)
xMBUtilSetBits(buf, off, n, value) ==
  LET shift == off % BitsUchar
      first == off - shift
      Shifted(k) == IF k \in shift .. shift + BitsUchar - 1
                    THEN value[k - shift] ELSE 0
      Masked(k) == k \in shift .. shift + n - 1
  IN  [i \in DOMAIN buf |->
         IF /\ i - first \in 0 .. 2 * BitsUchar - 1
            /\ Masked(i - first) \/ Shifted(i - first) = 1
         THEN Shifted(i - first) ELSE buf[i]]

xMBUtilGetBits(buf, off, n) ==
  [k \in 0 .. BitsUchar - 1 |-> IF k < n THEN buf[off + k] ELSE 0]

-----------------------------------------------------------------------------
(* The range check of every callback. *)
InRange(addr, n, size) == addr + n <= size

(* MB_REG_READ of eMBRegCoilsCB, and eMBRegDiscreteCB: whole bytes, the    *)
(* last of them cut to the bits that were asked for.                       *)
BitsRead(buf, addr, n) ==
  [j \in 1 .. ByteCount(n) |->
     LET left == n - BitsUchar * (j - 1) IN
     xMBUtilGetBits(buf, addr + n - left,
                    IF left < BitsUchar THEN left ELSE BitsUchar)]

(* MB_REG_WRITE of eMBRegCoilsCB, eMBMasterRegCoilsCB and                  *)
(* eMBMasterRegDiscreteCB: whole bytes first, then the rest, of whose byte *)
(* xMBUtilSetBits gets every bit.                                          *)
BitsWritten(buf, addr, n, data) ==
  LET whole == n \div BitsUchar
      rest  == n % BitsUchar
      put[j \in 0 .. whole] ==
        IF j = 0 THEN buf
        ELSE xMBUtilSetBits(put[j - 1], addr + BitsUchar * (j - 1), BitsUchar,
                            data[j])
  IN  IF rest = 0 THEN put[whole]
      ELSE xMBUtilSetBits(put[whole], addr + BitsUchar * whole, rest,
                          data[whole + 1])

\* faulty variant: the low byte of a register comes first
RegsWrittenLowFirst(regs, addr, n, data) ==
  [i \in DOMAIN regs |->
     IF i \in addr .. addr + n - 1
     THEN <<data[2 * (i - addr) + 2], data[2 * (i - addr) + 1]>> ELSE regs[i]]

(* The loops of eMBRegInputCB, eMBRegHoldingCB and their master versions:  *)
(* the high byte of a register goes first.                                 *)
RegsRead(regs, addr, n) ==
  [j \in 1 .. 2 * n |-> regs[addr + (j - 1) \div 2][1 + ((j - 1) % 2)]]

RegsWritten(regs, addr, n, data) ==
  [i \in DOMAIN regs |->
     IF i \in addr .. addr + n - 1
     THEN <<data[2 * (i - addr) + 1], data[2 * (i - addr) + 2]>> ELSE regs[i]]
=============================================================================
