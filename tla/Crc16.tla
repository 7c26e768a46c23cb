------------------------------- MODULE Crc16 -------------------------------
(***************************************************************************)
(* The CRC of floppy disk fields: CCITT, most significant bit first.       *)
(***************************************************************************)
EXTENDS Integers, Bitwise, Sequences

LOCAL Shifted(crc) == IF crc >= 32768 THEN ((2 * crc) % 65536) ^^ 4129 ELSE 2 * crc

\* crc16_table: eight steps at a time.
Crc16Table ==
    LET after[n \in 0 .. 8, i \in 0 .. 255] ==
            IF n = 0 THEN 256 * i ELSE Shifted(after[n - 1, i])
    IN [i \in 0 .. 255 |-> after[8, i]]

CalcCrc1(crc, c) == ((256 * crc) % 65536) ^^ Crc16Table[(crc \div 256) ^^ c]

CalcCrc(crc, bytes) ==
    LET upto[n \in 0 .. Len(bytes)] == IF n = 0 THEN crc ELSE CalcCrc1(upto[n - 1], bytes[n])
    IN upto[Len(bytes)]
=============================================================================
