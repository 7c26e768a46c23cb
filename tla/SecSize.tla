------------------------------ MODULE SecSize ------------------------------
(***************************************************************************)
(* Data bytes of a sector by the size code of its ID.  Sec128 stands for   *)
(* 128 bytes and Sec16 for 16, so that a model can use short sectors.      *)
(***************************************************************************)
EXTENDS Integers

CONSTANTS Sec128, Sec16

\* An FM code up to maxsize is IBM's; a larger one counts in units of 16,
\* and 0 can never be that.
SecSizeOf(sizecode, encoding, maxsize, quirk) ==
    (CASE encoding = "MFM"  -> Sec128 * 2^(sizecode % (maxsize + 1))
       [] encoding = "RX02" -> 2 * Sec128 * 2^(sizecode % (maxsize + 1))
       [] OTHER             -> IF sizecode <= maxsize
                               THEN Sec128 * 2^sizecode
                               ELSE Sec16 * sizecode)
    + (IF "EXTRA_DATA" \in quirk THEN 4 ELSE 0)
=============================================================================
