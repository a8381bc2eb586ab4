---------------------------- MODULE MCCatalogue -----------------------------
(* An instance of Catalogue: titles of at most 2, years from 1 to 2 past now, *)
(* which is 3 and then 4, and 32-bit integers from -6 to 5.  Accented has 2   *)
(* characters in 3 bytes; Coming is too far ahead before the year is 4.      *)
EXTENDS Catalogue, TLC

CONSTANTS Early, Middle, Late, Coming, Accented, Blank

Text(key, chars, bytes, pad) == [key |-> key, chars |-> chars, bytes |-> bytes, pad |-> pad]
Written(year) == [key |-> year, value |-> year]

MCTitle == Early :> Text(1, 1, 2, 0) @@ Middle :> Text(2, 1, 1, 0)
           @@ Coming :> Text(3, 2, 3, 1) @@ Late :> Text(4, 2, 2, 0)
           @@ Accented :> Text(5, 2, 3, 0) @@ Blank :> Text(0, 1, 1, 1)
MCYear == Early :> Written(1) @@ Middle :> Written(2) @@ Coming :> Written(6)
          @@ Late :> Written(3) @@ Accented :> Written(3) @@ Blank :> Written(3)

MCDocs == {Early, Middle, Late, Coming, Accented, Blank}
MCSeeds == {1 :> Late @@ 2 :> Middle @@ 3 :> Early, 1 :> Early @@ 2 :> Late,
            1 :> Late @@ 3 :> Early}
MCFilters == {MCDocs, {Early, Late, Coming}}
=============================================================================
