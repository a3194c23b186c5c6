---------------------------- MODULE MCOtaRecords ----------------------------
(***************************************************************************)
(* OtaRecords on three partitions (one of them a raw image), two record     *)
(* slots, and two updates in a row, of two packages each.  The packages of  *)
(* the first share no partition; the second has some of them again, and     *)
(* one of them twice.                                                       *)
(***************************************************************************)
EXTENDS OtaRecords

CONSTANTS boot, system, vendor, base, cust, next

MCPartsOf == [k \in {base, cust, next} |->
                CASE k = base -> <<system, boot>>
                  [] k = cust -> <<vendor>>
                  [] k = next -> <<boot, vendor>>]

MCUpdates == {<<base, cust>>, <<next, cust>>}

\* Updates that leave nothing to each other but records and files.
MCUpdatesApart == {<<base, cust>>, <<next>>}
=============================================================================
