---------------------------- MODULE MCNftAccount ----------------------------
(* Small instances of NftAccount for TLC.                                  *)
EXTENDS NftAccount

CONSTANT sA

Doc(type, splits, visible) ==
    [type |-> type, splits |-> splits, visible |-> visible,
     describes |-> TRUE, sources |-> TRUE]

(* Both kinds, shown and hidden, one with sources that do not match.       *)
MCDocuments ==
    {Doc("dripList", sA, FALSE), Doc("ecosystem", sA, FALSE),
     [Doc("ecosystem", NoSplits, TRUE) EXCEPT !.sources = FALSE],
     [Doc("dripList", NoSplits, TRUE) EXCEPT !.sources = FALSE],
     [Doc("dripList", NoSplits, TRUE) EXCEPT !.describes = FALSE],
     Doc("dripList", NoSplits, TRUE)}
=============================================================================
