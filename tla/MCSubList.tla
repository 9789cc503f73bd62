------------------------------ MODULE MCSubList ------------------------------
(* A small instance of SubList for TLC.  Ids of 5 bits, 3 of them for the  *)
(* driver.                                                                 *)
EXTENDS SubList

To(id, type) == [accountId |-> id, type |-> type]

(* Two sub-accounts of repositories, a sub-list, a Drip List and an        *)
(* address; an address that passes for a Drip List.                        *)
MCReceivers ==
    {To(16, "repoSubAccountDriver"), To(19, "repoSubAccountDriver"),
     To(9, "subList"), To(5, "dripList"), To(1, "address"), To(1, "dripList")}

MCOthers == {<<[accountId |-> 9, weight |-> 1]>>}
==============================================================================
