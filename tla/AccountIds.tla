----------------------------- MODULE AccountIds -----------------------------
(***************************************************************************)
(* Account ids, as src/utils/accountIdUtils.ts reads them: an unsigned     *)
(* integer whose high bits are the driver.  In the code the driver has 32  *)
(* bits and the account 224.                                               *)
(***************************************************************************)
EXTENDS Integers

CONSTANTS DriverBits, BodyBits

ASSUME WidthAssumption == DriverBits \in Nat \ {0} /\ BodyBits \in Nat

(* The range of a uint256.                                                 *)
Ids == 0..(2^(DriverBits + BodyBits) - 1)

(* An id out of range and an unknown driver are errors.                    *)
GetContractNameFromAccountId(id) ==
    LET bits == (id \div 2^BodyBits) % 2^DriverBits
    IN  IF id \notin Ids THEN "error"
        ELSE CASE bits = 0 -> "addressDriver"
               [] bits = 1 -> "nftDriver"
               [] bits = 2 -> "immutableSplitsDriver"
               [] bits = 3 -> "repoDriver"
               [] bits = 4 -> "repoSubAccountDriver"
               [] OTHER -> "error"

IsAddressDriverId(id)         == GetContractNameFromAccountId(id) = "addressDriver"
IsNftDriverId(id)             == GetContractNameFromAccountId(id) = "nftDriver"
IsImmutableSplitsDriverId(id) == GetContractNameFromAccountId(id) = "immutableSplitsDriver"
IsRepoDriverId(id)            == GetContractNameFromAccountId(id) = "repoDriver"
IsRepoSubAccountDriverId(id)  == GetContractNameFromAccountId(id) = "repoSubAccountDriver"

(* repoSubAccountDriver.calcAccountId: the other of the two drivers, with  *)
(* the same account below it.                                              *)
CalcAccountId(id) == IF IsRepoDriverId(id) THEN id + 2^BodyBits ELSE id - 2^BodyBits

(* transformRepoDriverId in its two directions; NoId is an error.          *)
NoId == -1

Transform(id, IsSource(_), IsTarget(_)) ==
    LET transformed == CalcAccountId(id)
    IN  IF IsSource(id) /\ IsTarget(transformed) /\ CalcAccountId(transformed) = id
        THEN transformed ELSE NoId

CalcParentRepoDriverId(id) == Transform(id, IsRepoSubAccountDriverId, IsRepoDriverId)
CalcSubRepoDriverId(id)    == Transform(id, IsRepoDriverId, IsRepoSubAccountDriverId)
=============================================================================
