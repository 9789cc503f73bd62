------------------------------- MODULE Tables -------------------------------
(***************************************************************************)
(* The tables that the migrations create and the attributes of the models  *)
(* that read and write them.  Columns have the names of the models'        *)
(* attributes: both sides turn them to snake case in the same way.  Of a   *)
(* column's type only the enumerations are told apart.                     *)
(***************************************************************************)
EXTENDS Naturals

(* COMMON_EVENT_INIT_ATTRIBUTES, shared by migrations and models.          *)
Common == {"transactionHash", "logIndex", "blockTimestamp", "blockNumber",
           "createdAt", "updatedAt"}
Stamps == {"createdAt", "updatedAt"}

----------------------------------------------------------------------------
(* The migrations: columns that are and are not NOT NULL, the enumerations *)
(* the columns are of, and how many indexes are added after the table.     *)
Table(required, optional, enums, indexes) ==
    [required |-> required, optional |-> optional, enums |-> enums, indexes |-> indexes]

EventTable(required, indexes) == Table(Common \union required, {}, {}, indexes)

SplitsReceivers ==
    Table(Stamps \union {"id", "receiverAccountId", "receiverAccountType", "senderAccountId",
                         "senderAccountType", "relationshipType", "weight", "blockTimestamp"},
          {"splitsToRepoDriverSubAccount"}, {"account_type", "relationship_type"}, 2)
AccountMetadataEmittedEvents == EventTable({"key", "value", "accountId"}, 1)
Projects ==
    Table(Stamps \union {"accountId", "isValid", "isVisible", "verificationStatus",
                         "lastProcessedVersion"},
          {"name", "ownerAddress", "ownerAccountId", "forge", "url", "emoji", "avatarCid",
           "color", "lastProcessedIpfsHash", "claimedAt"},
          {"project_verification_status", "forges"}, 3)
DripLists ==
    Table(Stamps \union {"accountId", "isValid", "ownerAddress", "ownerAccountId", "isVisible",
                         "lastProcessedIpfsHash", "lastProcessedVersion"},
          {"name", "latestVotingRoundId", "description", "creator", "previousOwnerAddress"},
          {}, 1)
EcosystemMainAccounts ==
    Table(Stamps \union {"accountId", "isValid", "ownerAddress", "ownerAccountId", "isVisible",
                         "lastProcessedIpfsHash", "lastProcessedVersion", "avatar", "color"},
          {"name", "description", "creator", "previousOwnerAddress"}, {}, 1)
TransferEvents == EventTable({"tokenId", "from", "to"}, 2)
SubLists ==
    Table(Stamps \union {"accountId", "isValid", "parentAccountId", "parentAccountType",
                         "rootAccountId", "rootAccountType", "lastProcessedIpfsHash"},
          {}, {"account_type"}, 3)
LastIndexedBlocks        == Table(Stamps \union {"id", "blockNumber"}, {}, {}, 0)
GivenEvents              == EventTable({"accountId", "receiver", "erc20", "amt"}, 4)
SplitEvents              == EventTable({"accountId", "receiver", "erc20", "amt"}, 2)
SqueezedStreamsEvents    == EventTable({"accountId", "erc20", "senderId", "amount",
                                        "streamsHistoryHashes"}, 0)
StreamReceiverSeenEvents == EventTable({"accountId", "config", "receiversHash"}, 1)
StreamsSetEvents         == EventTable({"accountId", "erc20", "receiversHash",
                                        "streamsHistoryHash", "balance", "maxEnd"}, 2)
SplitsSetEvents          == EventTable({"accountId", "receiversHash"}, 0)
OwnerUpdatedEvents       == EventTable({"owner", "accountId"}, 0)
LinkedIdentities ==
    Table(Stamps \union {"accountId", "identityType", "ownerAddress", "ownerAccountId",
                         "isLinked", "lastProcessedVersion"},
          {}, {"linked_identity_types"}, 2)

----------------------------------------------------------------------------
(* The models: attributes they always supply and attributes that may be    *)
(* null.                                                                   *)
Model(required, optional) == [required |-> required, optional |-> optional]
EventModel(required)      == Model(Common \union required, {})

SplitsReceiverModel ==
    Model(Stamps \union {"id", "receiverAccountId", "receiverAccountType", "senderAccountId",
                         "senderAccountType", "relationshipType", "weight", "blockTimestamp"},
          {"splitsToRepoDriverSubAccount"})
AccountMetadataEmittedEventModel == EventModel({"key", "value", "accountId"})
ProjectModel ==
    Model(Stamps \union {"accountId", "isValid", "isVisible", "verificationStatus",
                         "lastProcessedVersion"},
          {"name", "ownerAddress", "ownerAccountId", "forge", "url", "emoji", "avatarCid",
           "color", "lastProcessedIpfsHash", "claimedAt"})
DripListModel ==
    Model(Stamps \union {"accountId", "isValid", "ownerAddress", "ownerAccountId", "isVisible",
                         "lastProcessedIpfsHash", "lastProcessedVersion"},
          {"name", "latestVotingRoundId", "description", "creator", "previousOwnerAddress"})
EcosystemMainAccountModel ==
    Model(Stamps \union {"accountId", "isValid", "ownerAddress", "ownerAccountId",
                         "previousOwnerAddress", "isVisible", "lastProcessedIpfsHash",
                         "lastProcessedVersion", "avatar", "color"},
          {"name", "description", "creator"})
TransferEventModel == EventModel({"tokenId", "from", "to"})
SubListModel ==
    Model(Stamps \union {"accountId", "isValid", "parentAccountId", "parentAccountType",
                         "rootAccountId", "rootAccountType", "lastProcessedIpfsHash"}, {})
LastIndexedBlockModel        == Model(Stamps \union {"id", "blockNumber"}, {})
GivenEventModel              == EventModel({"accountId", "receiver", "erc20", "amt"})
SplitEventModel              == EventModel({"accountId", "receiver", "erc20", "amt"})
SqueezedStreamsEventModel    == EventModel({"accountId", "erc20", "senderId", "amount",
                                            "streamsHistoryHashes"})
StreamReceiverSeenEventModel == EventModel({"accountId", "config", "receiversHash"})
StreamsSetEventModel         == EventModel({"accountId", "erc20", "receiversHash",
                                            "streamsHistoryHash", "balance", "maxEnd"})
SplitsSetEventModel          == EventModel({"accountId", "receiversHash"})
OwnerUpdatedEventModel       == EventModel({"owner", "accountId"})
LinkedIdentityModel ==
    Model(Stamps \union {"accountId", "identityType", "areSplitsValid", "lastProcessedVersion"},
          {"ownerAddress", "ownerAccountId"})

Models ==
    [splits_receivers |-> SplitsReceiverModel,
     account_metadata_emitted_events |-> AccountMetadataEmittedEventModel,
     projects |-> ProjectModel, drip_lists |-> DripListModel,
     ecosystem_main_accounts |-> EcosystemMainAccountModel,
     transfer_events |-> TransferEventModel, sub_lists |-> SubListModel,
     last_indexed_block |-> LastIndexedBlockModel, given_events |-> GivenEventModel,
     split_events |-> SplitEventModel, squeezed_streams_events |-> SqueezedStreamsEventModel,
     stream_receiver_seen_events |-> StreamReceiverSeenEventModel,
     streams_set_events |-> StreamsSetEventModel, splits_set_events |-> SplitsSetEventModel,
     owner_updated_events |-> OwnerUpdatedEventModel, linked_identities |-> LinkedIdentityModel]

----------------------------------------------------------------------------
(* The splits the code may store: type of the sender, type of the          *)
(* receiver, relationship.                                                 *)
SplitRules ==
    ({"project"} \X {"project", "address", "drip_list", "linked_identity"}
                 \X {"project_dependency"})
    \union {<<"project", "address", "project_maintainer">>}
    \union ({"drip_list"} \X {"address", "drip_list", "project", "linked_identity"}
                          \X {"drip_list_receiver"})
    \union ({"ecosystem_main_account"} \X {"project", "linked_identity"}
                                       \X {"ecosystem_receiver"})
    \union ({"sub_list"} \X {"address", "drip_list", "project", "linked_identity"}
                         \X {"sub_list_receiver"})
    \union ({"ecosystem_main_account", "sub_list"} \X {"sub_list"} \X {"sub_list_link"})
    \union {<<"linked_identity", "address", "identity_owner">>}

(* The values of each enumeration that the code may write.                 *)
Written ==
    [account_type |-> {r[1] : r \in SplitRules} \union {r[2] : r \in SplitRules},
     relationship_type |-> {r[3] : r \in SplitRules},
     project_verification_status |-> {"claimed", "unclaimed", "pending_metadata"},
     forges |-> {"github", "gitlab"},
     linked_identity_types |-> {"orcid"}]
=============================================================================
