------------------------------- MODULE Schema -------------------------------
(***************************************************************************)
(* The database schema under scripts/run-migrations.ts and                 *)
(* revert-migration.ts: Umzug runs the pending migrations in order, or     *)
(* reverts the last, and records each one after its last statement.        *)
(* Nothing puts the statements of a migration into one transaction, so a   *)
(* script that is interrupted leaves the schema half changed.              *)
(***************************************************************************)
EXTENDS Tables, SequencesExt

VARIABLES
    db,         \* the enumerations, tables and indexes there are
    recorded,   \* sequelize_meta: how many migrations are recorded
    script,     \* the script that runs: its direction, migration and statement
    unclaimed,  \* linked_identities has a row without an owner
    torn        \* history: directions in which a script was interrupted halfway

vars == <<db, recorded, script, unclaimed, torn>>

(* Name to values, name to columns and enumerations, table and number.     *)
NoTables == [enums |-> [e \in {} |-> {}], tables |-> [t \in {} |-> {}], indexes |-> {}]

Without(f, key)  == [x \in DOMAIN f \ {key} |-> f[x]]
With(f, key, to) == [x \in DOMAIN f \union {key} |-> IF x = key THEN to ELSE f[x]]

----------------------------------------------------------------------------
(* Statements.                                                             *)
CreateType(name, values) == [op |-> "createType", of |-> name, values |-> values]
AddValue(name, values)   == [op |-> "addValue", of |-> name, values |-> values]
DropType(name)           == [op |-> "dropType", of |-> name]
CreateTable(name, table) == [op |-> "createTable", of |-> name, table |-> table]
AddIndex(name, index)    == [op |-> "addIndex", of |-> name, index |-> index]
DropTable(name)          == [op |-> "dropTable", of |-> name]
DropNotNull(name, cols)  == [op |-> "dropNotNull", of |-> name, columns |-> cols]
SetNotNull(name, cols)   == [op |-> "setNotNull", of |-> name, columns |-> cols]
Rename(name, from, to)   == [op |-> "rename", of |-> name, from |-> from, to |-> to]

TableWithIndexes(name, table) ==
    <<CreateTable(name, table)>> \o [i \in 1..table.indexes |-> AddIndex(name, i)]

InitialCreate ==
    <<CreateType("account_type", {"project", "drip_list", "ecosystem_main_account",
                                  "sub_list", "deadline", "address"}),
      CreateType("relationship_type", {"project_dependency", "project_maintainer",
                                       "drip_list_receiver", "ecosystem_receiver",
                                       "sub_list_link", "sub_list_receiver"}),
      CreateType("project_verification_status", {"claimed", "unclaimed", "pending_metadata"}),
      CreateType("forges", {"github", "gitlab"})>>
    \o TableWithIndexes("splits_receivers", SplitsReceivers)
    \o TableWithIndexes("account_metadata_emitted_events", AccountMetadataEmittedEvents)
    \o TableWithIndexes("projects", Projects)
    \o TableWithIndexes("drip_lists", DripLists)
    \o TableWithIndexes("ecosystem_main_accounts", EcosystemMainAccounts)
    \o TableWithIndexes("transfer_events", TransferEvents)
    \o TableWithIndexes("sub_lists", SubLists)
    \o TableWithIndexes("last_indexed_block", LastIndexedBlocks)
    \o TableWithIndexes("given_events", GivenEvents)
    \o TableWithIndexes("split_events", SplitEvents)
    \o TableWithIndexes("squeezed_streams_events", SqueezedStreamsEvents)
    \o TableWithIndexes("stream_receiver_seen_events", StreamReceiverSeenEvents)
    \o TableWithIndexes("streams_set_events", StreamsSetEvents)
    \o TableWithIndexes("splits_set_events", SplitsSetEvents)
    \o TableWithIndexes("owner_updated_events", OwnerUpdatedEvents)

(* Faulty variant: one of the enumerations is not extended.                *)
AddLinkedIdentitiesOnly ==
    <<AddValue("account_type", {"linked_identity"}),
      CreateType("linked_identity_types", {"orcid"})>>
    \o TableWithIndexes("linked_identities", LinkedIdentities)

AddLinkedIdentities ==
    <<AddValue("account_type", {"linked_identity"}),
      AddValue("relationship_type", {"identity_owner"}),
      CreateType("linked_identity_types", {"orcid"})>>
    \o TableWithIndexes("linked_identities", LinkedIdentities)

Owner == {"ownerAddress", "ownerAccountId"}

(* Faulty variant: the column keeps its new name.                          *)
RevertRenameIsLinkedNot == << >>

(* The default of is_linked makes no difference: the model supplies one.   *)
MakeOwnersNullable   == <<DropNotNull("linked_identities", Owner)>>
RenameIsLinked       == <<Rename("linked_identities", "isLinked", "areSplitsValid")>>
RevertOwnersNullable == <<SetNotNull("linked_identities", Owner)>>
RevertRenameIsLinked == <<Rename("linked_identities", "areSplitsValid", "isLinked")>>

(* Faulty variant: the enumeration is left behind.                         *)
DropLinkedIdentitiesTable == <<DropTable("linked_identities")>>

(* The values that were added to the other enumerations cannot be removed. *)
DropLinkedIdentities == <<DropTable("linked_identities"), DropType("linked_identity_types")>>

DropAll ==
    [i \in 1..15 |->
        DropTable(<<"owner_updated_events", "splits_set_events", "streams_set_events",
                    "stream_receiver_seen_events", "squeezed_streams_events", "split_events",
                    "given_events", "sub_lists", "drip_lists", "ecosystem_main_accounts",
                    "projects", "account_metadata_emitted_events", "transfer_events",
                    "splits_receivers", "last_indexed_block">>[i])]
    \o <<DropType("account_type"), DropType("relationship_type"),
         DropType("project_verification_status"), DropType("forges")>>

Statements ==
    [up   |-> <<InitialCreate, AddLinkedIdentities, MakeOwnersNullable, RenameIsLinked>>,
     down |-> <<DropAll, DropLinkedIdentities, RevertOwnersNullable, RevertRenameIsLinked>>]

Latest == Len(Statements.up)

----------------------------------------------------------------------------
(* Postgres: when a statement succeeds, and what it does then.             *)
Columns(table) == table.required \union table.optional
Has(d, name, columns) ==
    name \in DOMAIN d.tables /\ columns \subseteq Columns(d.tables[name])

Succeeds(s) ==
    \/ s.op = "createType"  /\ s.of \notin DOMAIN db.enums
    \/ s.op = "addValue"    /\ s.of \in DOMAIN db.enums
    \/ s.op = "dropType"    /\ \A t \in DOMAIN db.tables : s.of \notin db.tables[t].enums
    \/ s.op = "createTable" /\ s.table.enums \subseteq DOMAIN db.enums
    \/ s.op = "addIndex"    /\ s.of \in DOMAIN db.tables
                            /\ <<s.of, s.index>> \notin db.indexes
    \/ s.op = "dropTable"
    \/ s.op = "dropNotNull" /\ Has(db, s.of, s.columns)
    \/ s.op = "setNotNull"  /\ Has(db, s.of, s.columns) /\ ~unclaimed
    \/ s.op = "rename"      /\ Has(db, s.of, {s.from}) /\ ~Has(db, s.of, {s.to})

Renamed(columns, s) ==
    IF s.from \in columns THEN (columns \ {s.from}) \union {s.to} ELSE columns

(* Tables are created and dropped only if they are not, or are, there.     *)
After(d, s) ==
    CASE s.op = "createType" -> [d EXCEPT !.enums = With(@, s.of, s.values)]
      [] s.op = "addValue"   -> [d EXCEPT !.enums[s.of] = @ \union s.values]
      [] s.op = "dropType"   -> [d EXCEPT !.enums = Without(@, s.of)]
      [] s.op = "createTable" -> IF s.of \in DOMAIN d.tables THEN d
                                 ELSE [d EXCEPT !.tables = With(@, s.of, s.table)]
      [] s.op = "addIndex"   -> [d EXCEPT !.indexes = @ \union {<<s.of, s.index>>}]
      [] s.op = "dropTable"  -> [d EXCEPT !.tables = Without(@, s.of),
                                          !.indexes = {i \in @ : i[1] # s.of}]
      [] s.op = "dropNotNull" -> [d EXCEPT !.tables[s.of].required = @ \ s.columns,
                                           !.tables[s.of].optional = @ \union s.columns]
      [] s.op = "setNotNull" -> [d EXCEPT !.tables[s.of].required = @ \union s.columns,
                                          !.tables[s.of].optional = @ \ s.columns]
      [] s.op = "rename"     -> [d EXCEPT !.tables[s.of].required = Renamed(@, s),
                                          !.tables[s.of].optional = Renamed(@, s)]

----------------------------------------------------------------------------
Idle == [direction |-> "none", migration |-> 0, next |-> 1]

Running(direction, migration) ==
    [direction |-> direction, migration |-> migration, next |-> 1]

AtRest  == script = Idle
Current == Statements[script.direction][script.migration]
Finished    == script.next > Len(Current)

Init ==
    /\ db = NoTables
    /\ recorded = 0
    /\ script = Idle
    /\ unclaimed = FALSE
    /\ torn = {}

RunMigrations ==
    /\ AtRest /\ recorded < Latest
    /\ script' = Running("up", recorded + 1)
    /\ UNCHANGED <<db, recorded, unclaimed, torn>>

RevertLastMigration ==
    /\ AtRest /\ recorded > 0
    /\ script' = Running("down", recorded)
    /\ UNCHANGED <<db, recorded, unclaimed, torn>>

Execute ==
    /\ ~AtRest /\ ~Finished
    /\ Succeeds(Current[script.next])
    /\ db' = After(db, Current[script.next])
    /\ unclaimed' = (unclaimed /\ "linked_identities" \in DOMAIN db'.tables)
    /\ script' = [script EXCEPT !.next = @ + 1]
    /\ UNCHANGED <<recorded, torn>>

(* Umzug records the migration, and goes on with the next pending one.     *)
Record ==
    /\ ~AtRest /\ Finished
    /\ IF script.direction = "up"
       THEN /\ recorded' = script.migration
            /\ script' = IF script.migration < Latest
                         THEN Running("up", script.migration + 1) ELSE Idle
       ELSE /\ recorded' = script.migration - 1
            /\ script' = Idle
    /\ UNCHANGED <<db, unclaimed, torn>>

(* A statement fails and ends the script; those before it stay.            *)
Fail ==
    /\ ~AtRest /\ ~Finished
    /\ ~Succeeds(Current[script.next])
    /\ script' = Idle
    /\ torn' = IF script.next > 1 THEN torn \union {script.direction} ELSE torn
    /\ UNCHANGED <<db, recorded, unclaimed>>

(* The script is stopped or loses its connection.                          *)
Interrupt ==
    /\ ~AtRest
    /\ script' = Idle
    /\ torn' = IF script.next > 1 THEN torn \union {script.direction} ELSE torn
    /\ UNCHANGED <<db, recorded, unclaimed>>

(* The processor stores and claims linked identities.                      *)
LinkedIdentitiesWork ==
    /\ Has(db, "linked_identities", Columns(LinkedIdentityModel))
    /\ Owner \subseteq db.tables["linked_identities"].optional

EnsureIdentity ==
    /\ LinkedIdentitiesWork /\ ~unclaimed
    /\ unclaimed' = TRUE
    /\ UNCHANGED <<db, recorded, script, torn>>

ClaimIdentities ==
    /\ LinkedIdentitiesWork /\ unclaimed
    /\ unclaimed' = FALSE
    /\ UNCHANGED <<db, recorded, script, torn>>

Next ==
    \/ RunMigrations \/ RevertLastMigration
    \/ Execute \/ Record \/ Fail \/ Interrupt
    \/ EnsureIdentity \/ ClaimIdentities

Spec == Init /\ [][Next]_vars

----------------------------------------------------------------------------
(* Every row a model writes has its columns and every column it may leave  *)
(* empty may be NULL; every enumeration has the values the code writes.    *)
Fits ==
    /\ \A t \in DOMAIN Models :
          /\ Has(db, t, Columns(Models[t]))
          /\ db.tables[t].required \subseteq Models[t].required
    /\ \A e \in DOMAIN Written : e \in DOMAIN db.enums /\ Written[e] \subseteq db.enums[e]

(* When the script calls the database up to date, the models fit it, even  *)
(* after runs that were interrupted and started again; only a revert that  *)
(* was interrupted is believed to be undone.                               *)
FitsWhenUpToDate == AtRest /\ recorded = Latest /\ "down" \notin torn => Fits

(* Migrations and reverts only fail after a script was interrupted         *)
(* halfway, or when unclaimed identities are in the way of a revert: any   *)
(* other sequence of runs and reverts goes through.                        *)
ErrorsExplained == [][Fail => torn # {} \/ unclaimed]_vars

(* What the first n migrations make of an empty database.                  *)
Made ==
    [n \in 0..Latest |->
        FoldLeft(After, NoTables, FlattenSeq(SubSeq(Statements.up, 1, n)))]

(* A revert undoes its migration: without interruptions the schema only    *)
(* depends on the migrations that are recorded, however often they were    *)
(* run and reverted, but for values that stay in an enumeration.           *)
RevertRestores ==
    AtRest /\ torn = {} =>
        /\ db.tables = Made[recorded].tables
        /\ db.indexes = Made[recorded].indexes
        /\ DOMAIN db.enums = DOMAIN Made[recorded].enums
=============================================================================
