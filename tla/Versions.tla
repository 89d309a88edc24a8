------------------------------ MODULE Versions ------------------------------
(***************************************************************************)
(* The API versions this program knows.  The list is written down once per *)
(* use, between markers that the generator of the project rewrites: which  *)
(* catalogs are embedded, which schemas, which versions setup offers and   *)
(* which ones `versions` prints.  The guided prompts name, by hand, the    *)
(* versions each of them needs.  Nothing but the labels ties these tables  *)
(* together.                                                               *)
(***************************************************************************)

\* store.rs: the catalogs compiled in, which resolve_store_path looks up.
VersionStoreBytes == {
    "general-1.2.0", "incident-4.2.6",
    "knowledge-base-before-explorer-migration",
    "knowledge-base-after-explorer-migration", "knowledgebase-graphql-1.0.0",
    "reservations-2.0.0", "services-1.3.7", "change-1.4.0", "assets-1.91.1",
    "operations-management-1.10.0", "visitors-2.0.0",
    "supporting-files-2.7.11", "access-roles-saas",
    "access-roles-va-release-1-2026", "lookandfeel-1.0.0",
    "task-notifications-1.0.0", "settings-1.1.0",
    "custom-action-support-saas",
    "custom-action-support-va-release-1-2023-or-newer" }

\* store.rs: the files that populate_embeddings walks to produce them.
VersionStoreFiles == {
    "general-1.2.0", "incident-4.2.6",
    "knowledge-base-before-explorer-migration",
    "knowledge-base-after-explorer-migration", "knowledgebase-graphql-1.0.0",
    "reservations-2.0.0", "services-1.3.7", "change-1.4.0", "assets-1.91.1",
    "operations-management-1.10.0", "visitors-2.0.0",
    "supporting-files-2.7.11", "access-roles-saas",
    "access-roles-va-release-1-2026", "lookandfeel-1.0.0",
    "task-notifications-1.0.0", "settings-1.1.0",
    "custom-action-support-saas",
    "custom-action-support-va-release-1-2023-or-newer" }

\* validator.rs: the labels for which schemas_zst_for has an asset.
SchemaLabels == {
    "general-1.2.0", "incident-4.2.6",
    "knowledge-base-before-explorer-migration",
    "knowledge-base-after-explorer-migration", "knowledgebase-graphql-1.0.0",
    "reservations-2.0.0", "services-1.3.7", "change-1.4.0", "assets-1.91.1",
    "operations-management-1.10.0", "visitors-2.0.0",
    "supporting-files-2.7.11", "access-roles-saas",
    "access-roles-va-release-1-2026", "lookandfeel-1.0.0",
    "task-notifications-1.0.0", "settings-1.1.0",
    "custom-action-support-saas",
    "custom-action-support-va-release-1-2023-or-newer" }

\* cli/versions.rs: what `topdesk-mcp versions` lists.
KnownVersions == {
    "general-1.2.0", "incident-4.2.6",
    "knowledge-base-before-explorer-migration",
    "knowledge-base-after-explorer-migration", "knowledgebase-graphql-1.0.0",
    "reservations-2.0.0", "services-1.3.7", "change-1.4.0", "assets-1.91.1",
    "operations-management-1.10.0", "visitors-2.0.0",
    "supporting-files-2.7.11", "access-roles-saas",
    "access-roles-va-release-1-2026", "lookandfeel-1.0.0",
    "task-notifications-1.0.0", "settings-1.1.0",
    "custom-action-support-saas",
    "custom-action-support-va-release-1-2023-or-newer" }

\* config_schema.rs
DefaultApiVersion == "general-1.2.0"

\* setup_wizard.rs: the choices of prompt_api_version as shown.
VersionChoices == {
    "general-1.2.0 (default/latest)",
    "incident-4.2.6", "knowledge-base-before-explorer-migration",
    "knowledge-base-after-explorer-migration", "knowledgebase-graphql-1.0.0",
    "reservations-2.0.0", "services-1.3.7", "change-1.4.0", "assets-1.91.1",
    "operations-management-1.10.0", "visitors-2.0.0",
    "supporting-files-2.7.11", "access-roles-saas",
    "access-roles-va-release-1-2026", "lookandfeel-1.0.0",
    "task-notifications-1.0.0", "settings-1.1.0",
    "custom-action-support-saas",
    "custom-action-support-va-release-1-2023-or-newer" }

\* Mutant: the choice is used as it is shown.
ShownLabel(choice) == choice

\* The label prompt_api_version makes of a choice.
LabelOf(choice) ==
  IF choice = "general-1.2.0 (default/latest)" THEN "general-1.2.0" ELSE choice

\* prompts/router.rs: the versions each guided prompt needs; topdesk-menu
\* needs none.
PromptCatalogs == [
  change_management_lifecycle |->
    {"change-1.4.0"},
  incident_lifecycle |->
    {"incident-4.2.6"},
  asset_management_basics |->
    {"assets-1.91.1"},
  knowledge_base_lifecycle |->
    {"knowledge-base-before-explorer-migration",
     "knowledge-base-after-explorer-migration", "knowledgebase-graphql-1.0.0"},
  reservations_booking |->
    {"reservations-2.0.0"},
  reference_data_lookup |->
    {"supporting-files-2.7.11"},
  visitor_registration |->
    {"visitors-2.0.0"},
  operations_management_tasks |->
    {"operations-management-1.10.0"},
  access_roles_assignment |->
    {"access-roles-saas", "access-roles-va-release-1-2026"},
  self_service_portal_requests |->
    {"incident-4.2.6", "change-1.4.0", "reservations-2.0.0"} ]

Prompts == DOMAIN PromptCatalogs

\* catalog_check_block, the head of every guided prompt.
CatalogCheck(active_api_version, expected) ==
  IF active_api_version \in expected THEN "match" ELSE "mismatch"
=============================================================================
