---------------------------- MODULE Configuration ----------------------------
(***************************************************************************)
(* How settings get from `topdesk-mcp setup` (src/cli/setup_wizard.rs) to  *)
(* a process that uses them (load_config in src/core/config_manager.rs).   *)
(* Setup asks, stores the credentials, and writes the answers to one of    *)
(* several places or only prints them; fs::write empties a file before it  *)
(* fills it, and setup may die in between.  A process merges, key by key,  *)
(* its environment, the local file, the home file and the files of the     *)
(* machine, which it reads one after the other while setup may be writing. *)
(*                                                                         *)
(* Somebody may follow the advice of a guided prompt (prompts/mod.rs) and  *)
(* restart a server with another version, given in its environment or in a *)
(* file.                                                                   *)
(*                                                                         *)
(* One setup and one process at a time.  The remaining keys of Config have *)
(* defaults and are treated like "port".                                   *)
(***************************************************************************)
EXTENDS Versions, Integers, FiniteSets

CONSTANTS
  Text,           \* all texts
  Answers,        \* what setup may be told, see AnswersType
  ParsedU64,      \* the texts str::parse::<u64> accepts, with their value
  HandEnvs,       \* environments somebody may have written by hand
  MachineFiles,   \* what /etc and the install directory may give, merged
  Followed,       \* the guided prompts whose advice somebody may follow
  Unset, Nothing,
  MaxSetups,      \* bounds of the model: how often setup is run, and how often
  MaxRestarts     \* the advice of a prompt is followed

Keys == {"url", "auth_method", "api_version", "transport", "port"}
NumericKeys == {"port"}
NoSettings == [k \in Keys |-> Unset]

\* The two kinds of serde_json::Value a setting can have.
String(s) == [string |-> s]
Number(n) == [number |-> n]

Transports == {"stdio", "http"}
Places == {"dotenv", "global", "local", "stdout"}
AnswersType == [url : Text, choice : VersionChoices,
                transport : Transports, place : Places]

\* What a variable of the environment, and what a key of a file, can hold.
Texts == Text \cup {Unset}
Strings == [string : Text]
Numbers == [number : Nat]
Settings == Strings \cup Numbers \cup {Unset}

ASSUME ConfigurationAssumption ==
  /\ {"basic"} \cup Transports \cup VersionStoreBytes \subseteq Text
  /\ Answers \subseteq AnswersType
  /\ DOMAIN ParsedU64 \subseteq Text
  /\ \A t \in DOMAIN ParsedU64 : ParsedU64[t] \in Nat
  /\ HandEnvs \subseteq [Keys -> Texts]
  /\ MachineFiles \subseteq [Keys -> Settings]
  /\ Followed \subseteq Prompts
  /\ Unset \notin Text \cup Strings \cup Numbers
  /\ Nothing \notin AnswersType
  /\ MaxSetups \in Nat /\ MaxRestarts \in Nat

VARIABLES
  dotenv,       \* ./.env, as a map of texts
  local,        \* ./topdesk-mcp.config.yml
  home,         \* ~/.topdesk-mcp/config.yml
  machine,      \* the other two files
  printed,      \* the environment block printed last
  setup,        \* where setup is
  answers,      \* what it was told
  process,      \* where the process is
  launch,       \* how it was launched
  environ,      \* its environment, as a map of texts
  local_map, home_map,   \* what it has read
  config,       \* what load_config returned
  before,       \* history: the config of the server this one replaced, as advised
  edited,       \* history: a file was edited, as a prompt advised
  entered,      \* history: the URL the stored credentials were entered for
  saved,        \* history: the answers of a setup that ended undisturbed
  all_saved,    \* history: all answers given
  restarts,     \* how often the advice of a prompt was followed
  quiet         \* history: no setup was active since the launch, nor since
                \* that of the servers it replaced

fileVars == <<dotenv, local, home, machine>>
setupVars == <<printed, setup, answers, entered, saved, all_saved>>
launchVars ==
  <<process, launch, environ, local_map, home_map, config, before, edited,
    restarts>>
configVars == <<fileVars, setupVars, launchVars, quiet>>

NoLaunch == [command |-> "none", source |-> "none", port |-> Unset,
             advice |-> "none", prompt |-> "none"]

ConfigInit ==
  /\ dotenv = NoSettings /\ local = NoSettings /\ home = NoSettings
  /\ machine \in MachineFiles
  /\ printed = NoSettings
  /\ setup = "idle" /\ answers = Nothing
  /\ process = "down" /\ launch = NoLaunch
  /\ environ = NoSettings
  /\ local_map = NoSettings /\ home_map = NoSettings /\ config = NoSettings
  /\ before = NoSettings /\ edited = FALSE /\ restarts = 0
  /\ entered = Nothing /\ saved = Nothing /\ all_saved = {}
  /\ quiet = TRUE
-----------------------------------------------------------------------------
(* build_runtime_settings: the environment and the fields of config.yml.   *)

SettingsEnv(a) ==
  [NoSettings EXCEPT !["url"] = a.url,
                     !["auth_method"] = "basic",
                     !["api_version"] = LabelOf(a.choice),
                     !["transport"] = a.transport]

\* Mutant: the version is missing from the file.
FieldsWithoutVersion(a) ==
  [k \in Keys |-> IF SettingsEnv(a)[k] = Unset \/ k = "api_version"
                    THEN Unset ELSE String(SettingsEnv(a)[k])]

ConfigFields(a) ==
  [k \in Keys |-> IF SettingsEnv(a)[k] = Unset
                    THEN Unset ELSE String(SettingsEnv(a)[k])]
-----------------------------------------------------------------------------
(* run_setup_wizard.                                                       *)

\* The prompts: nothing is changed before all of them are answered.
Ask(a) ==
  /\ setup = "idle"
  /\ Cardinality(all_saved) < MaxSetups
  /\ setup' = "answered"
  /\ answers' = a
  /\ saved' = Nothing
  /\ all_saved' = all_saved \cup {a}
  /\ quiet' = FALSE
  /\ UNCHANGED <<fileVars, launchVars, printed, entered>>

\* save_credential
StoreCredentials ==
  /\ setup = "answered"
  /\ setup' = "stored"
  /\ entered' = answers.url
  /\ UNCHANGED <<fileVars, launchVars, printed, answers, saved,
                 all_saved, quiet>>

\* Mutant: a file is written though the settings were only to be printed.
CreateAnyway ==
  /\ setup = "stored"
  /\ setup' = "created"
  /\ dotenv' = IF answers.place = "dotenv" THEN NoSettings ELSE dotenv
  /\ local' = IF answers.place = "local" THEN NoSettings ELSE local
  /\ home' = IF answers.place = "global" THEN NoSettings ELSE home
  /\ UNCHANGED <<machine, launchVars, printed, answers, entered,
                 saved, all_saved, quiet>>

\* fs::write creates or empties the file that persist_selection_at chose ...
CreateFile ==
  /\ setup = "stored"
  /\ answers.place # "stdout"
  /\ setup' = "created"
  /\ dotenv' = IF answers.place = "dotenv" THEN NoSettings ELSE dotenv
  /\ local' = IF answers.place = "local" THEN NoSettings ELSE local
  /\ home' = IF answers.place = "global" THEN NoSettings ELSE home
  /\ UNCHANGED <<machine, launchVars, printed, answers, entered,
                 saved, all_saved, quiet>>

\* ... and fills it in one write.
FillFile ==
  /\ setup = "created"
  /\ setup' = "written"
  /\ dotenv' = IF answers.place = "dotenv" THEN SettingsEnv(answers) ELSE dotenv
  /\ local' = IF answers.place = "local" THEN ConfigFields(answers) ELSE local
  /\ home' = IF answers.place = "global" THEN ConfigFields(answers) ELSE home
  /\ UNCHANGED <<machine, launchVars, printed, answers, entered,
                 saved, all_saved, quiet>>

\* print_mcp_client_config ends the wizard; only for stdio does the block
\* that is to be copied carry the settings.
PrintClientConfig ==
  /\ \/ setup = "written"
     \/ setup = "stored" /\ answers.place = "stdout"
  /\ setup' = "idle"
  /\ printed' = IF answers.transport = "stdio"
                  THEN SettingsEnv(answers) ELSE printed
  /\ saved' = answers
  /\ answers' = Nothing
  /\ UNCHANGED <<fileVars, launchVars, entered, all_saved, quiet>>

\* A prompt is cancelled, a write fails, or the wizard dies.
Abandon ==
  /\ setup # "idle"
  /\ setup' = "idle"
  /\ answers' = Nothing
  /\ UNCHANGED <<fileVars, launchVars, printed, entered, saved,
                 all_saved, quiet>>
-----------------------------------------------------------------------------
(* load_config.                                                            *)

parse_env_value(key, text) ==
  IF key \in NumericKeys /\ text \in DOMAIN ParsedU64
    THEN Number(ParsedU64[text]) ELSE String(text)

\* Mutant: the version is missing from the list of variables.
OverridesWithoutVersion ==
  [k \in Keys |-> IF environ[k] = Unset \/ k = "api_version"
                    THEN Unset ELSE parse_env_value(k, environ[k])]

env_overrides ==
  [k \in Keys |-> IF environ[k] = Unset
                    THEN Unset ELSE parse_env_value(k, environ[k])]

\* Map::extend
Merge(high, low) ==
  [k \in Keys |-> IF high[k] # Unset THEN high[k] ELSE low[k]]

Defaults ==
  [NoSettings EXCEPT !["api_version"] = String(DefaultApiVersion),
                     !["transport"] = String("stdio"),
                     !["port"] = Number(3000)]

U16 == 0 .. 65535
U16Texts == {t \in DOMAIN ParsedU64 : ParsedU64[t] \in U16}

ValidPort(v) == v \in Numbers /\ v.number \in U16

\* serde_json::from_value::<Config>
Deserializes(m) ==
  /\ m["url"] \in Strings
  /\ m["api_version"] \in Strings
  /\ m["auth_method"] = String("basic")
  /\ m["transport"] \in {String(t) : t \in Transports}
  /\ ValidPort(m["port"])
-----------------------------------------------------------------------------
(* main: a server (start, http) or a single command (call, search, ...).   *)

\* The environment the host, docker compose or the shell hands over.
EnvironmentFrom(source) ==
  CASE source = "none"    -> {NoSettings}
    [] source = "dotenv"  -> {dotenv}
    [] source = "printed" -> {printed}
    [] source = "hand"    -> HandEnvs

Sources == {"none", "dotenv", "printed", "hand"}
Commands == {"start", "http", "call"}

\* Both subcommands that serve go over the environment, by set_var.
Override(env, command, port) ==
  [env EXCEPT !["transport"] = CASE command = "start" -> "stdio"
                                 [] command = "http"  -> "http"
                                 [] OTHER             -> @,
              !["port"] = IF port = Unset THEN @ ELSE port]

Launch(command, source, port) ==
  /\ process = "down"
  /\ command # "http" => port = Unset
  /\ launch' = [command |-> command, source |-> source, port |-> port,
                advice |-> "none", prompt |-> "none"]
  /\ \E env \in EnvironmentFrom(source) :
       environ' = Override(env, command, port)
  /\ process' = "launched"
  /\ quiet' = (setup = "idle")
  /\ UNCHANGED <<fileVars, setupVars, local_map, home_map, config, before,
                 edited, restarts>>

\* read_yaml_if_exists: a missing, empty or unreadable file has no settings.
ReadLocal ==
  /\ process = "launched"
  /\ local_map' = local
  /\ process' = "read_local"
  /\ UNCHANGED <<fileVars, setupVars, launch, environ, home_map, config,
                 before, edited, restarts, quiet>>

ReadHome ==
  /\ process = "read_local"
  /\ home_map' = home
  /\ process' = "read_home"
  /\ UNCHANGED <<fileVars, setupVars, launch, environ, local_map, config,
                 before, edited, restarts, quiet>>

\* Mutant: the home file hides the local one.
LoadHomeFirst ==
  /\ process = "read_home"
  /\ config' = Merge(env_overrides,
                 Merge(home_map, Merge(local_map, Merge(machine, Defaults))))
  /\ process' = IF Deserializes(config') THEN "loaded" ELSE "refused"
  /\ UNCHANGED <<fileVars, setupVars, launch, environ, local_map, home_map,
                 before, edited, restarts, quiet>>

\* The other files are read, the layers merged from the lowest to the highest.
LoadConfig ==
  /\ process = "read_home"
  /\ config' = Merge(env_overrides,
                 Merge(local_map, Merge(home_map, Merge(machine, Defaults))))
  /\ process' = IF Deserializes(config') THEN "loaded" ELSE "refused"
  /\ UNCHANGED <<fileVars, setupVars, launch, environ, local_map, home_map,
                 before, edited, restarts, quiet>>

\* resolve_store_path has a file name and a catalog for the version, or the
\* process ends.
HasCatalog(version) ==
  version \in VersionStoreFiles /\ version \in VersionStoreBytes

OpenStore ==
  /\ process = "loaded"
  /\ process' = IF HasCatalog(config["api_version"].string)
                  THEN "running" ELSE "unknown_version"
  /\ UNCHANGED <<fileVars, setupVars, launch, environ, local_map, home_map,
                 config, before, edited, restarts, quiet>>

\* Where the advice of a guided prompt says the version may be given, "config
\* file or TOPDESK_MCP_API_VERSION env var", and the two files it may mean.
AdvicePlaces == {"environment", "local", "home"}

\* A guided prompt of the server asks for another version: somebody gives one
\* of those that the prompt names, and restarts the server, otherwise with the
\* command and the environment it had.
RestartAsAdvised(p, place) ==
  /\ process = "running"
  /\ restarts < MaxRestarts
  /\ launch.command \in {"start", "http"}
  /\ CatalogCheck(config["api_version"].string, PromptCatalogs[p]) = "mismatch"
  /\ \E v \in PromptCatalogs[p] :
       /\ environ' = IF place = "environment"
                       THEN [environ EXCEPT !["api_version"] = v] ELSE environ
       /\ local' = IF place = "local"
                     THEN [local EXCEPT !["api_version"] = String(v)] ELSE local
       /\ home' = IF place = "home"
                    THEN [home EXCEPT !["api_version"] = String(v)] ELSE home
  /\ launch' = [launch EXCEPT !.advice = place, !.prompt = p]
  /\ before' = config
  /\ edited' = (edited \/ place # "environment")
  /\ restarts' = restarts + 1
  /\ process' = "launched"
  /\ local_map' = NoSettings /\ home_map' = NoSettings /\ config' = NoSettings
  /\ UNCHANGED <<dotenv, machine, setupVars, quiet>>

\* The process ends, by itself or because it is stopped.
End ==
  /\ process # "down"
  /\ process' = "down"
  /\ launch' = NoLaunch
  /\ environ' = NoSettings
  /\ local_map' = NoSettings /\ home_map' = NoSettings /\ config' = NoSettings
  /\ before' = NoSettings
  /\ quiet' = TRUE
  /\ UNCHANGED <<fileVars, setupVars, edited, restarts>>

ConfigNext ==
  \/ \E a \in Answers : Ask(a)
  \/ StoreCredentials \/ CreateFile \/ FillFile \/ PrintClientConfig \/ Abandon
  \/ \E c \in Commands, s \in Sources, p \in {Unset} \cup U16Texts : Launch(c, s, p)
  \/ ReadLocal \/ ReadHome \/ LoadConfig \/ OpenStore
  \/ \E p \in Followed, place \in AdvicePlaces : RestartAsAdvised(p, place)
  \/ End

ConfigSpec == ConfigInit /\ [][ConfigNext]_configVars
-----------------------------------------------------------------------------
ConfigTypeOK ==
  /\ dotenv \in [Keys -> Texts]
  /\ printed \in [Keys -> Texts]
  /\ environ \in [Keys -> Texts]
  /\ local \in [Keys -> Settings]
  /\ home \in [Keys -> Settings]
  /\ machine \in [Keys -> Settings]
  /\ local_map \in [Keys -> Settings]
  /\ home_map \in [Keys -> Settings]
  /\ config \in [Keys -> Settings]
  /\ setup \in {"idle", "answered", "stored", "created", "written"}
  /\ answers \in {Nothing} \cup Answers
  /\ setup = "idle" <=> answers = Nothing
  /\ setup \in {"created", "written"} => answers.place # "stdout"
  /\ process \in {"down", "launched", "read_local", "read_home", "loaded",
                  "refused", "unknown_version", "running"}
  /\ launch \in [command : Commands \cup {"none"},
                  source : Sources, port : Texts,
                  advice : AdvicePlaces \cup {"none"},
                  prompt : Prompts \cup {"none"}]
  /\ before \in [Keys -> Settings]
  /\ edited \in BOOLEAN
  /\ restarts \in Nat
  /\ saved \in {Nothing} \cup Answers
  /\ all_saved \subseteq Answers
  /\ quiet \in BOOLEAN

\* Nothing written by hand takes part: every layer that has settings at all
\* was written by setup.
OnlySetup ==
  /\ launch.source \in {"none", "dotenv", "printed"}
  /\ launch.advice = "none" /\ ~edited
  /\ machine = NoSettings

\* The process was launched, undisturbed, in the way the last setup is for:
\* in the directory of its local file, with its .env, or with its block; and
\* a global file counts where no local one hides it.
AsSetUp ==
  /\ quiet
  /\ saved # Nothing
  /\ OnlySetup
  /\ CASE launch.source = "none"    ->
            \/ saved.place = "local"
            \/ saved.place = "global" /\ local = NoSettings
       [] launch.source = "dotenv"  -> saved.place = "dotenv"
       [] launch.source = "printed" -> saved.transport = "stdio"

Started == process \in {"running", "refused", "unknown_version"}

\* Where setup puts its answers, the next process finds them: wherever they
\* were saved, and whatever earlier and interrupted setups left elsewhere, it
\* starts, with that URL and version and the credentials entered for them
\* (write_config_yaml, lines 145-153: "matching exactly what load_config reads
\* back").  Only the subcommand and its flags win over them, though they go
\* through the environment and back (main, lines 199-227).
SetupTakesEffect ==
  /\ Started /\ AsSetUp =>
       /\ process = "running"
       /\ config["url"] = String(saved.url)
       /\ config["api_version"] = String(LabelOf(saved.choice))
       /\ launch.command = "call" =>
            config["transport"] = String(saved.transport)
       /\ entered = saved.url
  /\ process = "running" =>
       /\ launch.command = "start" => config["transport"] = String("stdio")
       /\ launch.command = "http" => config["transport"] = String("http")
       /\ launch.port # Unset =>
            config["port"] = Number(ParsedU64[launch.port])

\* The merge works key by key, and still never mixes two setups: without
\* anything written by hand, the URL and the version of a process were given
\* together, to one setup, even if setup rewrites or has half written the
\* files while they are read (load_config, persist_selection_at).
SettingsComeTogether ==
  process = "running" /\ OnlySetup =>
    \E a \in all_saved : /\ config["url"] = String(a.url)
                         /\ config["api_version"] = String(LabelOf(a.choice))

\* The tables of versions agree as far as a process can get: a version that
\* was not written by hand (but offered by setup, the default, or named by a
\* guided prompt) has a catalog, and every version that has one also has its
\* schemas, is listed, and gets its embeddings.
VersionsServe ==
  /\ process = "unknown_version" =>
       launch.source = "hand" \/ machine["api_version"] # Unset
  /\ process = "running" =>
       config["api_version"].string
         \in SchemaLabels \cap KnownVersions \cap VersionStoreFiles

\* A layer above the one in which the advised version was given has a version.
Shadowed ==
  \/ launch.advice \in {"local", "home"} /\ environ["api_version"] # Unset
  \/ launch.advice = "home" /\ local_map["api_version"] # Unset

\* Whoever follows the advice of a guided prompt, while no setup interferes,
\* gets a server again, never one that refuses its settings or has no catalog,
\* and its other settings are those of the server before.  The prompt then
\* accepts it, except where the version was given in a file and the
\* environment or a nearer file has one too: then nothing has changed
\* (load_config, resolve_store_path; catalog_check_block: "this server needs to
\* be restarted with a different api_version (config file or
\* TOPDESK_MCP_API_VERSION env var)").
AdviceUnlessShadowed ==
  Started /\ launch.advice # "none" /\ quiet =>
    /\ process = "running"
    /\ \A k \in Keys \ {"api_version"} : config[k] = before[k]
    /\ IF Shadowed
         THEN config["api_version"] = before["api_version"]
         ELSE CatalogCheck(config["api_version"].string,
                           PromptCatalogs[launch.prompt]) = "match"
=============================================================================
