---------------------------- MODULE SetupProofs ----------------------------
(***************************************************************************)
(* Theorems about what setup hands over to a process: the settings         *)
(* (Configuration), for any answers, files, environments and numbers, and  *)
(* the credentials (CredentialStorage), for any number of servers, runs of *)
(* setup and secrets.                                                      *)
(***************************************************************************)
EXTENDS Configuration, CredentialStorage, TLAPS
-----------------------------------------------------------------------------
(* The settings.                                                           *)

\* What setup can have put into a file, or printed.
EnvsWritten == {NoSettings} \cup {SettingsEnv(a) : a \in all_saved}
FilesWritten == {NoSettings} \cup {ConfigFields(a) : a \in all_saved}

\* Nothing but the answers of some setup is in the places setup writes, or in
\* what the process has read of them, until a file is edited as advised.
Written ==
  /\ dotenv \in EnvsWritten /\ printed \in EnvsWritten
  /\ ~edited =>
       /\ local \in FilesWritten /\ home \in FilesWritten
       /\ local_map \in FilesWritten /\ home_map \in FilesWritten
  /\ machine \in MachineFiles
  /\ answers # Nothing => answers \in all_saved
  /\ saved # Nothing => saved \in all_saved

ServedVersions == {Unset} \cup {String(v) : v \in VersionStoreBytes}

\* What such a file gives as the version has a catalog, edited or not.
Catalogued ==
  /\ local["api_version"] \in ServedVersions
  /\ home["api_version"] \in ServedVersions
  /\ local_map["api_version"] \in ServedVersions
  /\ home_map["api_version"] \in ServedVersions

\* The answers a are in their place.
Placed(a) ==
  /\ a.place = "dotenv" => dotenv = SettingsEnv(a)
  /\ a.place = "local" => local = ConfigFields(a)
  /\ a.place = "global" => home = ConfigFields(a)

\* A setup that gets to its end leaves its answers in their place, or printed,
\* and its credentials in the store; the next setup makes that void.
Finished ==
  /\ setup # "idle" => saved = Nothing
  /\ setup \notin {"idle", "answered"} => entered = answers.url
  /\ setup = "written" /\ ~edited => Placed(answers)
  /\ saved # Nothing =>
       /\ entered = saved.url
       /\ ~edited => Placed(saved)
       /\ saved.transport = "stdio" => printed = SettingsEnv(saved)

\* The environments that a process launched from the source can have been
\* handed.
HandedOver ==
  CASE launch.source = "none"    -> {NoSettings}
    [] launch.source = "dotenv"  -> EnvsWritten
    [] launch.source = "printed" -> EnvsWritten
    [] launch.source = "hand"    -> HandEnvs

\* A process has such an environment, with its subcommand's overrides, and an
\* advised restart changes nothing in it but the version.
Launched ==
  process # "down" =>
    /\ launch.command \in Commands
    /\ launch.port \in {Unset} \cup U16Texts
    /\ launch.source \in Sources
    /\ launch.advice # "none" => launch.prompt \in Prompts
    /\ launch.advice = "none" =>
         \E given_env \in HandedOver :
           environ = Override(given_env, launch.command, launch.port)
    /\ launch.command = "start" => environ["transport"] = "stdio"
    /\ launch.command = "http" => environ["transport"] = "http"
    /\ launch.port # Unset => environ["port"] = launch.port
    /\ launch.source # "hand" =>
         environ["api_version"] \in {Unset} \cup VersionStoreBytes

\* While no setup disturbs it, what a process was handed and what it has read
\* is what is still there.
Undisturbed ==
  quiet /\ process # "down" =>
    /\ setup = "idle"
    /\ launch.advice = "none" =>
         /\ launch.source = "dotenv" =>
              environ = Override(dotenv, launch.command, launch.port)
         /\ launch.source = "printed" =>
              environ = Override(printed, launch.command, launch.port)
    /\ process # "launched" => local_map = local
    /\ process \notin {"launched", "read_local"} => home_map = home

\* What load_config has merged is what the process uses, or why it refused.
Merged ==
  process \in {"loaded", "refused", "unknown_version", "running"} =>
    /\ config = Merge(env_overrides,
                  Merge(local_map, Merge(home_map, Merge(machine, Defaults))))
    /\ process = "refused" <=> ~Deserializes(config)
    /\ process = "running" => HasCatalog(config["api_version"].string)
    /\ process = "unknown_version" => ~HasCatalog(config["api_version"].string)

\* What the files and the environment of a process come to, key by key.
Layers == Merge(env_overrides, Merge(local, Merge(home, Merge(machine, Defaults))))

\* While no setup interferes, a server restarted as advised gives each key but
\* the version the value its predecessor had, which was accepted; the version
\* is where the advice put it, and a version in a layer above it is the one
\* the predecessor had.
TakenOver ==
  quiet /\ process # "down" /\ launch.advice # "none" =>
    /\ Deserializes(before) /\ HasCatalog(before["api_version"].string)
    /\ \A k \in Keys \ {"api_version"} : Layers[k] = before[k]
    /\ launch.advice = "environment" =>
         environ["api_version"] \in PromptCatalogs[launch.prompt]
    /\ launch.advice \in {"local", "home"} /\ environ["api_version"] # Unset =>
         before["api_version"] = String(environ["api_version"])
    /\ launch.advice = "local" =>
         \E v \in PromptCatalogs[launch.prompt] : local["api_version"] = String(v)
    /\ launch.advice = "home" =>
         /\ \E v \in PromptCatalogs[launch.prompt] :
              home["api_version"] = String(v)
         /\ environ["api_version"] = Unset /\ local["api_version"] # Unset =>
              before["api_version"] = local["api_version"]

ConfigIInv ==
  /\ ConfigTypeOK /\ Written /\ Catalogued /\ Finished
  /\ Launched /\ Undisturbed /\ Merged /\ TakenOver
-----------------------------------------------------------------------------
(* Lemmas about the operators.                                             *)

\* A text, a number and the absence of a setting are told apart.
LEMMA SettingsDiffer ==
  /\ \A s \in Text : /\ String(s) \in Strings /\ String(s) \notin Numbers
                       /\ String(s) # Unset /\ String(s).string = s
  /\ \A n \in Nat : /\ Number(n) \in Numbers /\ Number(n) # Unset
                    /\ Number(n) \notin Strings
                    /\ Number(n).number = n
  /\ \A v \in Strings : v # Unset /\ v \notin Numbers
  /\ \A v \in Numbers : v # Unset /\ v \notin Strings
<1>1. \A s \in Text : String(s) \in Strings /\ String(s).string = s
  BY DEF String, Strings
<1>2. \A n \in Nat : Number(n) \in Numbers /\ Number(n).number = n
  BY DEF Number, Numbers
<1>3. \A v \in Strings : v # Unset /\ DOMAIN v = {"string"}
  BY ConfigurationAssumption DEF ConfigurationAssumption, Strings
<1>4. \A v \in Numbers : v # Unset /\ DOMAIN v = {"number"}
  BY ConfigurationAssumption DEF ConfigurationAssumption, Numbers
<1>5. "string" \notin {"number"}
  OBVIOUS
<1> QED
  BY <1>1, <1>2, <1>3, <1>4, <1>5

\* The label of every choice is a version with a catalog, a schema file and
\* embeddings, and so is the default and what a guided prompt names.
LEMMA VersionsAgree ==
  /\ DefaultApiVersion \in VersionStoreBytes
  /\ \A c \in VersionChoices : LabelOf(c) \in VersionStoreBytes
  /\ \A p \in Prompts : PromptCatalogs[p] \subseteq VersionStoreBytes
  /\ VersionStoreBytes \subseteq Text
  /\ VersionStoreBytes
       \subseteq SchemaLabels \cap KnownVersions \cap VersionStoreFiles
<1>1. DefaultApiVersion \in VersionStoreBytes
  BY DEF DefaultApiVersion, VersionStoreBytes
<1>2. \A c \in VersionChoices : LabelOf(c) \in VersionStoreBytes
  BY DEF VersionChoices, LabelOf, VersionStoreBytes
<1>3. \A p \in Prompts : PromptCatalogs[p] \subseteq VersionStoreBytes
  BY DEF Prompts, PromptCatalogs, VersionStoreBytes
<1>4. VersionStoreBytes \subseteq Text
  BY ConfigurationAssumption DEF ConfigurationAssumption
<1>5. VersionStoreBytes
        \subseteq SchemaLabels \cap KnownVersions \cap VersionStoreFiles
  BY DEF VersionStoreBytes, SchemaLabels, KnownVersions, VersionStoreFiles
<1> QED
  BY <1>1, <1>2, <1>3, <1>4, <1>5

\* What setup writes into an environment, key by key.
LEMMA SettingsEnvKeys ==
  ASSUME NEW a \in Answers
  PROVE  /\ SettingsEnv(a) \in [Keys -> Texts]
         /\ SettingsEnv(a)["url"] = a.url
         /\ SettingsEnv(a)["auth_method"] = "basic"
         /\ SettingsEnv(a)["api_version"] = LabelOf(a.choice)
         /\ SettingsEnv(a)["transport"] = a.transport
         /\ SettingsEnv(a)["port"] = Unset
         /\ a.url \in Text /\ LabelOf(a.choice) \in Text
         /\ LabelOf(a.choice) \in VersionStoreBytes
         /\ a.transport \in Transports
         /\ a.place \in Places
<1>1. /\ a.url \in Text /\ a.choice \in VersionChoices
      /\ a.transport \in Transports /\ a.place \in Places
  BY ConfigurationAssumption DEF ConfigurationAssumption, AnswersType
<1>2. LabelOf(a.choice) \in Text /\ LabelOf(a.choice) \in VersionStoreBytes
  BY <1>1, VersionsAgree
<1>3. a.transport \in Text /\ "basic" \in Text
  BY <1>1, ConfigurationAssumption DEF ConfigurationAssumption
<1> HIDE DEF Transports, Places
<1> QED
  BY <1>1, <1>2, <1>3 DEF SettingsEnv, NoSettings, Keys, Texts

\* The same as the settings of a file.
LEMMA ConfigFieldsKeys ==
  ASSUME NEW a \in Answers
  PROVE  /\ ConfigFields(a) \in [Keys -> Settings]
         /\ ConfigFields(a)["url"] = String(a.url)
         /\ ConfigFields(a)["auth_method"] = String("basic")
         /\ ConfigFields(a)["api_version"] = String(LabelOf(a.choice))
         /\ ConfigFields(a)["transport"] = String(a.transport)
         /\ ConfigFields(a)["port"] = Unset
<1>1. "basic" \in Text /\ Transports \subseteq Text
  BY ConfigurationAssumption DEF ConfigurationAssumption
<1>2. \A s \in Text : s # Unset
  BY ConfigurationAssumption DEF ConfigurationAssumption
<1>3. \A k \in Keys : SettingsEnv(a)[k] \in Texts
  BY SettingsEnvKeys
<1>4. \A k \in Keys : ConfigFields(a)[k] \in Settings
  BY <1>2, <1>3, SettingsDiffer DEF ConfigFields, Settings, Texts
<1>5. ConfigFields(a) \in [Keys -> Settings]
  BY <1>4 DEF ConfigFields
<1> QED
  BY <1>1, <1>2, <1>5, SettingsEnvKeys DEF ConfigFields, Keys

\* What a subcommand makes of an environment, key by key.
LEMMA OverrideKeys ==
  ASSUME NEW e \in [Keys -> Texts], NEW command,
         NEW port \in {Unset} \cup U16Texts
  PROVE  /\ Override(e, command, port) \in [Keys -> Texts]
         /\ \A k \in {"url", "auth_method", "api_version"} :
              Override(e, command, port)[k] = e[k]
         /\ command = "start" =>
              Override(e, command, port)["transport"] = "stdio"
         /\ command = "http" =>
              Override(e, command, port)["transport"] = "http"
         /\ command \notin {"start", "http"} =>
              Override(e, command, port)["transport"] = e["transport"]
         /\ port # Unset => Override(e, command, port)["port"] = port
         /\ port = Unset => Override(e, command, port)["port"] = e["port"]
<1>1. port \in Texts
  BY ConfigurationAssumption DEF ConfigurationAssumption, U16Texts, Texts
<1>2. "stdio" \in Texts /\ "http" \in Texts
  BY ConfigurationAssumption DEF ConfigurationAssumption, Transports, Texts
<1>3. \A k \in Keys : e[k] \in Texts
  OBVIOUS
<1> HIDE DEF Texts
<1> DEFINE t == CASE command = "start" -> "stdio"
                  [] command = "http"  -> "http"
                  [] OTHER             -> e["transport"]
           q == IF port = Unset THEN e["port"] ELSE port
<1>4. /\ t \in Texts
      /\ command = "start" => t = "stdio"
      /\ command = "http" => t = "http"
      /\ command \notin {"start", "http"} => t = e["transport"]
  <2>1. CASE command = "start"
    BY <1>2, <2>1
  <2>2. CASE command = "http"
    BY <1>2, <2>2
  <2>3. CASE command \notin {"start", "http"}
    BY <1>3, <2>3 DEF Keys
  <2> QED
    BY <2>1, <2>2, <2>3
<1>5. q \in Texts /\ (port # Unset => q = port) /\ (port = Unset => q = e["port"])
  BY <1>1, <1>3 DEF Keys
<1>6. Override(e, command, port) = [e EXCEPT !["transport"] = t, !["port"] = q]
  BY DEF Override
<1> HIDE DEF t, q
<1> QED
  BY <1>4, <1>5, <1>6 DEF Keys

\* What load_config makes of the environment, key by key.
LEMMA EnvOverridesKeys ==
  ASSUME environ \in [Keys -> Texts]
  PROVE  /\ env_overrides \in [Keys -> Settings]
         /\ \A k \in Keys : environ[k] = Unset => env_overrides[k] = Unset
         /\ \A k \in Keys \ {"port"} :
              environ[k] # Unset => env_overrides[k] = String(environ[k])
         /\ environ["port"] \in U16Texts =>
              env_overrides["port"] = Number(ParsedU64[environ["port"]])
<1>1. \A t \in DOMAIN ParsedU64 : ParsedU64[t] \in Nat
  BY ConfigurationAssumption DEF ConfigurationAssumption
<1>2. \A k \in Keys : environ[k] # Unset => environ[k] \in Text
  BY DEF Texts
<1>3. \A k \in Keys :
        /\ environ[k] = Unset => env_overrides[k] = Unset
        /\ environ[k] # Unset =>
             env_overrides[k] = parse_env_value(k, environ[k])
  BY DEF env_overrides
<1>4. \A k \in Keys, t \in Text : parse_env_value(k, t) \in Settings
  BY <1>1, SettingsDiffer DEF parse_env_value, Settings
<1>5. env_overrides \in [Keys -> Settings]
  <2>1. \A k \in Keys : env_overrides[k] \in Settings
    BY <1>2, <1>3, <1>4 DEF Settings
  <2> QED
    BY <2>1 DEF env_overrides
<1>6. \A k \in Keys \ {"port"} : \A t : parse_env_value(k, t) = String(t)
  BY DEF parse_env_value, NumericKeys
<1>7. environ["port"] \in U16Texts =>
        /\ environ["port"] # Unset
        /\ parse_env_value("port", environ["port"])
             = Number(ParsedU64[environ["port"]])
  BY ConfigurationAssumption
     DEF ConfigurationAssumption, parse_env_value, NumericKeys, U16Texts
<1>8. "port" \in Keys
  BY DEF Keys
<1> QED
  BY <1>3, <1>5, <1>6, <1>7, <1>8

\* The merge of two layers has settings again.
LEMMA MergeTyped ==
  ASSUME NEW high \in [Keys -> Settings], NEW low \in [Keys -> Settings]
  PROVE  Merge(high, low) \in [Keys -> Settings]
BY DEF Merge

\* No settings, and the defaults, as layers.
LEMMA LayersTyped ==
  /\ NoSettings \in [Keys -> Texts]
  /\ NoSettings \in [Keys -> Settings]
  /\ \A k \in Keys : NoSettings[k] = Unset
  /\ Defaults \in [Keys -> Settings]
  /\ Defaults["url"] = Unset /\ Defaults["auth_method"] = Unset
  /\ Defaults["api_version"] = String(DefaultApiVersion)
  /\ Defaults["transport"] = String("stdio")
  /\ Defaults["port"] = Number(3000)
<1>1. /\ NoSettings \in [Keys -> Texts]
      /\ NoSettings \in [Keys -> Settings]
      /\ \A k \in Keys : NoSettings[k] = Unset
  BY DEF NoSettings, Texts, Settings
<1>2. /\ String(DefaultApiVersion) \in Settings
      /\ String("stdio") \in Settings
      /\ Number(3000) \in Settings
  BY SettingsDiffer, VersionsAgree, ConfigurationAssumption
     DEF ConfigurationAssumption, Transports, Settings
<1> QED
  BY <1>1, <1>2 DEF Defaults, Keys

-----------------------------------------------------------------------------
\* What setup writes has the type of an environment, or of a file.
LEMMA WrittenTyped ==
  ASSUME all_saved \subseteq Answers
  PROVE  /\ EnvsWritten \subseteq [Keys -> Texts]
         /\ FilesWritten \subseteq [Keys -> Settings]
BY SettingsEnvKeys, ConfigFieldsKeys, LayersTyped DEF EnvsWritten, FilesWritten

\* Files that setup wrote have the URL and the version of one setup, or
\* neither, and never a port.
LEMMA FileKeys ==
  ASSUME all_saved \subseteq Answers, NEW f \in FilesWritten
  PROVE  /\ f["port"] = Unset
         /\ \/ f = NoSettings
            \/ \E a \in all_saved :
                 /\ a \in Answers
                 /\ f["url"] = String(a.url) /\ f["url"] # Unset
                 /\ f["api_version"] = String(LabelOf(a.choice))
                 /\ f["api_version"] # Unset
                 /\ LabelOf(a.choice) \in VersionStoreBytes
<1>1. CASE f = NoSettings
  BY <1>1, LayersTyped DEF Keys
<1>2. ASSUME NEW a \in all_saved, f = ConfigFields(a)
      PROVE  /\ f["port"] = Unset /\ a \in Answers
             /\ f["url"] = String(a.url) /\ f["url"] # Unset
             /\ f["api_version"] = String(LabelOf(a.choice))
             /\ f["api_version"] # Unset
             /\ LabelOf(a.choice) \in VersionStoreBytes
  <2>1. a \in Answers
    BY <1>2
  <2> QED
    BY <1>2, <2>1, ConfigFieldsKeys, SettingsEnvKeys, SettingsDiffer
<1> QED
  BY <1>1, <1>2 DEF FilesWritten

\* The same of environments.
LEMMA EnvKeys ==
  ASSUME all_saved \subseteq Answers, NEW e \in EnvsWritten
  PROVE  /\ e["port"] = Unset
         /\ \/ e = NoSettings
            \/ \E a \in all_saved :
                 /\ a \in Answers
                 /\ e["url"] = a.url /\ e["url"] # Unset
                 /\ e["api_version"] = LabelOf(a.choice)
                 /\ e["api_version"] # Unset
                 /\ LabelOf(a.choice) \in VersionStoreBytes
<1>1. CASE e = NoSettings
  BY <1>1, LayersTyped DEF Keys
<1>2. ASSUME NEW a \in all_saved, e = SettingsEnv(a)
      PROVE  /\ e["port"] = Unset /\ a \in Answers
             /\ e["url"] = a.url /\ e["url"] # Unset
             /\ e["api_version"] = LabelOf(a.choice)
             /\ e["api_version"] # Unset
             /\ LabelOf(a.choice) \in VersionStoreBytes
  <2>1. a \in Answers
    BY <1>2
  <2>2. \A t \in Text : t # Unset
    BY ConfigurationAssumption DEF ConfigurationAssumption
  <2> QED
    BY <1>2, <2>1, <2>2, SettingsEnvKeys
<1> QED
  BY <1>1, <1>2 DEF EnvsWritten

\* The initial states.
LEMMA ConfigInitIInv == ConfigInit => ConfigIInv
<1> SUFFICES ASSUME ConfigInit PROVE ConfigIInv
  OBVIOUS
<1> USE DEF ConfigInit
<1>1. ConfigTypeOK
  <2>1. NoLaunch \in [command : Commands \cup {"none"}, source : Sources,
                      port : Texts, advice : AdvicePlaces \cup {"none"},
                      prompt : Prompts \cup {"none"}]
    BY DEF NoLaunch, Sources, Texts
  <2>2. machine \in [Keys -> Settings] /\ saved \in {Nothing} \cup Answers
    BY ConfigurationAssumption DEF ConfigurationAssumption
  <2>3. launch = NoLaunch /\ restarts \in Nat /\ edited \in BOOLEAN
    OBVIOUS
  <2> HIDE DEF NoLaunch
  <2> QED
    BY <2>1, <2>2, <2>3, LayersTyped DEF ConfigTypeOK
<1>2. Written /\ Finished
  BY DEF Written, EnvsWritten, FilesWritten, Finished
<1>3. Catalogued
  BY LayersTyped DEF Catalogued, ServedVersions, Keys
<1>4. Launched /\ Undisturbed /\ Merged /\ TakenOver
  BY DEF Launched, Undisturbed, Merged, TakenOver
<1> QED
  BY <1>1, <1>2, <1>3, <1>4 DEF ConfigIInv

\* Every step keeps what is written anywhere the answers of some setup.
LEMMA WrittenStep ==
  ASSUME ConfigTypeOK, Written, [ConfigNext]_configVars
  PROVE  Written'
<1> USE DEF Written, EnvsWritten, FilesWritten, ConfigTypeOK
<1>1. ASSUME NEW a \in Answers, Ask(a)
      PROVE  Written'
  BY <1>1 DEF Ask, fileVars, launchVars
<1>2. CASE StoreCredentials
  BY <1>2 DEF StoreCredentials, fileVars, launchVars
<1>3. CASE CreateFile
  BY <1>3 DEF CreateFile, launchVars
<1>4. CASE FillFile
  BY <1>4 DEF FillFile, launchVars
<1>5. CASE PrintClientConfig
  BY <1>5 DEF PrintClientConfig, fileVars, launchVars
<1>6. CASE Abandon
  BY <1>6 DEF Abandon, fileVars, launchVars
<1>7. ASSUME NEW c \in Commands, NEW s \in Sources,
             NEW p \in {Unset} \cup U16Texts, Launch(c, s, p)
      PROVE  Written'
  BY <1>7 DEF Launch, fileVars, setupVars
<1>8. CASE ReadLocal
  BY <1>8 DEF ReadLocal, fileVars, setupVars
<1>9. CASE ReadHome
  BY <1>9 DEF ReadHome, fileVars, setupVars
<1>10. CASE LoadConfig
  BY <1>10 DEF LoadConfig, fileVars, setupVars
<1>11. CASE OpenStore
  BY <1>11 DEF OpenStore, fileVars, setupVars
<1>12. ASSUME NEW p \in Followed, NEW place \in AdvicePlaces,
              RestartAsAdvised(p, place)
      PROVE  Written'
  BY <1>12 DEF RestartAsAdvised, setupVars, AdvicePlaces
<1>13. CASE End
  BY <1>13 DEF End, fileVars, setupVars
<1>14. CASE UNCHANGED configVars
  BY <1>14 DEF configVars, fileVars, setupVars, launchVars
<1> QED
  BY <1>1, <1>2, <1>3, <1>4, <1>5, <1>6, <1>7, <1>8, <1>9,
     <1>10, <1>11, <1>12, <1>13, <1>14 DEF ConfigNext

\* Every step keeps what a finished setup has left.
LEMMA FinishedStep ==
  ASSUME ConfigTypeOK, Finished, [ConfigNext]_configVars
  PROVE  Finished'
<1> USE DEF Finished, Placed, ConfigTypeOK
<1>1. ASSUME NEW a \in Answers, Ask(a)
      PROVE  Finished'
  BY <1>1 DEF Ask, fileVars, launchVars
<1>2. CASE StoreCredentials
  BY <1>2 DEF StoreCredentials, fileVars, launchVars
<1>3. CASE CreateFile
  BY <1>3 DEF CreateFile, launchVars
<1>4. CASE FillFile
  BY <1>4 DEF FillFile, launchVars
<1>5. CASE PrintClientConfig
  BY <1>5 DEF PrintClientConfig, fileVars, launchVars
<1>6. CASE Abandon
  BY <1>6 DEF Abandon, fileVars, launchVars
<1>7. ASSUME NEW c \in Commands, NEW s \in Sources,
             NEW p \in {Unset} \cup U16Texts, Launch(c, s, p)
      PROVE  Finished'
  BY <1>7 DEF Launch, fileVars, setupVars
<1>8. CASE ReadLocal
  BY <1>8 DEF ReadLocal, fileVars, setupVars
<1>9. CASE ReadHome
  BY <1>9 DEF ReadHome, fileVars, setupVars
<1>10. CASE LoadConfig
  BY <1>10 DEF LoadConfig, fileVars, setupVars
<1>11. CASE OpenStore
  BY <1>11 DEF OpenStore, fileVars, setupVars
<1>12. ASSUME NEW p \in Followed, NEW place \in AdvicePlaces,
              RestartAsAdvised(p, place)
      PROVE  Finished'
  BY <1>12 DEF RestartAsAdvised, setupVars, AdvicePlaces
<1>13. CASE End
  BY <1>13 DEF End, fileVars, setupVars
<1>14. CASE UNCHANGED configVars
  BY <1>14 DEF configVars, fileVars, setupVars, launchVars
<1> QED
  BY <1>1, <1>2, <1>3, <1>4, <1>5, <1>6, <1>7, <1>8, <1>9,
     <1>10, <1>11, <1>12, <1>13, <1>14 DEF ConfigNext

\* Whatever a guided prompt names is a version with a catalog.
LEMMA AdvisedVersion ==
  ASSUME NEW p \in Followed
  PROVE  p \in Prompts /\ PromptCatalogs[p] \subseteq VersionStoreBytes
BY VersionsAgree, ConfigurationAssumption DEF ConfigurationAssumption

\* What a process can have been handed it can have been handed later, too.
LEMMA LaunchedKept ==
  ASSUME Launched, process # "down", launch' = launch, environ' = environ,
         all_saved \subseteq all_saved'
  PROVE  Launched'
<1>1. HandedOver \subseteq HandedOver'
  <2>1. EnvsWritten \subseteq EnvsWritten'
    BY DEF EnvsWritten
  <2>2. launch.source \in {"none", "dotenv", "printed", "hand"}
    BY DEF Launched, Sources
  <2> QED
    BY <2>1, <2>2 DEF HandedOver
<1> QED
  BY <1>1 DEF Launched

\* Every step keeps how a process got its environment.
LEMMA LaunchedStep ==
  ASSUME ConfigTypeOK, Written, Launched, [ConfigNext]_configVars
  PROVE  Launched'
<1>0. ASSUME UNCHANGED launchVars, all_saved \subseteq all_saved'
      PROVE  Launched'
  BY <1>0, LaunchedKept DEF launchVars, Launched
<1>1. ASSUME NEW a \in Answers, Ask(a)
      PROVE  Launched'
  BY <1>1, <1>0 DEF Ask
<1>2. CASE StoreCredentials
  BY <1>2, <1>0 DEF StoreCredentials
<1>3. CASE CreateFile
  BY <1>3, <1>0 DEF CreateFile
<1>4. CASE FillFile
  BY <1>4, <1>0 DEF FillFile
<1>5. CASE PrintClientConfig
  BY <1>5, <1>0 DEF PrintClientConfig
<1>6. CASE Abandon
  BY <1>6, <1>0 DEF Abandon
<1>7. ASSUME NEW c \in Commands, NEW s \in Sources,
             NEW p \in {Unset} \cup U16Texts, Launch(c, s, p)
      PROVE  Launched'
  <2>1. PICK e \in EnvironmentFrom(s) : environ' = Override(e, c, p)
    BY <1>7 DEF Launch
  <2>2. /\ launch'.command = c /\ launch'.source = s /\ launch'.port = p
        /\ UNCHANGED <<fileVars, setupVars>>
        /\ launch'.advice = "none"
    BY <1>7 DEF Launch
  <2>3. EnvsWritten' = EnvsWritten
    BY <2>2 DEF EnvsWritten, setupVars
  <2>4. e \in HandedOver'
    BY <2>1, <2>2, <2>3
       DEF EnvironmentFrom, Sources, HandedOver, Written
  <2>5. /\ e \in [Keys -> Texts]
        /\ s # "hand" => e["api_version"] \in {Unset} \cup VersionStoreBytes
    <3>1. CASE s = "hand"
      BY <2>1, <3>1, ConfigurationAssumption
         DEF EnvironmentFrom, ConfigurationAssumption
    <3>2. CASE s # "hand"
      <4>1. e \in EnvsWritten
        BY <2>1, <3>2
           DEF EnvironmentFrom, Sources, Written, EnvsWritten
      <4>2. all_saved \subseteq Answers /\ "api_version" \in Keys
        BY DEF ConfigTypeOK, Keys
      <4> QED
        BY <4>1, <4>2, EnvKeys, WrittenTyped, LayersTyped
    <3> QED
      BY <3>1, <3>2
  <2>6. /\ environ'["api_version"] = e["api_version"]
        /\ c = "start" => environ'["transport"] = "stdio"
        /\ c = "http" => environ'["transport"] = "http"
        /\ p # Unset => environ'["port"] = p
    BY <2>1, <2>5, OverrideKeys
  <2> QED
    BY <2>1, <2>2, <2>4, <2>5, <2>6 DEF Launched
<1>8. CASE ReadLocal
  BY <1>8, LaunchedKept DEF Launched, ReadLocal, fileVars, setupVars
<1>9. CASE ReadHome
  BY <1>9, LaunchedKept DEF Launched, ReadHome, fileVars, setupVars
<1>10. CASE LoadConfig
  BY <1>10, LaunchedKept DEF Launched, LoadConfig, fileVars, setupVars
<1>11. CASE OpenStore
  BY <1>11, LaunchedKept DEF Launched, OpenStore, fileVars, setupVars
<1>12. ASSUME NEW p \in Followed, NEW place \in AdvicePlaces,
              RestartAsAdvised(p, place)
      PROVE  Launched'
  <2>1. PICK v \in VersionStoreBytes :
          environ' = environ \/ environ' = [environ EXCEPT !["api_version"] = v]
    BY <1>12, AdvisedVersion DEF RestartAsAdvised
  <2>2. /\ launch' = [launch EXCEPT !.advice = place, !.prompt = p]
        /\ process # "down" /\ place # "none" /\ p \in Prompts
    BY <1>12, ConfigurationAssumption
       DEF RestartAsAdvised, AdvicePlaces, ConfigurationAssumption
  <2>3. /\ launch'.command = launch.command /\ launch'.source = launch.source
        /\ launch'.port = launch.port
        /\ launch'.advice = place /\ launch'.prompt = p
    BY <2>2 DEF ConfigTypeOK
  <2>4. /\ environ'["transport"] = environ["transport"]
        /\ environ'["port"] = environ["port"]
        /\ environ'["api_version"] \in {environ["api_version"], v}
    BY <2>1 DEF ConfigTypeOK, Keys
  <2> QED
    BY <2>2, <2>3, <2>4 DEF Launched
<1>13. CASE End
  BY <1>13 DEF End, Launched
<1>14. CASE UNCHANGED configVars
  BY <1>14, <1>0 DEF configVars, setupVars
<1> QED
  BY <1>1, <1>2, <1>3, <1>4, <1>5, <1>6, <1>7, <1>8, <1>9,
     <1>10, <1>11, <1>12, <1>13, <1>14 DEF ConfigNext

\* Every step keeps, while no setup interferes, what a process got from the last
\* one.
LEMMA UndisturbedStep ==
  ASSUME ConfigTypeOK, Undisturbed, [ConfigNext]_configVars
  PROVE  Undisturbed'
<1> USE DEF Undisturbed
<1>1. ASSUME NEW a \in Answers, Ask(a)
      PROVE  Undisturbed'
  BY <1>1 DEF Ask, fileVars, launchVars
<1>2. CASE StoreCredentials
  BY <1>2 DEF StoreCredentials, fileVars, launchVars
<1>3. CASE CreateFile
  BY <1>3 DEF CreateFile, launchVars
<1>4. CASE FillFile
  BY <1>4 DEF FillFile, launchVars
<1>5. CASE PrintClientConfig
  BY <1>5 DEF PrintClientConfig, fileVars, launchVars
<1>6. CASE Abandon
  BY <1>6 DEF Abandon, fileVars, launchVars
<1>7. ASSUME NEW c \in Commands, NEW s \in Sources,
             NEW p \in {Unset} \cup U16Texts, Launch(c, s, p)
      PROVE  Undisturbed'
  <2>1. PICK e \in EnvironmentFrom(s) : environ' = Override(e, c, p)
    BY <1>7 DEF Launch
  <2>2. /\ launch'.command = c /\ launch'.source = s /\ launch'.port = p
        /\ UNCHANGED <<fileVars, setupVars>>
        /\ process' = "launched"
        /\ quiet' => setup = "idle"
    BY <1>7 DEF Launch
  <2>3. /\ s = "dotenv" => e = dotenv
        /\ s = "printed" => e = printed
    BY <2>1 DEF EnvironmentFrom
  <2> QED
    BY <2>1, <2>2, <2>3 DEF fileVars, setupVars
<1>8. CASE ReadLocal
  BY <1>8 DEF ReadLocal, fileVars, setupVars
<1>9. CASE ReadHome
  BY <1>9 DEF ReadHome, fileVars, setupVars
<1>10. CASE LoadConfig
  BY <1>10 DEF LoadConfig, fileVars, setupVars
<1>11. CASE OpenStore
  BY <1>11 DEF OpenStore, fileVars, setupVars
<1>12. ASSUME NEW p \in Followed, NEW place \in AdvicePlaces,
              RestartAsAdvised(p, place)
      PROVE  Undisturbed'
  <2>1. launch'.advice # "none" /\ process' = "launched"
    BY <1>12 DEF RestartAsAdvised, ConfigTypeOK, AdvicePlaces
  <2>2. process # "down" /\ quiet' = quiet /\ setup' = setup
    BY <1>12 DEF RestartAsAdvised, setupVars
  <2> QED
    BY <2>1, <2>2
<1>13. CASE End
  BY <1>13 DEF End, fileVars, setupVars
<1>14. CASE UNCHANGED configVars
  BY <1>14 DEF configVars, fileVars, setupVars, launchVars
<1> QED
  BY <1>1, <1>2, <1>3, <1>4, <1>5, <1>6, <1>7, <1>8, <1>9,
     <1>10, <1>11, <1>12, <1>13, <1>14 DEF ConfigNext

\* Every step keeps what load_config has made of the layers.
LEMMA MergedStep ==
  ASSUME Merged, [ConfigNext]_configVars
  PROVE  Merged'
<1> USE DEF Merged
<1>0. environ' = environ => env_overrides' = env_overrides
  BY DEF env_overrides
<1>1. ASSUME NEW a \in Answers, Ask(a)
      PROVE  Merged'
  BY <1>1, <1>0 DEF Ask, fileVars, launchVars
<1>2. CASE StoreCredentials
  BY <1>2, <1>0 DEF StoreCredentials, fileVars, launchVars
<1>3. CASE CreateFile
  BY <1>3, <1>0 DEF CreateFile, launchVars
<1>4. CASE FillFile
  BY <1>4, <1>0 DEF FillFile, launchVars
<1>5. CASE PrintClientConfig
  BY <1>5, <1>0 DEF PrintClientConfig, fileVars, launchVars
<1>6. CASE Abandon
  BY <1>6, <1>0 DEF Abandon, fileVars, launchVars
<1>7. ASSUME NEW c \in Commands, NEW s \in Sources,
             NEW p \in {Unset} \cup U16Texts, Launch(c, s, p)
      PROVE  Merged'
  BY <1>7, <1>0 DEF Launch, fileVars, setupVars
<1>8. CASE ReadLocal
  BY <1>8, <1>0 DEF ReadLocal, fileVars, setupVars
<1>9. CASE ReadHome
  BY <1>9, <1>0 DEF ReadHome, fileVars, setupVars
<1>10. CASE LoadConfig
  <2>1. config' = Merge(env_overrides',
                    Merge(local_map, Merge(home_map, Merge(machine, Defaults))))
    BY <1>10, <1>0 DEF LoadConfig
  <2>2. CASE Deserializes(config')
    BY <1>10, <2>1, <2>2 DEF LoadConfig, fileVars
  <2>3. CASE ~Deserializes(config')
    BY <1>10, <2>1, <2>3 DEF LoadConfig, fileVars
  <2> QED
    BY <2>2, <2>3
<1>11. CASE OpenStore
  BY <1>11, <1>0 DEF OpenStore, fileVars, setupVars
<1>12. ASSUME NEW p \in Followed, NEW place \in AdvicePlaces,
              RestartAsAdvised(p, place)
      PROVE  Merged'
  BY <1>12, <1>0 DEF RestartAsAdvised, setupVars
<1>13. CASE End
  BY <1>13, <1>0 DEF End, fileVars, setupVars
<1>14. CASE UNCHANGED configVars
  BY <1>14, <1>0 DEF configVars, fileVars, setupVars, launchVars
<1> QED
  BY <1>1, <1>2, <1>3, <1>4, <1>5, <1>6, <1>7, <1>8, <1>9,
     <1>10, <1>11, <1>12, <1>13, <1>14 DEF ConfigNext

\* Every step keeps the versions in the files to those that have a catalog.
LEMMA CataloguedStep ==
  ASSUME ConfigTypeOK, Written, Catalogued, [ConfigNext]_configVars
  PROVE  Catalogued'
<1> USE DEF Catalogued
<1>0. /\ "api_version" \in Keys
      /\ NoSettings["api_version"] \in ServedVersions
      /\ \A a \in Answers : ConfigFields(a)["api_version"] \in ServedVersions
  BY LayersTyped, SettingsEnvKeys, ConfigFieldsKeys DEF ServedVersions, Keys
<1>1. ASSUME NEW a \in Answers, Ask(a)
      PROVE  Catalogued'
  BY <1>1 DEF Ask, fileVars, launchVars
<1>2. CASE StoreCredentials
  BY <1>2 DEF StoreCredentials, fileVars, launchVars
<1>3. CASE CreateFile
  BY <1>3, <1>0 DEF CreateFile, launchVars
<1>4. CASE FillFile
  <2>1. answers \in Answers
    BY <1>4 DEF FillFile, ConfigTypeOK
  <2> QED
    BY <1>4, <1>0, <2>1 DEF FillFile, launchVars
<1>5. CASE PrintClientConfig
  BY <1>5 DEF PrintClientConfig, fileVars, launchVars
<1>6. CASE Abandon
  BY <1>6 DEF Abandon, fileVars, launchVars
<1>7. ASSUME NEW c \in Commands, NEW s \in Sources,
             NEW p \in {Unset} \cup U16Texts, Launch(c, s, p)
      PROVE  Catalogued'
  BY <1>7 DEF Launch, fileVars, setupVars
<1>8. CASE ReadLocal
  BY <1>8 DEF ReadLocal, fileVars, setupVars
<1>9. CASE ReadHome
  BY <1>9 DEF ReadHome, fileVars, setupVars
<1>10. CASE LoadConfig
  BY <1>10 DEF LoadConfig, fileVars, setupVars
<1>11. CASE OpenStore
  BY <1>11 DEF OpenStore, fileVars, setupVars
<1>12. ASSUME NEW p \in Followed, NEW place \in AdvicePlaces,
              RestartAsAdvised(p, place)
      PROVE  Catalogued'
  <2>1. PICK v \in VersionStoreBytes :
          /\ local' \in {local, [local EXCEPT !["api_version"] = String(v)]}
          /\ home' \in {home, [home EXCEPT !["api_version"] = String(v)]}
          /\ local_map' = NoSettings /\ home_map' = NoSettings
    BY <1>12, AdvisedVersion DEF RestartAsAdvised
  <2>2. String(v) \in ServedVersions
    BY DEF ServedVersions
  <2>3. /\ local'["api_version"] \in {local["api_version"], String(v)}
        /\ home'["api_version"] \in {home["api_version"], String(v)}
    BY <1>0, <2>1 DEF ConfigTypeOK
  <2> QED
    BY <1>0, <2>1, <2>2, <2>3
<1>13. CASE End
  BY <1>13, <1>0 DEF End, fileVars, setupVars
<1>14. CASE UNCHANGED configVars
  BY <1>14 DEF configVars, fileVars, setupVars, launchVars
<1> QED
  BY <1>1, <1>2, <1>3, <1>4, <1>5, <1>6, <1>7, <1>8, <1>9,
     <1>10, <1>11, <1>12, <1>13, <1>14 DEF ConfigNext

\* The layers give a key other than the version what they gave it before the
\* version in one of them was changed.
LEMMA OtherLayersKept ==
  ASSUME ConfigTypeOK, NEW k \in Keys, machine' = machine,
         environ'[k] = environ[k], local'[k] = local[k], home'[k] = home[k]
  PROVE  Layers'[k] = Layers[k]
<1>1. env_overrides'[k] = env_overrides[k]
  BY DEF env_overrides
<1> QED
  BY <1>1 DEF Layers, Merge

\* Which layer gives the version.
LEMMA LayersVersion ==
  ASSUME ConfigTypeOK
  PROVE  /\ environ["api_version"] # Unset =>
              Layers["api_version"] = String(environ["api_version"])
         /\ environ["api_version"] = Unset /\ local["api_version"] # Unset =>
              Layers["api_version"] = local["api_version"]
         /\ environ["api_version"] = Unset /\ local["api_version"] = Unset
              /\ home["api_version"] # Unset =>
                Layers["api_version"] = home["api_version"]
<1>1. "api_version" \in Keys \ {"port"}
  BY DEF Keys
<1>2. environ["api_version"] = Unset => env_overrides["api_version"] = Unset
  BY <1>1, EnvOverridesKeys DEF ConfigTypeOK
<1>3. environ["api_version"] # Unset =>
        /\ env_overrides["api_version"] = String(environ["api_version"])
        /\ env_overrides["api_version"] # Unset
  <2>1. environ["api_version"] # Unset => environ["api_version"] \in Text
    BY <1>1 DEF ConfigTypeOK, Texts
  <2> QED
    BY <1>1, <2>1, EnvOverridesKeys, SettingsDiffer DEF ConfigTypeOK
<1>4. Layers["api_version"] =
        IF env_overrides["api_version"] # Unset
          THEN env_overrides["api_version"]
        ELSE IF local["api_version"] # Unset THEN local["api_version"]
        ELSE IF home["api_version"] # Unset THEN home["api_version"]
        ELSE IF machine["api_version"] # Unset THEN machine["api_version"]
        ELSE Defaults["api_version"]
  BY <1>1 DEF Layers, Merge
<1> QED
  BY <1>2, <1>3, <1>4

\* A step that leaves the process, its environment and the files alone keeps
\* what it took over.
LEMMA TakenOverKept ==
  ASSUME TakenOver, process # "down", quiet' => quiet,
         UNCHANGED <<local, home, machine, launch, environ, before>>
  PROVE  TakenOver'
<1>1. Layers' = Layers
  BY DEF Layers, env_overrides
<1> QED
  BY <1>1 DEF TakenOver

\* Every step keeps what a restarted server took over from its predecessor.
LEMMA TakenOverStep ==
  ASSUME ConfigTypeOK, Undisturbed, Merged, TakenOver, [ConfigNext]_configVars
  PROVE  TakenOver'
<1>1. ASSUME NEW a \in Answers, Ask(a)
      PROVE  TakenOver'
  BY <1>1 DEF Ask, TakenOver
<1>2. ASSUME setup # "idle", quiet' = quiet, process' = process
      PROVE  TakenOver'
  BY <1>2 DEF Undisturbed, TakenOver
<1>3. CASE StoreCredentials \/ CreateFile \/ FillFile \/ PrintClientConfig
             \/ Abandon
  BY <1>2, <1>3
     DEF StoreCredentials, CreateFile, FillFile, PrintClientConfig, Abandon,
         launchVars
<1>4. ASSUME NEW c \in Commands, NEW s \in Sources,
             NEW p \in {Unset} \cup U16Texts, Launch(c, s, p)
      PROVE  TakenOver'
  BY <1>4 DEF Launch, TakenOver
<1>5. CASE ReadLocal \/ ReadHome \/ LoadConfig \/ OpenStore
  BY <1>5, TakenOverKept
     DEF ReadLocal, ReadHome, LoadConfig, OpenStore, fileVars
<1>6. ASSUME NEW p \in Followed, NEW place \in AdvicePlaces,
             RestartAsAdvised(p, place)
      PROVE  TakenOver'
  <2> SUFFICES ASSUME quiet'
               PROVE  TakenOver'
    BY DEF TakenOver
  <2>1. /\ process = "running" /\ quiet /\ before' = config
        /\ machine' = machine
    BY <1>6 DEF RestartAsAdvised
  <2>2. /\ local_map = local /\ home_map = home
        /\ config = Layers
        /\ Deserializes(config) /\ HasCatalog(config["api_version"].string)
    BY <2>1 DEF Undisturbed, Merged, Layers
  <2>3. PICK v \in PromptCatalogs[p] :
          /\ environ' = IF place = "environment"
                          THEN [environ EXCEPT !["api_version"] = v]
                          ELSE environ
          /\ local' = IF place = "local"
                        THEN [local EXCEPT !["api_version"] = String(v)]
                        ELSE local
          /\ home' = IF place = "home"
                       THEN [home EXCEPT !["api_version"] = String(v)]
                       ELSE home
    BY <1>6 DEF RestartAsAdvised
  <2>4. launch'.advice = place /\ launch'.prompt = p
    BY <1>6 DEF RestartAsAdvised, ConfigTypeOK
  <2>5. ASSUME NEW k \in Keys \ {"api_version"}
        PROVE  Layers'[k] = config[k]
    <3>1. /\ environ'[k] = environ[k]
          /\ local'[k] = local[k] /\ home'[k] = home[k]
      BY <2>3, <2>5 DEF ConfigTypeOK
    <3> QED
      BY <2>1, <2>2, <3>1, OtherLayersKept
  <2>6. place = "environment" => environ'["api_version"] = v
    BY <2>3 DEF ConfigTypeOK, Keys
  <2>7. /\ place = "local" => local'["api_version"] = String(v)
        /\ place = "home" => home'["api_version"] = String(v)
    BY <2>3 DEF ConfigTypeOK, Keys
  <2>8. place \in {"local", "home"} /\ environ'["api_version"] # Unset =>
          before'["api_version"] = String(environ'["api_version"])
    BY <2>1, <2>2, <2>3, LayersVersion
  <2>9. place = "home" /\ environ'["api_version"] = Unset
          /\ local'["api_version"] # Unset =>
            before'["api_version"] = local'["api_version"]
    BY <2>1, <2>2, <2>3, LayersVersion
  <2> QED
    BY <2>1, <2>2, <2>4, <2>5, <2>6, <2>7, <2>8, <2>9 DEF TakenOver
<1>7. CASE End
  BY <1>7 DEF End, TakenOver
<1>8. CASE UNCHANGED configVars
  BY <1>8, TakenOverKept DEF configVars, fileVars, launchVars, TakenOver
<1> QED
  BY <1>1, <1>3, <1>4, <1>5, <1>6, <1>7, <1>8 DEF ConfigNext

\* Every step keeps the types.
LEMMA ConfigTypeStep ==
  ASSUME ConfigTypeOK, Written, [ConfigNext]_configVars
  PROVE  ConfigTypeOK'
<1>1. ASSUME NEW a \in Answers, Ask(a)
      PROVE  ConfigTypeOK'
  <2>1. a # Nothing
    BY <1>1, ConfigurationAssumption DEF ConfigurationAssumption
  <2> QED
    BY <1>1, <2>1 DEF Ask, ConfigTypeOK, fileVars, launchVars
<1>2. CASE StoreCredentials
  BY <1>2 DEF StoreCredentials, ConfigTypeOK, fileVars, launchVars
<1>3. CASE CreateFile
  BY <1>3, LayersTyped DEF CreateFile, ConfigTypeOK, launchVars
<1>4. CASE FillFile
  <2>1. answers \in Answers
    BY <1>4 DEF FillFile, ConfigTypeOK
  <2>2. /\ SettingsEnv(answers) \in [Keys -> Texts]
        /\ ConfigFields(answers) \in [Keys -> Settings]
    BY <2>1, SettingsEnvKeys, ConfigFieldsKeys
  <2> QED
    BY <1>4, <2>2 DEF FillFile, ConfigTypeOK, launchVars
<1>5. CASE PrintClientConfig
  <2>1. answers \in Answers
    BY <1>5 DEF PrintClientConfig, ConfigTypeOK
  <2>2. SettingsEnv(answers) \in [Keys -> Texts]
    BY <2>1, SettingsEnvKeys
  <2> QED
    BY <1>5, <2>1, <2>2, ConfigurationAssumption
       DEF PrintClientConfig, ConfigTypeOK, fileVars, launchVars,
           ConfigurationAssumption
<1>6. CASE Abandon
  BY <1>6 DEF Abandon, ConfigTypeOK, fileVars, launchVars
<1>7. ASSUME NEW c \in Commands, NEW s \in Sources,
             NEW p \in {Unset} \cup U16Texts, Launch(c, s, p)
      PROVE  ConfigTypeOK'
  <2>1. PICK e \in EnvironmentFrom(s) : environ' = Override(e, c, p)
    BY <1>7 DEF Launch
  <2>2. e \in [Keys -> Texts]
    BY <2>1, LayersTyped, ConfigurationAssumption
       DEF EnvironmentFrom, Sources, ConfigTypeOK, ConfigurationAssumption
  <2>3. environ' \in [Keys -> Texts]
    BY <2>1, <2>2, OverrideKeys
  <2>4. p \in Texts
    BY ConfigurationAssumption DEF ConfigurationAssumption, U16Texts, Texts
  <2>5. quiet' \in BOOLEAN
    BY <1>7 DEF Launch
  <2> QED
    BY <1>7, <2>3, <2>4, <2>5 DEF Launch, ConfigTypeOK, fileVars, setupVars
<1>8. CASE ReadLocal
  BY <1>8 DEF ReadLocal, ConfigTypeOK, fileVars, setupVars
<1>9. CASE ReadHome
  BY <1>9 DEF ReadHome, ConfigTypeOK, fileVars, setupVars
<1>10. CASE LoadConfig
  <2>1. config' \in [Keys -> Settings]
    BY <1>10, MergeTyped, EnvOverridesKeys, LayersTyped
       DEF LoadConfig, ConfigTypeOK
  <2>2. process' \in {"loaded", "refused"}
    BY <1>10 DEF LoadConfig
  <2> QED
    BY <1>10, <2>1, <2>2 DEF LoadConfig, ConfigTypeOK, fileVars, setupVars
<1>11. CASE OpenStore
  BY <1>11 DEF OpenStore, ConfigTypeOK, fileVars, setupVars
<1>12. ASSUME NEW p \in Followed, NEW place \in AdvicePlaces,
              RestartAsAdvised(p, place)
      PROVE  ConfigTypeOK'
  <2>1. PICK v \in PromptCatalogs[p] :
          /\ environ' \in {environ, [environ EXCEPT !["api_version"] = v]}
          /\ local' \in {local, [local EXCEPT !["api_version"] = String(v)]}
          /\ home' \in {home, [home EXCEPT !["api_version"] = String(v)]}
    BY <1>12 DEF RestartAsAdvised
  <2>2. v \in Texts /\ String(v) \in Settings
    BY <2>1, AdvisedVersion, VersionsAgree, SettingsDiffer DEF Texts, Settings
  <2>3. /\ environ' \in [Keys -> Texts]
        /\ local' \in [Keys -> Settings] /\ home' \in [Keys -> Settings]
    BY <2>1, <2>2 DEF ConfigTypeOK
  <2>4. /\ launch' = [launch EXCEPT !.advice = place, !.prompt = p]
        /\ before' = config /\ edited' \in BOOLEAN
        /\ restarts' = restarts + 1
        /\ process' = "launched"
        /\ local_map' = NoSettings /\ home_map' = NoSettings
        /\ config' = NoSettings
        /\ UNCHANGED <<dotenv, machine, setupVars, quiet>>
    BY <1>12 DEF RestartAsAdvised
  <2>5. launch' \in [command : Commands \cup {"none"},
                     source : Sources, port : Texts,
                     advice : AdvicePlaces \cup {"none"},
                     prompt : Prompts \cup {"none"}]
    BY <2>4, AdvisedVersion DEF ConfigTypeOK
  <2> QED
    BY <2>3, <2>4, <2>5, LayersTyped DEF ConfigTypeOK, setupVars
<1>13. CASE End
  BY <1>13, LayersTyped
     DEF End, NoLaunch, Sources, Texts, ConfigTypeOK, fileVars, setupVars
<1>14. CASE UNCHANGED configVars
  BY <1>14 DEF configVars, ConfigTypeOK, fileVars, setupVars, launchVars
<1> QED
  BY <1>1, <1>2, <1>3, <1>4, <1>5, <1>6, <1>7, <1>8, <1>9,
     <1>10, <1>11, <1>12, <1>13, <1>14 DEF ConfigNext

\* Every reachable state satisfies the strengthening.
LEMMA ConfigInductive == ConfigSpec => []ConfigIInv
<1>1. ConfigInit => ConfigIInv
  BY ConfigInitIInv
<1>2. ConfigIInv /\ [ConfigNext]_configVars => ConfigIInv'
  BY ConfigTypeStep, WrittenStep, CataloguedStep, FinishedStep, LaunchedStep,
     UndisturbedStep, MergedStep, TakenOverStep DEF ConfigIInv
<1> QED
  BY <1>1, <1>2, PTL DEF ConfigSpec

-----------------------------------------------------------------------------
(* What follows from the strengthening.                                    *)

\* Which layer each setting of a process comes from.
LEMMA LayerOf ==
  ASSUME ConfigIInv, Started, NEW k \in Keys
  PROVE  /\ environ[k] # Unset /\ k # "port" => config[k] = String(environ[k])
         /\ environ["port"] \in U16Texts =>
              config["port"] = Number(ParsedU64[environ["port"]])
         /\ environ[k] = Unset =>
              /\ local_map[k] # Unset => config[k] = local_map[k]
              /\ local_map[k] = Unset /\ home_map[k] # Unset =>
                   config[k] = home_map[k]
              /\ local_map[k] = Unset /\ home_map[k] = Unset
                   /\ machine[k] = Unset => config[k] = Defaults[k]
<1>1. /\ config = Merge(env_overrides,
                    Merge(local_map, Merge(home_map, Merge(machine, Defaults))))
      /\ environ \in [Keys -> Texts]
  BY DEF ConfigIInv, Merged, Started, ConfigTypeOK
<1>2. \A j \in Keys :
        config[j] = IF env_overrides[j] # Unset THEN env_overrides[j]
                    ELSE IF local_map[j] # Unset THEN local_map[j]
                    ELSE IF home_map[j] # Unset THEN home_map[j]
                    ELSE IF machine[j] # Unset THEN machine[j]
                    ELSE Defaults[j]
  BY <1>1 DEF Merge
<1>3. ASSUME environ[k] = Unset
      PROVE  /\ local_map[k] # Unset => config[k] = local_map[k]
             /\ local_map[k] = Unset /\ home_map[k] # Unset =>
                  config[k] = home_map[k]
             /\ local_map[k] = Unset /\ home_map[k] = Unset
                  /\ machine[k] = Unset => config[k] = Defaults[k]
  BY <1>1, <1>2, <1>3, EnvOverridesKeys
<1>4. ASSUME environ[k] # Unset, k # "port"
      PROVE  config[k] = String(environ[k])
  <2>1. environ[k] \in Text
    BY <1>1, <1>4 DEF Texts
  <2>2. env_overrides[k] = String(environ[k]) /\ env_overrides[k] # Unset
    BY <1>1, <1>4, <2>1, EnvOverridesKeys, SettingsDiffer
  <2> QED
    BY <1>2, <1>4, <2>2
<1>5. ASSUME environ["port"] \in U16Texts
      PROVE  config["port"] = Number(ParsedU64[environ["port"]])
  <2>1. ParsedU64[environ["port"]] \in Nat
    BY <1>5, ConfigurationAssumption DEF ConfigurationAssumption, U16Texts
  <2>2. /\ env_overrides["port"] = Number(ParsedU64[environ["port"]])
        /\ env_overrides["port"] # Unset
        /\ "port" \in Keys
    BY <1>1, <1>5, <2>1, EnvOverridesKeys, SettingsDiffer DEF Keys
  <2> QED
    BY <1>2, <2>2
<1> QED
  BY <1>3, <1>4, <1>5

\* Whatever a process has been handed is an environment.
LEMMA HandedTyped ==
  ASSUME ConfigIInv, process # "down"
  PROVE  HandedOver \subseteq [Keys -> Texts]
<1>1. all_saved \subseteq Answers
  BY DEF ConfigIInv, ConfigTypeOK
<1>2. EnvsWritten \subseteq [Keys -> Texts]
  BY <1>1, WrittenTyped
<1>3. CASE launch.source \in {"none", "dotenv", "printed"}
  BY <1>2, <1>3, LayersTyped DEF HandedOver
<1>4. CASE launch.source = "hand"
  BY <1>4, ConfigurationAssumption DEF HandedOver, ConfigurationAssumption
<1> QED
  BY <1>3, <1>4 DEF ConfigIInv, Launched, Sources

\* The environment of a process, key by key, from what it has been handed.
LEMMA EnvironmentKeys ==
  ASSUME ConfigIInv, process # "down", NEW e \in HandedOver,
         environ = Override(e, launch.command, launch.port)
  PROVE  /\ e \in [Keys -> Texts]
         /\ \A k \in {"url", "auth_method", "api_version"} : environ[k] = e[k]
         /\ launch.command = "start" => environ["transport"] = "stdio"
         /\ launch.command = "http" => environ["transport"] = "http"
         /\ launch.command = "call" => environ["transport"] = e["transport"]
         /\ launch.port # Unset => environ["port"] = launch.port
         /\ launch.port = Unset => environ["port"] = e["port"]
<1>1. e \in [Keys -> Texts]
  BY HandedTyped
<1>2. launch.port \in {Unset} \cup U16Texts
  BY DEF ConfigIInv, Launched
<1> QED
  BY <1>1, <1>2, OverrideKeys

\* A process without anything written by hand has the URL and the version of
\* one setup.
LEMMA TogetherFollows == ConfigIInv => SettingsComeTogether
<1> SUFFICES ASSUME ConfigIInv, process = "running", OnlySetup
             PROVE  \E a \in all_saved :
                      /\ config["url"] = String(a.url)
                      /\ config["api_version"] = String(LabelOf(a.choice))
  BY DEF SettingsComeTogether
<1>0. all_saved \subseteq Answers
  BY DEF ConfigIInv, ConfigTypeOK
<1>1. Started /\ "url" \in Keys /\ "api_version" \in Keys
  BY DEF Started, Keys
<1>2. PICK e \in HandedOver :
        environ = Override(e, launch.command, launch.port)
  BY DEF ConfigIInv, Launched, OnlySetup
<1>3. e \in EnvsWritten
  BY <1>2 DEF OnlySetup, HandedOver, EnvsWritten
<1>4. environ["url"] = e["url"] /\ environ["api_version"] = e["api_version"]
  BY <1>2, EnvironmentKeys
<1>5. CASE e # NoSettings
  <2>1. PICK a \in all_saved :
          /\ e["url"] = a.url /\ e["url"] # Unset
          /\ e["api_version"] = LabelOf(a.choice)
          /\ e["api_version"] # Unset
    BY <1>0, <1>3, <1>5, EnvKeys
  <2> QED
    BY <1>1, <1>4, <2>1, LayerOf
<1>6. CASE e = NoSettings
  <2>1. environ["url"] = Unset /\ environ["api_version"] = Unset
    BY <1>1, <1>4, <1>6, LayersTyped
  <2>2. local_map \in FilesWritten /\ home_map \in FilesWritten
    BY DEF ConfigIInv, Written, OnlySetup
  <2>3. CASE local_map # NoSettings
    <3>1. PICK a \in all_saved :
            /\ local_map["url"] = String(a.url) /\ local_map["url"] # Unset
            /\ local_map["api_version"] = String(LabelOf(a.choice))
            /\ local_map["api_version"] # Unset
      BY <2>2, <2>3, <1>0, FileKeys
    <3> QED
      BY <1>1, <2>1, <3>1, LayerOf
  <2>4. CASE local_map = NoSettings /\ home_map # NoSettings
    <3>1. PICK a \in all_saved :
            /\ home_map["url"] = String(a.url) /\ home_map["url"] # Unset
            /\ home_map["api_version"] = String(LabelOf(a.choice))
            /\ home_map["api_version"] # Unset
      BY <2>2, <2>4, <1>0, FileKeys
    <3>2. local_map["url"] = Unset /\ local_map["api_version"] = Unset
      BY <1>1, <2>4, LayersTyped
    <3> QED
      BY <1>1, <2>1, <3>1, <3>2, LayerOf
  <2>5. CASE local_map = NoSettings /\ home_map = NoSettings
    <3>1. config["url"] = Unset
      BY <1>1, <2>1, <2>5, LayerOf, LayersTyped DEF OnlySetup
    <3>2. Deserializes(config)
      BY DEF ConfigIInv, Merged
    <3> QED
      BY <3>1, <3>2, SettingsDiffer DEF Deserializes
  <2> QED
    BY <2>3, <2>4, <2>5
<1> QED
  BY <1>5, <1>6

\* A version nobody wrote by hand has a catalog.
LEMMA VersionHasCatalog ==
  ASSUME ConfigIInv, Started, launch.source # "hand",
         machine["api_version"] = Unset
  PROVE  \E v \in VersionStoreBytes : config["api_version"] = String(v)
<1>1. process # "down" /\ "api_version" \in Keys
  BY DEF Started, Keys
<1>2. environ["api_version"] \in {Unset} \cup VersionStoreBytes
  BY <1>1 DEF ConfigIInv, Launched
<1>3. \A f \in {local_map, home_map} :
        \/ f["api_version"] = Unset
        \/ \E v \in VersionStoreBytes : f["api_version"] = String(v)
  BY DEF ConfigIInv, Catalogued, ServedVersions
<1>4. CASE environ["api_version"] # Unset
  BY <1>1, <1>2, <1>4, LayerOf
<1>5. CASE environ["api_version"] = Unset
  BY <1>1, <1>3, <1>5, LayerOf, LayersTyped, VersionsAgree
<1> QED
  BY <1>4, <1>5

LEMMA VersionsFollow == ConfigIInv => VersionsServe
<1> SUFFICES ASSUME ConfigIInv PROVE VersionsServe
  OBVIOUS
<1>1. ASSUME process = "unknown_version", launch.source # "hand",
             machine["api_version"] = Unset
      PROVE  FALSE
  <2>1. PICK v \in VersionStoreBytes : config["api_version"] = String(v)
    BY <1>1, VersionHasCatalog DEF Started
  <2>2. config["api_version"].string = v
    BY <2>1, VersionsAgree, SettingsDiffer
  <2> QED
    BY <1>1, <2>1, <2>2, VersionsAgree DEF ConfigIInv, Merged, HasCatalog
<1>2. process = "running" => config["api_version"].string \in VersionStoreBytes
  BY DEF ConfigIInv, Merged, HasCatalog
<1> QED
  BY <1>1, <1>2, VersionsAgree DEF VersionsServe

\* A server restarted as advised runs, with the settings of the one before and
\* the advised version, or the old one where a layer above hides the advice.
LEMMA AdviceFollows == ConfigIInv => AdviceUnlessShadowed
<1> SUFFICES ASSUME ConfigIInv, Started, launch.advice # "none", quiet
             PROVE  /\ process = "running"
                    /\ \A k \in Keys \ {"api_version"} : config[k] = before[k]
                    /\ IF Shadowed
                         THEN config["api_version"] = before["api_version"]
                         ELSE CatalogCheck(config["api_version"].string,
                                           PromptCatalogs[launch.prompt])
                                = "match"
  BY DEF AdviceUnlessShadowed
<1>1. /\ process \notin {"down", "launched", "read_local", "read_home", "loaded"}
      /\ ConfigTypeOK
  BY DEF Started, ConfigIInv
<1>2. config = Layers /\ local_map = local
  BY <1>1 DEF Started, ConfigIInv, Undisturbed, Merged, Layers
<1>3. /\ Deserializes(before) /\ HasCatalog(before["api_version"].string)
      /\ \A k \in Keys \ {"api_version"} : config[k] = before[k]
  BY <1>1, <1>2 DEF ConfigIInv, TakenOver
<1>4. \A v \in PromptCatalogs[launch.prompt] :
        /\ v \in Text /\ v # Unset /\ HasCatalog(v)
        /\ String(v) \in Strings /\ String(v) # Unset /\ String(v).string = v
  <2>1. PromptCatalogs[launch.prompt] \subseteq VersionStoreBytes
    BY <1>1, VersionsAgree DEF ConfigIInv, Launched
  <2> QED
    BY <2>1, VersionsAgree, SettingsDiffer, ConfigurationAssumption
       DEF HasCatalog, ConfigurationAssumption
<1>5. ASSUME Shadowed
      PROVE  config["api_version"] = before["api_version"]
  <2>1. CASE environ["api_version"] # Unset
    BY <1>1, <1>2, <1>5, <2>1, LayersVersion
       DEF Shadowed, ConfigIInv, TakenOver
  <2>2. CASE environ["api_version"] = Unset
    <3>1. launch.advice = "home" /\ local["api_version"] # Unset
      BY <1>2, <1>5, <2>2 DEF Shadowed
    <3> QED
      BY <1>1, <1>2, <1>5, <2>2, <3>1, LayersVersion
         DEF ConfigIInv, TakenOver
  <2> QED
    BY <2>1, <2>2
<1>6. ASSUME ~Shadowed
      PROVE  \E v \in PromptCatalogs[launch.prompt] :
               config["api_version"] = String(v)
  <2>1. CASE launch.advice = "environment"
    BY <1>1, <1>2, <1>4, <2>1, LayersVersion DEF ConfigIInv, TakenOver
  <2>2. CASE launch.advice = "local"
    <3>1. environ["api_version"] = Unset
      BY <1>6, <2>2 DEF Shadowed
    <3>2. \E v \in PromptCatalogs[launch.prompt] :
            local["api_version"] = String(v)
      BY <1>1, <2>2 DEF ConfigIInv, TakenOver
    <3> QED
      BY <1>1, <1>2, <1>4, <3>1, <3>2, LayersVersion
  <2>3. CASE launch.advice = "home"
    <3>1. environ["api_version"] = Unset /\ local["api_version"] = Unset
      BY <1>2, <1>6, <2>3 DEF Shadowed
    <3>2. \E v \in PromptCatalogs[launch.prompt] :
            home["api_version"] = String(v)
      BY <1>1, <2>3 DEF ConfigIInv, TakenOver
    <3> QED
      BY <1>1, <1>2, <1>4, <3>1, <3>2, LayersVersion
  <2> QED
    BY <1>1, <2>1, <2>2, <2>3 DEF ConfigTypeOK, AdvicePlaces
<1>7. /\ HasCatalog(config["api_version"].string)
      /\ config["api_version"] \in Strings
  BY <1>3, <1>4, <1>5, <1>6 DEF Deserializes
<1>8. Deserializes(config)
  BY <1>3, <1>7 DEF Deserializes, Keys
<1>9. process = "running"
  BY <1>7, <1>8 DEF Started, ConfigIInv, Merged
<1>10. ~Shadowed => CatalogCheck(config["api_version"].string,
                                 PromptCatalogs[launch.prompt]) = "match"
  BY <1>4, <1>6 DEF CatalogCheck
<1> QED
  BY <1>3, <1>5, <1>9, <1>10

\* The subcommand and its flags win over everything else.
LEMMA CommandWins ==
  ASSUME ConfigIInv, Started
  PROVE  /\ launch.command = "start" => config["transport"] = String("stdio")
         /\ launch.command = "http" => config["transport"] = String("http")
         /\ launch.port # Unset =>
              config["port"] = Number(ParsedU64[launch.port])
<1>1. process # "down" /\ "transport" \in Keys /\ "port" \in Keys
  BY DEF Started, Keys
<1>2. "stdio" # Unset /\ "http" # Unset
  BY ConfigurationAssumption DEF ConfigurationAssumption, Transports
<1>3. launch.port # Unset => launch.port \in U16Texts
  BY <1>1 DEF ConfigIInv, Launched
<1>4. /\ launch.command = "start" => environ["transport"] = "stdio"
      /\ launch.command = "http" => environ["transport"] = "http"
      /\ launch.port # Unset => environ["port"] = launch.port
  BY <1>1 DEF ConfigIInv, Launched
<1> QED
  BY <1>1, <1>2, <1>3, <1>4, LayerOf

\* Where the last setup put its answers, an undisturbed process that is
\* launched for them finds them: in its environment, in the local file or in
\* the home file.
LEMMA AnswersFound ==
  ASSUME ConfigIInv, Started, AsSetUp
  PROVE  /\ saved \in Answers
         /\ entered = saved.url
         /\ machine = NoSettings
         /\ \E e \in EnvsWritten :
              /\ environ = Override(e, launch.command, launch.port)
              /\ e \in HandedOver
              /\ \/ e = SettingsEnv(saved)
                 \/ e = NoSettings /\ local_map = ConfigFields(saved)
                 \/ /\ e = NoSettings /\ local_map = NoSettings
                    /\ home_map = ConfigFields(saved)
<1>1. /\ saved \in Answers /\ entered = saved.url /\ machine = NoSettings
      /\ Placed(saved)
      /\ saved.transport = "stdio" => printed = SettingsEnv(saved)
      /\ launch.source \in {"none", "dotenv", "printed"}
  BY DEF AsSetUp, OnlySetup, ConfigIInv, ConfigTypeOK, Finished
<1>2. /\ process \notin {"down", "launched", "read_local"}
      /\ local_map = local /\ home_map = home
      /\ launch.source = "dotenv" =>
           environ = Override(dotenv, launch.command, launch.port)
      /\ launch.source = "printed" =>
           environ = Override(printed, launch.command, launch.port)
  BY DEF AsSetUp, OnlySetup, Started, ConfigIInv, Undisturbed
<1>3. saved \in all_saved
  BY DEF ConfigIInv, Written, AsSetUp
<1>4. SettingsEnv(saved) \in EnvsWritten /\ NoSettings \in EnvsWritten
  BY <1>3 DEF EnvsWritten
<1>5. CASE launch.source = "none"
  <2>1. PICK e \in HandedOver :
          environ = Override(e, launch.command, launch.port)
    BY <1>2 DEF ConfigIInv, Launched, AsSetUp, OnlySetup
  <2>2. e = NoSettings
    BY <1>5, <2>1 DEF HandedOver
  <2>3. \/ local = ConfigFields(saved)
        \/ local = NoSettings /\ home = ConfigFields(saved)
    BY <1>1, <1>5 DEF AsSetUp, Placed
  <2> QED
    BY <1>1, <1>2, <1>4, <2>1, <2>2, <2>3
<1>6. CASE launch.source = "dotenv"
  <2>1. dotenv = SettingsEnv(saved)
    BY <1>1, <1>6 DEF AsSetUp, Placed
  <2> QED
    BY <1>1, <1>2, <1>4, <1>6, <2>1 DEF HandedOver
<1>7. CASE launch.source = "printed"
  <2>1. printed = SettingsEnv(saved)
    BY <1>1, <1>7 DEF AsSetUp
  <2> QED
    BY <1>1, <1>2, <1>4, <1>7, <2>1 DEF HandedOver
<1> QED
  BY <1>1, <1>5, <1>6, <1>7

\* Those answers are then what it uses.
LEMMA AnswersUsed ==
  ASSUME ConfigIInv, Started, AsSetUp
  PROVE  /\ config["url"] = String(saved.url)
         /\ config["auth_method"] = String("basic")
         /\ config["api_version"] = String(LabelOf(saved.choice))
         /\ launch.command = "call" =>
              config["transport"] = String(saved.transport)
         /\ launch.port = Unset => config["port"] = Number(3000)
<1>1. PICK e \in EnvsWritten :
        /\ environ = Override(e, launch.command, launch.port)
        /\ e \in HandedOver
        /\ \/ e = SettingsEnv(saved)
           \/ e = NoSettings /\ local_map = ConfigFields(saved)
           \/ /\ e = NoSettings /\ local_map = NoSettings
              /\ home_map = ConfigFields(saved)
  BY AnswersFound
<1>2. saved \in Answers /\ machine = NoSettings
  BY AnswersFound
<1>3. process # "down"
  BY DEF Started
<1>4. /\ \A k \in {"url", "auth_method", "api_version"} : environ[k] = e[k]
      /\ launch.command = "call" => environ["transport"] = e["transport"]
      /\ launch.port = Unset => environ["port"] = e["port"]
  BY <1>1, <1>3, EnvironmentKeys
<1>5. Keys = {"url", "auth_method", "api_version", "transport", "port"}
  BY DEF Keys
<1>6. \A t \in Text : t # Unset /\ String(t) # Unset
  BY SettingsDiffer, ConfigurationAssumption DEF ConfigurationAssumption
<1>7. /\ saved.url \in Text /\ LabelOf(saved.choice) \in Text
      /\ saved.transport \in Text /\ "basic" \in Text
  BY <1>2, SettingsEnvKeys, ConfigurationAssumption
     DEF ConfigurationAssumption
<1>8. ASSUME launch.port = Unset PROVE config["port"] = Number(3000)
  <2>1. environ["port"] = Unset
    BY <1>1, <1>4, <1>8, EnvKeys DEF ConfigIInv, ConfigTypeOK
  <2>2. local_map["port"] = Unset /\ home_map["port"] = Unset
    BY FileKeys DEF ConfigIInv, ConfigTypeOK, Written, AsSetUp, OnlySetup
  <2> QED
    BY <1>2, <1>5, <2>1, <2>2, LayerOf, LayersTyped
<1> DEFINE Found == /\ config["url"] = String(saved.url)
                    /\ config["auth_method"] = String("basic")
                    /\ config["api_version"] = String(LabelOf(saved.choice))
                    /\ launch.command = "call" =>
                         config["transport"] = String(saved.transport)
<1>9. ASSUME e = SettingsEnv(saved) PROVE Found
  <2>1. /\ e["url"] = saved.url /\ e["auth_method"] = "basic"
        /\ e["api_version"] = LabelOf(saved.choice)
        /\ e["transport"] = saved.transport
    BY <1>2, <1>9, SettingsEnvKeys
  <2>2. ASSUME NEW k \in Keys \ {"port"}, environ[k] \in Text
        PROVE  config[k] = String(environ[k])
    BY <1>6, <2>2, LayerOf
  <2> QED
    BY <1>4, <1>5, <1>7, <2>1, <2>2
<1>10. ASSUME e = NoSettings, local_map = ConfigFields(saved) PROVE Found
  <2>1. /\ local_map["url"] = String(saved.url)
        /\ local_map["auth_method"] = String("basic")
        /\ local_map["api_version"] = String(LabelOf(saved.choice))
        /\ local_map["transport"] = String(saved.transport)
    BY <1>2, <1>10, ConfigFieldsKeys
  <2>2. \A k \in Keys : e[k] = Unset
    BY <1>10, LayersTyped
  <2>3. ASSUME NEW k \in Keys, environ[k] = Unset, local_map[k] # Unset
        PROVE  config[k] = local_map[k]
    BY <2>3, LayerOf
  <2> QED
    BY <1>4, <1>5, <1>6, <1>7, <2>1, <2>2, <2>3
<1>11. ASSUME e = NoSettings, local_map = NoSettings,
              home_map = ConfigFields(saved)
       PROVE  Found
  <2>1. /\ home_map["url"] = String(saved.url)
        /\ home_map["auth_method"] = String("basic")
        /\ home_map["api_version"] = String(LabelOf(saved.choice))
        /\ home_map["transport"] = String(saved.transport)
    BY <1>2, <1>11, ConfigFieldsKeys
  <2>2. \A k \in Keys : e[k] = Unset /\ local_map[k] = Unset
    BY <1>11, LayersTyped
  <2>3. ASSUME NEW k \in Keys, environ[k] = Unset, local_map[k] = Unset,
               home_map[k] # Unset
        PROVE  config[k] = home_map[k]
    BY <2>3, LayerOf
  <2> QED
    BY <1>4, <1>5, <1>6, <1>7, <2>1, <2>2, <2>3
<1>12. Found
  BY <1>1, <1>9, <1>10, <1>11
<1> QED
  BY <1>8, <1>12

LEMMA SetupFollows == ConfigIInv => SetupTakesEffect
<1> SUFFICES ASSUME ConfigIInv PROVE SetupTakesEffect
  OBVIOUS
<1>1. ASSUME Started, AsSetUp
      PROVE  /\ process = "running"
             /\ config["url"] = String(saved.url)
             /\ config["api_version"] = String(LabelOf(saved.choice))
             /\ launch.command = "call" =>
                  config["transport"] = String(saved.transport)
             /\ entered = saved.url
  <2>1. /\ saved \in Answers /\ entered = saved.url
    BY <1>1, AnswersFound
  <2>2. /\ saved.url \in Text /\ saved.transport \in Transports
        /\ LabelOf(saved.choice) \in VersionStoreBytes
        /\ LabelOf(saved.choice) \in Text
    BY <2>1, SettingsEnvKeys
  <2>3. /\ config["url"] = String(saved.url)
        /\ config["auth_method"] = String("basic")
        /\ config["api_version"] = String(LabelOf(saved.choice))
        /\ launch.command = "call" =>
             config["transport"] = String(saved.transport)
        /\ launch.port = Unset => config["port"] = Number(3000)
    BY <1>1, AnswersUsed
  <2>4. /\ launch.command \in {"start", "http", "call"}
        /\ launch.port # Unset => launch.port \in U16Texts
    BY <1>1 DEF Started, ConfigIInv, Launched, Commands
  <2>5. config["transport"] \in {String(t) : t \in Transports}
    BY <1>1, <2>2, <2>3, <2>4, CommandWins DEF Transports
  <2>6. ValidPort(config["port"])
    <3>1. PICK n \in U16 : config["port"] = Number(n)
      <4>1. CASE launch.port = Unset
        <5>1. 3000 \in U16
          BY DEF U16
        <5> QED
          BY <2>3, <4>1, <5>1
      <4>2. CASE launch.port # Unset
        BY <1>1, <2>4, <4>2, CommandWins DEF U16Texts
      <4> QED
        BY <4>1, <4>2
    <3>2. n \in Nat
      BY <3>1 DEF U16
    <3> QED
      BY <3>1, <3>2, SettingsDiffer DEF ValidPort
  <2>7. config["url"] \in Strings /\ config["api_version"] \in Strings
    BY <2>2, <2>3, SettingsDiffer
  <2>8. Deserializes(config)
    BY <2>3, <2>5, <2>6, <2>7 DEF Deserializes
  <2>9. config["api_version"].string \in VersionStoreBytes
    BY <2>2, <2>3, SettingsDiffer
  <2>10. process = "running"
    BY <1>1, <2>8, <2>9, VersionsAgree
       DEF Started, ConfigIInv, Merged, HasCatalog
  <2> QED
    BY <2>1, <2>3, <2>10
<1>2. ASSUME process = "running"
      PROVE  /\ launch.command = "start" =>
                  config["transport"] = String("stdio")
             /\ launch.command = "http" => config["transport"] = String("http")
             /\ launch.port # Unset =>
                  config["port"] = Number(ParsedU64[launch.port])
  BY <1>2, CommandWins DEF Started
<1> QED
  BY <1>1, <1>2 DEF SetupTakesEffect
-----------------------------------------------------------------------------
\* Every setting has the type of a text or of a setting, on its way from the
\* prompts through files and environments to the process, and setup and process
\* keep to their stages.
THEOREM ConfigTypeCorrect == ConfigSpec => []ConfigTypeOK
BY ConfigInductive, PTL DEF ConfigIInv

\* Where setup puts its answers the next process finds them, and the subcommand
\* and its flags win over them: for any texts, files and environments.
THEOREM SetupHasEffect == ConfigSpec => []SetupTakesEffect
BY ConfigInductive, SetupFollows, PTL

\* The merge of the layers never mixes two setups, of any number.
THEOREM SettingsNotMixed == ConfigSpec => []SettingsComeTogether
BY ConfigInductive, TogetherFollows, PTL

\* A version nobody wrote by hand has a catalog, schemas and embeddings.
THEOREM VersionsAreServed == ConfigSpec => []VersionsServe
BY ConfigInductive, VersionsFollow, PTL

\* Following the advice of a guided prompt gives a working server with the
\* settings of the one before, whatever they were and wherever they came from;
\* the prompt accepts it exactly where the advised version is not hidden by one
\* in the environment or in a nearer file, and otherwise nothing changes.
THEOREM AdviceHelpsUnlessShadowed == ConfigSpec => []AdviceUnlessShadowed
BY ConfigInductive, AdviceFollows, PTL
-----------------------------------------------------------------------------
(* The credentials.                                                        *)

\* What is about to be stored was given to setup; a server that has variables
\* never comes to the storage.
Stores ==
  /\ \A p \in Processes : pc[p] \in Storing => value[p] \in given
  /\ \A s \in Servers : env[s] # None => pc[s] \in {"start", "done"}

\* The file is written only when the keychain has failed.
FileIsFallback ==
  \A p \in Processes : pc[p] \in {"writing", "filling"} => Fails

\* While the latest setup is the only one, all that is in use is what it saved:
\* in the place the keychain decides on, and with the servers that save it
\* back.  None of them is at the file if the keychain works.
Settled ==
  alone =>
    /\ mode # "flaky" /\ latest # None
    /\ \A p \in Setups : pc[p] \notin Storing
    /\ \A s \in Servers : pc[s] \in Storing => value[s] = latest
    /\ Works => /\ keychain = latest
                /\ \A s \in Servers : pc[s] # "reading"
    /\ ~Works => file \in {latest, Torn}

IInv == TypeOK /\ SourcesKeptApart /\ Stores /\ FileIsFallback /\ Settled
-----------------------------------------------------------------------------
USE CredentialStorageAssumption DEF CredentialStorageAssumption

\* Every step keeps the types.
LEMMA TypeStep ==
  ASSUME TypeOK, Stores, [Next]_vars
  PROVE  TypeOK'
<1> USE DEF TypeOK, Stores, storageVars, processVars, historyVars,
            Processes, Busy, Storing
<1>1. ASSUME NEW p \in Setups, StartSetup(p) PROVE TypeOK'
  <2>1. PICK secret \in Secrets : /\ value' = [value EXCEPT ![p] = secret]
                                 /\ given' = given \cup {secret}
    BY <1>1 DEF StartSetup
  <2>2. pc' \in [Processes -> Busy \cup {"start", "done"}]
    BY <1>1 DEF StartSetup, Move
  <2>3. /\ value' \in [Processes -> Secrets \cup {None}]
        /\ given' \subseteq Secrets
    BY <2>1
  <2> QED
    BY <1>1, <2>2, <2>3 DEF StartSetup
<1>2. ASSUME NEW p \in Processes, SaveToKeychain(p) PROVE TypeOK'
  BY <1>2 DEF SaveToKeychain, Finish, Works
<1>3. ASSUME NEW p \in Processes, KeychainFails(p) PROVE TypeOK'
  BY <1>3 DEF KeychainFails, Move, Fails
<1>4. ASSUME NEW p \in Processes, Truncate(p) PROVE TypeOK'
  BY <1>4 DEF Truncate, Move
<1>5. ASSUME NEW p \in Processes, Fill(p) PROVE TypeOK'
  BY <1>5 DEF Fill, Finish
<1>6. ASSUME NEW p \in Processes, WriteFails(p) PROVE TypeOK'
  BY <1>6 DEF WriteFails
<1>7. ASSUME NEW p \in Processes, Die(p) PROVE TypeOK'
  BY <1>7 DEF Die
<1>8. ASSUME NEW s \in Servers, UseEnvironment(s) PROVE TypeOK'
  BY <1>8 DEF UseEnvironment, Move
<1>9. ASSUME NEW s \in Servers, LoadFromKeychain(s) PROVE TypeOK'
  BY <1>9 DEF LoadFromKeychain, Loaded, Move, Works
<1>10. ASSUME NEW s \in Servers, MissKeychain(s) PROVE TypeOK'
  BY <1>10 DEF MissKeychain, KeychainMissed, Move, Fails
<1>11. ASSUME NEW s \in Servers, LoadFromFile(s) PROVE TypeOK'
  BY <1>11 DEF LoadFromFile, Loaded, Readable, Move
<1>12. ASSUME NEW s \in Servers, LoadNothing(s) PROVE TypeOK'
  BY <1>12 DEF LoadNothing, Move
<1>13. CASE UNCHANGED vars
  BY <1>13 DEF vars
<1> QED
  BY <1>1, <1>2, <1>3, <1>4, <1>5, <1>6,
     <1>7, <1>8, <1>9, <1>10, <1>11, <1>12, <1>13
     DEF Next, Save, Load

\* What a step loads or stores was given to setup, or came from the
\* environment and stays in the cache.
LEMMA KeptApartStep ==
  ASSUME TypeOK, Stores, SourcesKeptApart, [Next]_vars
  PROVE  SourcesKeptApart'
<1> USE DEF TypeOK, Stores, SourcesKeptApart,
            storageVars, processVars, historyVars,
            Processes, Busy, Storing
<1>1. ASSUME NEW p \in Setups, StartSetup(p) PROVE SourcesKeptApart'
  BY <1>1 DEF StartSetup, Move
<1>2. ASSUME NEW p \in Processes, SaveToKeychain(p) PROVE SourcesKeptApart'
  BY <1>2 DEF SaveToKeychain, Finish, Works
<1>3. ASSUME NEW p \in Processes, KeychainFails(p) PROVE SourcesKeptApart'
  BY <1>3 DEF KeychainFails, Move, Fails
<1>4. ASSUME NEW p \in Processes, Truncate(p) PROVE SourcesKeptApart'
  BY <1>4 DEF Truncate, Move
<1>5. ASSUME NEW p \in Processes, Fill(p) PROVE SourcesKeptApart'
  BY <1>5 DEF Fill, Finish
<1>6. ASSUME NEW p \in Processes, WriteFails(p) PROVE SourcesKeptApart'
  BY <1>6 DEF WriteFails
<1>7. ASSUME NEW p \in Processes, Die(p) PROVE SourcesKeptApart'
  BY <1>7 DEF Die
<1>8. ASSUME NEW s \in Servers, UseEnvironment(s) PROVE SourcesKeptApart'
  BY <1>8 DEF UseEnvironment, Move
<1>9. ASSUME NEW s \in Servers, LoadFromKeychain(s) PROVE SourcesKeptApart'
  BY <1>9 DEF LoadFromKeychain, Loaded, Move, Works
<1>10. ASSUME NEW s \in Servers, MissKeychain(s) PROVE SourcesKeptApart'
  BY <1>10 DEF MissKeychain, KeychainMissed, Move, Fails
<1>11. ASSUME NEW s \in Servers, LoadFromFile(s) PROVE SourcesKeptApart'
  BY <1>11 DEF LoadFromFile, Loaded, Readable, Move
<1>12. ASSUME NEW s \in Servers, LoadNothing(s) PROVE SourcesKeptApart'
  BY <1>12 DEF LoadNothing, Move
<1>13. CASE UNCHANGED vars
  BY <1>13 DEF vars
<1> QED
  BY <1>1, <1>2, <1>3, <1>4, <1>5, <1>6,
     <1>7, <1>8, <1>9, <1>10, <1>11, <1>12, <1>13
     DEF Next, Save, Load

\* Who has variables takes no step towards the storage, and who stores
\* something has it from the storage or from the user.
LEMMA StoresStep ==
  ASSUME TypeOK, SourcesKeptApart, Stores, [Next]_vars
  PROVE  Stores'
<1> USE DEF TypeOK, Stores, SourcesKeptApart,
            storageVars, processVars, historyVars,
            Processes, Busy, Storing
<1>1. ASSUME NEW p \in Setups, StartSetup(p) PROVE Stores'
  BY <1>1 DEF StartSetup, Move
<1>2. ASSUME NEW p \in Processes, SaveToKeychain(p) PROVE Stores'
  BY <1>2 DEF SaveToKeychain, Finish, Works
<1>3. ASSUME NEW p \in Processes, KeychainFails(p) PROVE Stores'
  BY <1>3 DEF KeychainFails, Move, Fails
<1>4. ASSUME NEW p \in Processes, Truncate(p) PROVE Stores'
  BY <1>4 DEF Truncate, Move
<1>5. ASSUME NEW p \in Processes, Fill(p) PROVE Stores'
  BY <1>5 DEF Fill, Finish
<1>6. ASSUME NEW p \in Processes, WriteFails(p) PROVE Stores'
  BY <1>6 DEF WriteFails
<1>7. ASSUME NEW p \in Processes, Die(p) PROVE Stores'
  BY <1>7 DEF Die
<1>8. ASSUME NEW s \in Servers, UseEnvironment(s) PROVE Stores'
  BY <1>8 DEF UseEnvironment, Move
<1>9. ASSUME NEW s \in Servers, LoadFromKeychain(s) PROVE Stores'
  BY <1>9 DEF LoadFromKeychain, Loaded, Move, Works
<1>10. ASSUME NEW s \in Servers, MissKeychain(s) PROVE Stores'
  BY <1>10 DEF MissKeychain, KeychainMissed, Move, Fails
<1>11. ASSUME NEW s \in Servers, LoadFromFile(s) PROVE Stores'
  BY <1>11 DEF LoadFromFile, Loaded, Readable, Move
<1>12. ASSUME NEW s \in Servers, LoadNothing(s) PROVE Stores'
  BY <1>12 DEF LoadNothing, Move
<1>13. CASE UNCHANGED vars
  BY <1>13 DEF vars
<1> QED
  BY <1>1, <1>2, <1>3, <1>4, <1>5, <1>6,
     <1>7, <1>8, <1>9, <1>10, <1>11, <1>12, <1>13
     DEF Next, Save, Load

\* How the keychain behaves does not change.
LEMMA FallbackStep ==
  ASSUME TypeOK, FileIsFallback, [Next]_vars
  PROVE  FileIsFallback'
<1> USE DEF TypeOK, FileIsFallback, Fails, storageVars, processVars, historyVars,
            Processes, Busy, Storing
<1>1. ASSUME NEW p \in Setups, StartSetup(p) PROVE FileIsFallback'
  BY <1>1 DEF StartSetup, Move
<1>2. ASSUME NEW p \in Processes, SaveToKeychain(p) PROVE FileIsFallback'
  BY <1>2 DEF SaveToKeychain, Finish, Works
<1>3. ASSUME NEW p \in Processes, KeychainFails(p) PROVE FileIsFallback'
  BY <1>3 DEF KeychainFails, Move, Fails
<1>4. ASSUME NEW p \in Processes, Truncate(p) PROVE FileIsFallback'
  BY <1>4 DEF Truncate, Move
<1>5. ASSUME NEW p \in Processes, Fill(p) PROVE FileIsFallback'
  BY <1>5 DEF Fill, Finish
<1>6. ASSUME NEW p \in Processes, WriteFails(p) PROVE FileIsFallback'
  BY <1>6 DEF WriteFails
<1>7. ASSUME NEW p \in Processes, Die(p) PROVE FileIsFallback'
  BY <1>7 DEF Die
<1>8. ASSUME NEW s \in Servers, UseEnvironment(s) PROVE FileIsFallback'
  BY <1>8 DEF UseEnvironment, Move
<1>9. ASSUME NEW s \in Servers, LoadFromKeychain(s) PROVE FileIsFallback'
  BY <1>9 DEF LoadFromKeychain, Loaded, Move, Works
<1>10. ASSUME NEW s \in Servers, MissKeychain(s) PROVE FileIsFallback'
  BY <1>10 DEF MissKeychain, KeychainMissed, Move, Fails
<1>11. ASSUME NEW s \in Servers, LoadFromFile(s) PROVE FileIsFallback'
  BY <1>11 DEF LoadFromFile, Loaded, Readable, Move
<1>12. ASSUME NEW s \in Servers, LoadNothing(s) PROVE FileIsFallback'
  BY <1>12 DEF LoadNothing, Move
<1>13. CASE UNCHANGED vars
  BY <1>13 DEF vars
<1> QED
  BY <1>1, <1>2, <1>3, <1>4, <1>5, <1>6,
     <1>7, <1>8, <1>9, <1>10, <1>11, <1>12, <1>13
     DEF Next, Save, Load

\* Setups end the calm, servers only copy what is there.
LEMMA SettledStep ==
  ASSUME TypeOK, Stores, FileIsFallback, Settled, [Next]_vars
  PROVE  Settled'
<1>1. ASSUME NEW p \in Setups, StartSetup(p) PROVE Settled'
  BY <1>1 DEF StartSetup, Settled
<1> USE DEF TypeOK, Stores, FileIsFallback, Settled, Works, Fails,
            storageVars, processVars, historyVars, Processes, Busy, Storing
<1>2. ASSUME NEW p \in Processes, SaveToKeychain(p) PROVE Settled'
  <2>1. CASE p \in Setups
    BY <1>2, <2>1 DEF SaveToKeychain, Finish
  <2>2. CASE p \in Servers
    <3>1. keychain' = value[p] /\ UNCHANGED <<latest, alone, mode, file, value>>
      BY <1>2, <2>2 DEF SaveToKeychain, Finish
    <3>2. pc' = [pc EXCEPT ![p] = "done"]
      BY <1>2 DEF SaveToKeychain, Finish
    <3> QED
      BY <1>2, <2>2, <3>1, <3>2 DEF SaveToKeychain
  <2> QED
    BY <2>1, <2>2
<1>3. ASSUME NEW p \in Processes, KeychainFails(p) PROVE Settled'
  BY <1>3 DEF KeychainFails, Move, Fails
<1>4. ASSUME NEW p \in Processes, Truncate(p) PROVE Settled'
  BY <1>4 DEF Truncate, Move
<1>5. ASSUME NEW p \in Processes, Fill(p) PROVE Settled'
  BY <1>5 DEF Fill, Finish
<1>6. ASSUME NEW p \in Processes, WriteFails(p) PROVE Settled'
  BY <1>6 DEF WriteFails
<1>7. ASSUME NEW p \in Processes, Die(p) PROVE Settled'
  BY <1>7 DEF Die
<1>8. ASSUME NEW s \in Servers, UseEnvironment(s) PROVE Settled'
  BY <1>8 DEF UseEnvironment, Move
<1>9. ASSUME NEW s \in Servers, LoadFromKeychain(s) PROVE Settled'
  BY <1>9 DEF LoadFromKeychain, Loaded, Move, Works
<1>10. ASSUME NEW s \in Servers, MissKeychain(s) PROVE Settled'
  BY <1>10 DEF MissKeychain, KeychainMissed, Move, Fails
<1>11. ASSUME NEW s \in Servers, LoadFromFile(s) PROVE Settled'
  BY <1>11 DEF LoadFromFile, Loaded, Readable, Move
<1>12. ASSUME NEW s \in Servers, LoadNothing(s) PROVE Settled'
  BY <1>12 DEF LoadNothing, Move
<1>13. CASE UNCHANGED vars
  BY <1>13 DEF vars
<1> QED
  BY <1>1, <1>2, <1>3, <1>4, <1>5, <1>6,
     <1>7, <1>8, <1>9, <1>10, <1>11, <1>12, <1>13
     DEF Next, Save, Load

LEMMA Inductive == Spec => []IInv
<1>1. Init => IInv
  BY DEF Init, IInv, TypeOK, SourcesKeptApart, Stores, FileIsFallback, Settled,
         Processes, Busy, Storing
<1>2. IInv /\ [Next]_vars => IInv'
  BY TypeStep, KeptApartStep, StoresStep, FallbackStep, SettledStep DEF IInv
<1> QED
  BY <1>1, <1>2, PTL DEF Spec

\* Type correctness.
THEOREM TypeCorrect == Spec => []TypeOK
<1>1. IInv => TypeOK
  BY DEF IInv
<1> QED
  BY <1>1, Inductive, PTL

\* Environment and storage never mix, and nothing is used or stored that was
\* not once given to setup (AuthManager::credentials, read_store).
THEOREM SourcesDoNotMix == Spec => []SourcesKeptApart
<1>1. IInv => SourcesKeptApart
  BY DEF IInv
<1> QED
  BY <1>1, Inductive, PTL

\* After a setup that ended with nobody else at the storage, servers load what
\* it saved (save_credential, load_credential).
THEOREM LoneSetupWins == Spec => LoneSetupIsUsed
<1>1. ASSUME IInv, [Next]_vars, NEW s \in Servers, Loads(s), alone
      PROVE  cached'[s] = latest
  <2> USE DEF IInv, TypeOK, Settled, Works, Move, Loaded
  <2>1. pc[s] \in {"start", "reading"} /\ pc'[s] = "saving"
    BY <1>1 DEF Loads
  <2>2. LoadFromKeychain(s) \/ LoadFromFile(s)
    <3>1. ASSUME NEW p \in Setups, StartSetup(p) PROVE FALSE
      BY <1>1, <2>1, <3>1 DEF StartSetup, Processes
    <3>2. ASSUME NEW p \in Processes, Save(p) PROVE FALSE
      BY <1>1, <2>1, <3>2 DEF Save, SaveToKeychain, KeychainFails, Truncate, Fill,
                        WriteFails, Finish, Processes
    <3>3. ASSUME NEW p \in Processes, Die(p) PROVE FALSE
      BY <1>1, <2>1, <3>3 DEF Die, Processes
    <3>4. ASSUME NEW q \in Servers, Load(q)
          PROVE  LoadFromKeychain(s) \/ LoadFromFile(s)
      BY <1>1, <2>1, <3>4 DEF Load, UseEnvironment, LoadFromKeychain, MissKeychain,
                        LoadFromFile, LoadNothing, Processes
    <3>5. ~UNCHANGED vars
      BY <1>1, <2>1 DEF vars, processVars
    <3> QED
      BY <1>1, <3>1, <3>2, <3>3, <3>4, <3>5 DEF Next
  <2>3. ASSUME LoadFromKeychain(s) PROVE cached'[s] = latest
    BY <1>1, <2>3 DEF LoadFromKeychain
  <2>4. ASSUME LoadFromFile(s) PROVE cached'[s] = latest
    BY <1>1, <2>4 DEF LoadFromFile, Readable
  <2> QED
    BY <2>2, <2>3, <2>4
<1>2. IInv /\ [Next]_vars
        => [\A s \in Servers : Loads(s) /\ alone => cached'[s] = latest]_vars
  BY <1>1
<1> QED
  BY <1>2, Inductive, PTL DEF Spec, LoneSetupIsUsed
=============================================================================
