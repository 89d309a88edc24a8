-------------------------- MODULE CredentialStorage --------------------------
(***************************************************************************)
(* The credentials of one user on one host: the OS keychain and the        *)
(* encrypted file that stands in for it (src/core/credential_storage.rs),  *)
(* written by runs of `setup` (src/cli/setup_wizard.rs), read by servers   *)
(* over stdio, which also write back what they read                        *)
(* (AuthManager::credentials, src/auth/auth_manager.rs).  Nothing locks    *)
(* either of them, and processes die at any point.                         *)
(*                                                                         *)
(* There is one account, so the map in the file has one entry, and the     *)
(* read that precedes a write of the file loses nothing of it.  A blob     *)
(* from setup and the normalised one with its header stand for the same    *)
(* secret.  Basic authentication neither expires nor refreshes.            *)
(***************************************************************************)
CONSTANTS
  Servers,    \* server processes, or one-shot commands that call the API
  Setups,     \* runs of setup
  Secrets,    \* pairs of username and password
  Empty,      \* the pair of two empty strings, as in .env.example
  None,       \* no entry, no file, no variables in the environment
  Torn,       \* a file that does not parse
  Modes       \* how the keychain may behave: "up", "down", "flaky"

ASSUME CredentialStorageAssumption ==
  /\ Servers \cap Setups = {}
  /\ Empty \notin Secrets /\ None \notin Secrets /\ Torn \notin Secrets
  /\ Empty # None /\ None # Torn /\ Empty # Torn
  /\ Modes \subseteq {"up", "down", "flaky"}

Processes == Servers \cup Setups

VARIABLES
  mode,       \* whether the keychain works always, never or sometimes
  keychain,   \* its entry
  file,       \* what the fallback file holds
  env,        \* the variables in the environment of each server
  pc,         \* the stage each process is in
  value,      \* what each process is about to store
  cached,     \* cached_credentials of each server
  given,      \* history: what was ever handed to setup
  latest,     \* history: what the setup that ended last had been given
  alone       \* history: nobody else was at the storage then, or set up since

storageVars == <<keychain, file>>
processVars == <<pc, value, cached>>
historyVars == <<given, latest, alone>>
vars == <<mode, storageVars, env, processVars, historyVars>>

Works == mode # "down"
Fails == mode # "up"

\* Stages between the first access to the storage and the last.
Storing == {"saving", "writing", "filling"}
Busy == Storing \cup {"reading"}

\* Both places hold whatever earlier runs left there.
Init ==
  /\ mode \in Modes
  /\ keychain \in Secrets \cup {None}
  /\ file \in Secrets \cup {None, Torn}
  /\ env \in [Servers -> Secrets \cup {Empty, None}]
  /\ pc = [p \in Processes |-> "start"]
  /\ value = [p \in Processes |-> None]
  /\ cached = [s \in Servers |-> None]
  /\ given = {keychain, file} \cap Secrets
  /\ latest = None
  /\ alone = FALSE

Move(p, from, to) == pc[p] = from /\ pc' = [pc EXCEPT ![p] = to]
-----------------------------------------------------------------------------
(* save_credential, of a setup run or of a server.                         *)

\* save_credential returned: a setup goes on to the configuration, a server
\* to the request.
Finish(p) ==
  /\ pc' = [pc EXCEPT ![p] = "done"]
  /\ IF p \in Setups
       THEN /\ latest' = value[p]
            /\ alone' = /\ mode # "flaky"
                        /\ \A q \in Processes \ {p} : pc[q] \notin Busy
       ELSE UNCHANGED <<latest, alone>>

\* The credentials were typed in; save_credential is called.
StartSetup(p) ==
  /\ Move(p, "start", "saving")
  /\ \E secret \in Secrets :
       /\ value' = [value EXCEPT ![p] = secret]
       /\ given' = given \cup {secret}
  /\ alone' = FALSE
  /\ UNCHANGED <<mode, storageVars, env, cached, latest>>

SaveToKeychain(p) ==
  /\ Works
  /\ pc[p] = "saving"
  /\ keychain' = value[p]
  /\ Finish(p)
  /\ UNCHANGED <<mode, file, env, value, cached, given>>

\* The keychain returns an error, and save_to_file is called.
KeychainFails(p) ==
  /\ Fails
  /\ Move(p, "saving", "writing")
  /\ UNCHANGED <<mode, storageVars, env, value, cached, historyVars>>

\* fs::write truncates the file...
Truncate(p) ==
  /\ Move(p, "writing", "filling")
  /\ file' = Torn
  /\ UNCHANGED <<mode, keychain, env, value, cached, historyVars>>

\* ...and fills it.  If another process has filled it in the meantime with
\* something longer, be it another text of the same secret, the end of that is
\* left over.
Fill(p) ==
  /\ pc[p] = "filling"
  /\ \/ file' = value[p]
     \/ file \notin {None, Torn} /\ file' = Torn
  /\ Finish(p)
  /\ UNCHANGED <<mode, keychain, env, value, cached, given>>

\* Directory, file or permissions cannot be written: setup ends with the
\* error, the server's call fails, though its cache is filled already.
WriteFails(p) ==
  /\ pc[p] \in {"writing", "filling"}
  /\ pc' = [pc EXCEPT ![p] = "done"]
  /\ \/ UNCHANGED file
     \/ pc[p] = "filling" /\ file' = value[p]
  /\ UNCHANGED <<mode, keychain, env, value, cached, historyVars>>
-----------------------------------------------------------------------------
(* AuthManager::credentials with nothing cached.                           *)

\* Mutant: what the environment supplies is stored as well.
UseEnvironmentStored(s) ==
  /\ env[s] # None
  /\ Move(s, "start", "saving")
  /\ value' = [value EXCEPT ![s] = env[s]]
  /\ cached' = [cached EXCEPT ![s] = env[s]]
  /\ UNCHANGED <<mode, storageVars, env, historyVars>>

\* Both variables are set, if only to the empty string: authenticate adds a
\* header, which is all that validate_credentials asks for.
UseEnvironment(s) ==
  /\ env[s] # None
  /\ Move(s, "start", "done")
  /\ cached' = [cached EXCEPT ![s] = env[s]]
  /\ UNCHANGED <<mode, storageVars, env, value, historyVars>>

\* What was loaded is normalised and cached, and then saved.
Loaded(s, secret) ==
  /\ cached' = [cached EXCEPT ![s] = secret]
  /\ value' = [value EXCEPT ![s] = secret]

LoadFromKeychain(s) ==
  /\ env[s] = None /\ Works /\ keychain # None
  /\ Move(s, "start", "saving")
  /\ Loaded(s, keychain)
  /\ UNCHANGED <<mode, storageVars, env, historyVars>>

\* Mutant: the file is asked first.
KeychainMissedForFile == file # None \/ Fails \/ keychain = None

\* NoEntry, or an error of the keychain.
KeychainMissed == Fails \/ keychain = None

\* Either way load_from_file is called.
MissKeychain(s) ==
  /\ env[s] = None
  /\ KeychainMissed
  /\ Move(s, "start", "reading")
  /\ UNCHANGED <<mode, storageVars, env, value, cached, historyVars>>

\* Mutant: a file that does not parse is taken for an entry.
ReadableTorn == file # None

\* read_store finds a file that parses, with the entry in it.
Readable == file \notin {None, Torn}

LoadFromFile(s) ==
  /\ Readable
  /\ Move(s, "reading", "saving")
  /\ Loaded(s, file)
  /\ UNCHANGED <<mode, storageVars, env, historyVars>>

\* NoActiveCredentials: the call fails, the next one asks again.
LoadNothing(s) ==
  /\ ~Readable
  /\ Move(s, "reading", "start")
  /\ UNCHANGED <<mode, storageVars, env, value, cached, historyVars>>
-----------------------------------------------------------------------------
\* A process ends, at any point, and its server is started again.
Die(p) ==
  /\ pc[p] # "start"
  /\ pc' = [pc EXCEPT ![p] = IF p \in Setups THEN "done" ELSE "start"]
  /\ value' = [value EXCEPT ![p] = None]
  /\ cached' = IF p \in Servers THEN [cached EXCEPT ![p] = None] ELSE cached
  /\ UNCHANGED <<mode, storageVars, env, historyVars>>

Save(p) ==
  \/ SaveToKeychain(p) \/ KeychainFails(p)
  \/ Truncate(p) \/ Fill(p) \/ WriteFails(p)

Load(s) ==
  \/ UseEnvironment(s)
  \/ LoadFromKeychain(s) \/ MissKeychain(s) \/ LoadFromFile(s) \/ LoadNothing(s)

Next ==
  \/ \E p \in Setups : StartSetup(p)
  \/ \E p \in Processes : Save(p) \/ Die(p)
  \/ \E s \in Servers : Load(s)

Spec == Init /\ [][Next]_vars
-----------------------------------------------------------------------------
TypeOK ==
  /\ mode \in Modes
  /\ keychain \in Secrets \cup {None}
  /\ file \in Secrets \cup {None, Torn}
  /\ env \in [Servers -> Secrets \cup {Empty, None}]
  /\ pc \in [Processes -> Busy \cup {"start", "done"}]
  /\ value \in [Processes -> Secrets \cup {None}]
  /\ cached \in [Servers -> Secrets \cup {Empty, None}]
  /\ given \subseteq Secrets
  /\ latest \in Secrets \cup {None}
  /\ alone \in BOOLEAN

\* The environment's credentials and the stored ones never mix: a server that
\* has variables uses nothing else and leaves no trace of them in the storage,
\* any other uses what was once given to setup, and never a torn file, however
\* processes overlap and die (credentials, read_store).
SourcesKeptApart ==
  /\ {keychain, file} \subseteq given \cup {None, Torn}
  /\ \A s \in Servers :
       cached[s] # None =>
         IF env[s] # None THEN cached[s] = env[s] ELSE cached[s] \in given

\* The server s loads a stored secret in this step.
Loads(s) == pc[s] \in {"start", "reading"} /\ pc'[s] = "saving"

\* When nobody else is at the storage as a setup ends, what it saved is all
\* that servers load from then on, whatever either place held before and
\* however many servers load it, save it back and die; with a keychain that
\* works always or never (the order of keychain and file in save_credential
\* and load_credential).
LoneSetupIsUsed ==
  [][\A s \in Servers :
       Loads(s) /\ alone => cached'[s] = latest]_vars

\* README.md:100: the stdio server "uses the credentials saved by `setup`":
\* a server that asks the keychain when no setup is running, and finds an
\* entry, gets what the last setup saved.
SetupIsUsed ==
  [][\A s \in Servers :
       /\ pc[s] = "start" /\ pc'[s] = "saving"
       /\ latest # None
       /\ \A p \in Setups : pc[p] \notin Storing
       => cached'[s] = latest]_vars
=============================================================================
