-------------------------- MODULE MCConfiguration --------------------------
EXTENDS Configuration

MCText == STRING

\* A prompt that accepts two versions, of which setup was told one.
MCFollowed == {"access_roles_assignment"}

\* Two instances of TOPdesk that differ in URL and version, the default and
\* one that a guided prompt asks for.
MCAnswers ==
  [url : {"https://a"}, choice : {"general-1.2.0 (default/latest)"},
   transport : {"stdio"}, place : Places]
  \cup [url : {"https://a"}, choice : {"general-1.2.0 (default/latest)"},
        transport : {"http"}, place : {"dotenv", "global"}]
  \cup [url : {"https://b"}, choice : {"access-roles-saas"},
        transport : {"stdio"}, place : {"dotenv", "local", "global"}]

\* A port, one that is a u64 but no u16; "words" is no number at all.
MCParsedU64 == [t \in {"8080", "70000"} |-> IF t = "8080" THEN 8080 ELSE 70000]

MCHandEnvs == {
  [NoSettings EXCEPT !["url"] = "https://c"],
  [NoSettings EXCEPT !["port"] = "70000", !["transport"] = "http"],
  [NoSettings EXCEPT !["port"] = "words"],
  [NoSettings EXCEPT !["api_version"] = "no-such-version"] }

MCMachineFiles == {
  NoSettings,
  [NoSettings EXCEPT !["url"] = String("https://d"),
                     !["auth_method"] = String("basic"),
                     !["transport"] = String("grpc")],
  [NoSettings EXCEPT !["port"] = String("8080"),
                     !["api_version"] = Number(1)] }
=============================================================================
