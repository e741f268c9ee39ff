------------------------------ MODULE Settings ------------------------------
(***************************************************************************)
(* Which provider the process can use: Settings (src/src/config.py),        *)
(* get_provider (src/src/llm/factory.py) and the head of main (src/app.py), *)
(* as operators on the environment, a record: the name in LLM_PROVIDER,     *)
(* whether GROQ_API_KEY is set, the groq and boto3 packages are installed   *)
(* and AWS credentials are found.                                           *)
(***************************************************************************)
EXTENDS FiniteSets

Names == {"groq", "bedrock"}

\* LLM_PROVIDER defaults to groq; any text may stand in it.
Environments ==
    [provider : Names \cup {"other"}, groqKey : BOOLEAN, groq : BOOLEAN,
     boto3 : BOOLEAN, aws : BOOLEAN]

\* The credential chain is asked once and the answer kept.
AwsCredentials(env) == env.boto3 /\ env.aws

\* Mutant: the library is enough.
Validates_BotoOnly(env, name) ==
    \/ name = "groq" /\ env.groqKey
    \/ name = "bedrock" /\ env.boto3

\* validate_provider raises no ConfigError.  It does not ask for the groq package.
Validates(env, name) ==
    \/ name = "groq" /\ env.groqKey
    \/ name = "bedrock" /\ env.boto3 /\ AwsCredentials(env)

AvailableProviders(env) == {name \in Names : Validates(env, name)}

DemoMode(env) == AvailableProviders(env) = {}

\* The constructors raise ConfigError without these.  Neither asks for AWS
\* credentials: Bedrock's provider fails on the first call.
GroqProvider(env) == env.groqKey /\ env.groq

BedrockProvider(env) == env.boto3

GetProvider(env, name) ==
    CASE name = "groq" /\ GroqProvider(env) -> "groq"
      [] name = "bedrock" /\ BedrockProvider(env) -> "bedrock"
      [] OTHER -> "ConfigError"

\* Whether a provider that was constructed can make a call.
Callable(env, provider) == provider = "groq" \/ AwsCredentials(env)

\* What the page becomes: a configuration error, questions asked of the provider,
\* or the offline demo.
Page(env) ==
    IF DemoMode(env) THEN "demo"
    ELSE IF Validates(env, env.provider) THEN "live"
    ELSE "stopped"
=============================================================================
