--------------------------- MODULE ProviderSetup ---------------------------
(***************************************************************************)
(* From the provider block to a request: Configure resolves api_url, token *)
(* and allow_insecure_http beside PULSE_API_URL and PULSE_API_TOKEN        *)
(* (internal/provider/provider.go), client.New checks them and NewRequest  *)
(* puts the path of a call under the base URL (internal/client/client.go). *)
(*                                                                         *)
(* Terraform configures the provider anew in every process.  In the first  *)
(* ones parts of the block may still be unknown, and each process has an   *)
(* environment of its own; what the block says in the end never changes.   *)
(***************************************************************************)
EXTENDS Integers, Sequences

CONSTANTS
    Null, Unknown,    \* an attribute that is not set, or not known yet
    Hosts, Loopback,  \* host names, and those that name this machine
    Paths,            \* paths of base URLs, as sequences of segments
    URLs,             \* values of api_url and PULSE_API_URL
    Tokens,           \* values of token and PULSE_API_TOKEN
    Endpoints         \* webhook endpoints Pulse's answers name

Schemes == {"https", "http", "other"}
\* Everything else a URL may be refused for: "unusual" has user information, a
\* query, a fragment or no host, "malformed" surrounding blanks or no syntax.
Shapes == {"plain", "unusual", "malformed", "blank"}
Identifiers == {"record", "here", "parent", "hidden_parent", "malformed"}

Blank == [shape |-> "blank", scheme |-> "other", host |-> "", path |-> <<>>, slash |-> FALSE]
NoToken == [shape |-> "blank", text |-> ""]

ASSUME SetupAssumption ==
    /\ Loopback \subseteq Hosts
    /\ \A path \in Paths : path \in Seq(STRING)
    /\ URLs \subseteq [shape : Shapes, scheme : Schemes, host : Hosts, path : Paths,
                       slash : BOOLEAN]
    /\ Tokens \subseteq [shape : {"plain", "malformed", "blank"}, text : STRING]
    /\ Endpoints \subseteq [shape : Shapes, scheme : Schemes, host : Hosts,
                            of : Identifiers]
    /\ \A unset \in {Null, Unknown} :
          /\ unset \notin URLs /\ unset \notin Tokens /\ unset \notin BOOLEAN
          /\ unset # Blank /\ unset # NoToken
    /\ Null # Unknown

Calls == [collection : {"organization"}, id : {"record"}]
             \cup [collection : {"components", "integrations"}, id : Identifiers]
NoCall == [collection |-> "none", id |-> "record"]

Attributes == {"api_url", "token", "allow_insecure_http"}
Blocks == [api_url : URLs \cup {Null}, token : Tokens \cup {Null},
           allow_insecure_http : BOOLEAN \cup {Null}]
Environments == [api_url : URLs \cup {Blank}, token : Tokens \cup {NoToken}]

VARIABLES
    block,     \* the provider block, all values known: never changes
    known,     \* the attributes Terraform knows in this process
    env,       \* the environment of this process
    client,    \* the client Configure made, or Null
    called,    \* the call under way: what is asked for, or NoCall
    request,   \* the HTTP request under way, or Null
    endpoint   \* the endpoint stored in the state, or Null

vars == <<block, known, env, client, called, request, endpoint>>

Init ==
    /\ block \in Blocks
    /\ known \in SUBSET Attributes
    /\ env \in Environments
    /\ client = Null /\ called = NoCall /\ request = Null /\ endpoint = Null

-----------------------------------------------------------------------------
(* Configure *)

Shown(attribute) == IF attribute \in known THEN block[attribute] ELSE Unknown

\* Only what is not set is looked up in the environment.
FallsBack(attribute) ==
    IF Shown(attribute) \in {Null, Unknown} THEN env[attribute] ELSE Shown(attribute)
Resolved(attribute) == IF Shown(attribute) = Null THEN env[attribute] ELSE Shown(attribute)

allowInsecureHTTP == Shown("allow_insecure_http") = TRUE
isLoopbackHost(host) == host \in Loopback

\* The URL rules of parseBaseURL, which validateIntegration repeats.
AnyHTTP(url, insecure) == url.shape = "plain" /\ url.scheme \in {"https", "http"}
AcceptableURL(url, insecure) ==
    /\ url.shape = "plain"
    /\ url.scheme \in {"https", "http"}
    /\ url.scheme = "http" => insecure /\ isLoopbackHost(url.host)

\* The path of a base URL ends in exactly one slash, or ResolveReference would
\* put a call beside its last segment.
AsWritten(url) == url
parseBaseURL(url) == [url EXCEPT !.slash = TRUE]

New ==
    [baseURL |-> parseBaseURL(Resolved("api_url")), token |-> Resolved("token"),
     allowInsecureHTTP |-> allowInsecureHTTP]

Configure ==
    /\ client = Null
    /\ Unknown \notin {Resolved("api_url"), Resolved("token"), Shown("allow_insecure_http")}
    /\ AcceptableURL(Resolved("api_url"), allowInsecureHTTP)
    /\ Resolved("token").shape = "plain"
    /\ client' = New
    /\ UNCHANGED <<block, known, env, called, request, endpoint>>

\* The next process, after diagnostics or a finished one: more is known.
Start ==
    /\ known' \in {attributes \in SUBSET Attributes : known \subseteq attributes}
    /\ env' \in Environments
    /\ client' = Null /\ called' = NoCall /\ request' = Null
    /\ UNCHANGED <<block, endpoint>>

-----------------------------------------------------------------------------
(* One call: "here" is the identifier ".", "parent" the identifier "..",   *)
(* and "hidden_parent" one like "a/..", whose slash is escaped.            *)

safePathSegment(id) == id # "malformed"

\* parseRelativeReference looks at the path after decoding it.
Parents == {"parent", "hidden_parent"}
parseRelativeReference(id) == id \notin Parents

\* The path of a call: a component's sub-resources follow its identifier.
PathOf(call) ==
    CASE call.collection = "organization" -> <<"organization">>
      [] call.collection = "components" -> <<"components", call.id>>
      [] call.collection = "integrations" -> <<"components", call.id, "integrations", "grafana">>

\* ResolveReference: the path of the call replaces what follows the last slash
\* of the base URL; two dots take the collection away, in the client or where the
\* server decodes them, and one dot vanishes: components/./integrations/grafana
\* becomes a path below the component "integrations".
Directory(url) == IF url.slash \/ url.path = <<>> THEN url.path
                                                 ELSE SubSeq(url.path, 1, Len(url.path) - 1)
ResolveReference(base, call) ==
    [directory |-> Directory(base),
     below |-> IF call.id \in Parents THEN <<"elsewhere">>
               ELSE IF call.id = "here"
                    THEN <<PathOf(call)[1]>> \o SubSeq(PathOf(call), 3, Len(PathOf(call)))
               ELSE PathOf(call)]

NewRequest ==
    /\ client # Null /\ called = NoCall
    /\ \E call \in Calls :
        /\ safePathSegment(call.id)
        /\ parseRelativeReference(call.id)
        /\ called' = call
        /\ request' = [scheme |-> client.baseURL.scheme, host |-> client.baseURL.host,
                       path |-> ResolveReference(client.baseURL, call),
                       token |-> client.token]
    /\ UNCHANGED <<block, known, env, client, endpoint>>

\* Pulse, or whoever has the address, answers.  A redirect is an answer like any
\* other (rejectRedirect), and an endpoint is only taken from an answer about the
\* binding that was asked for.
Receive ==
    /\ called # NoCall
    /\ called' = NoCall /\ request' = Null
    /\ \/ UNCHANGED endpoint
       \/ /\ called.collection = "integrations"
          /\ \E answered \in Endpoints :
              /\ AcceptableURL(answered, client.allowInsecureHTTP)
              /\ answered.of = called.id
              /\ endpoint' = answered
    /\ UNCHANGED <<block, known, env, client>>

Next == Configure \/ Start \/ NewRequest \/ Receive

Spec == Init /\ [][Next]_vars

-----------------------------------------------------------------------------
(* Properties *)

ClientType ==
    [baseURL : {url \in [shape : Shapes, scheme : Schemes, host : Hosts, path : Paths,
                         slash : BOOLEAN] : url.slash},
     token : Tokens, allowInsecureHTTP : BOOLEAN]

TypeOK ==
    /\ block \in Blocks /\ env \in Environments /\ known \subseteq Attributes
    /\ client \in ClientType \cup {Null}
    /\ called \in Calls \cup {NoCall}
    /\ called = NoCall => request = Null
    /\ endpoint \in Endpoints \cup {Null}

\* What the user means: the block as it is in the end, else this environment.
Meant(attribute) == IF block[attribute] = Null THEN env[attribute] ELSE block[attribute]

\* Every request of every process carries the token the user means to the origin
\* the user means and stays below the path of the base URL: also in the first
\* processes, whose blocks have unknown values, whatever the environment offers in
\* their place, and whatever identifier is asked for.  Below that path it asks for
\* what the call is about, unless the identifier is ".": the client lets that one
\* through, and relies on its callers to ask for UUIDs.
RequestsGoWhereTheUserMeant == called # NoCall =>
    /\ request.scheme = Meant("api_url").scheme
    /\ request.host = Meant("api_url").host
    /\ request.token = Meant("token")
    /\ request.path.directory = Meant("api_url").path
    /\ called.id # "here" => request.path.below = PathOf(called)

\* Plain HTTP is only spoken to this machine, and only stored as an endpoint on
\* it, when the block that is finally known says so.
PlainHTTPStaysLocal ==
    \A url \in {request, endpoint} \ {Null} :
        url.scheme # "https" =>
            url.scheme = "http" /\ url.host \in Loopback /\ block.allow_insecure_http = TRUE
=============================================================================
