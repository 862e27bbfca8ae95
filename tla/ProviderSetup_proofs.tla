------------------------ MODULE ProviderSetup_proofs ------------------------
(***************************************************************************)
(* Proofs about ProviderSetup, for every set of URLs, tokens, paths and    *)
(* environments and any number of processes and calls.                     *)
(*                                                                         *)
(* The client is made of what the user means (ClientInv): an attribute     *)
(* that is known shows its final value, an unknown one stops Configure.    *)
(* A request is the client's base URL with a path that only adds to it     *)
(* (RequestInv).                                                           *)
(***************************************************************************)
EXTENDS ProviderSetup, TLAPS

URLType == [shape : Shapes, scheme : Schemes, host : Hosts, path : Paths, slash : BOOLEAN]

ClientInv == client # Null =>
    /\ client \in ClientType
    /\ client.baseURL = [Meant("api_url") EXCEPT !.slash = TRUE]
    /\ client.token = Meant("token")
    /\ client.allowInsecureHTTP = (block.allow_insecure_http = TRUE)
    /\ AcceptableURL(client.baseURL, client.allowInsecureHTTP)

RequestInv == called # NoCall =>
    /\ client # Null
    /\ request.scheme = client.baseURL.scheme
    /\ request.host = client.baseURL.host
    /\ request.token = client.token
    /\ request.path.directory = client.baseURL.path
    /\ called.id # "here" => request.path.below = PathOf(called)

EndpointInv == endpoint # Null =>
    \/ endpoint.scheme = "https"
    \/ endpoint.scheme = "http" /\ endpoint.host \in Loopback /\ block.allow_insecure_http = TRUE

Inv == TypeOK /\ ClientInv /\ RequestInv /\ EndpointInv

-----------------------------------------------------------------------------

LEMMA NullIsNothing ==
    /\ Null # Unknown /\ Null \notin URLs /\ Null \notin Tokens
    /\ Unknown \notin URLs /\ Unknown \notin Tokens /\ Unknown \notin BOOLEAN
    /\ Unknown # Blank /\ Unknown # NoToken
BY SetupAssumption

\* What resolves to a known value is what the user means.
LEMMA ResolvedIsMeant ==
    ASSUME NEW attribute \in {"api_url", "token"}, Resolved(attribute) # Unknown
    PROVE  Resolved(attribute) = Meant(attribute)
BY NullIsNothing DEF Resolved, Shown, Meant

LEMMA MeantTypes ==
    ASSUME TypeOK
    PROVE  /\ Meant("api_url") \in URLs \cup {Blank}
           /\ Meant("token") \in Tokens \cup {NoToken}
           /\ block.allow_insecure_http \in BOOLEAN \cup {Null}
BY DEF TypeOK, Blocks, Environments, Meant

\* The path of a call goes below the whole path of the base URL, and keeps an
\* identifier that is not dots.
LEMMA PathsOnlyAdd ==
    ASSUME NEW base, base.slash, NEW call, parseRelativeReference(call.id)
    PROVE  /\ ResolveReference(base, call).directory = base.path
           /\ call.id # "here" => ResolveReference(base, call).below = PathOf(call)
BY DEF ResolveReference, Directory, parseRelativeReference

-----------------------------------------------------------------------------

LEMMA InitInv == Init => Inv
BY NullIsNothing DEF Init, Inv, TypeOK, ClientInv, RequestInv, EndpointInv

LEMMA ConfigureInv == Inv /\ Configure => Inv'
<1> SUFFICES ASSUME Inv, Configure PROVE Inv'
  OBVIOUS
<1>1. /\ client = Null /\ client' = New
      /\ UNCHANGED <<block, known, env, called, request, endpoint>>
  BY DEF Configure
<1>2. /\ Resolved("api_url") = Meant("api_url") /\ Resolved("token") = Meant("token")
      /\ Shown("allow_insecure_http") # Unknown
  BY ResolvedIsMeant DEF Configure
<1>3. allowInsecureHTTP = (block.allow_insecure_http = TRUE)
  BY <1>2 DEF allowInsecureHTTP, Shown
<1>4. Meant("api_url") \in URLs /\ Meant("token") \in Tokens
  <2>1. Meant("api_url").shape = "plain" /\ Meant("token").shape = "plain"
    BY <1>2 DEF Configure, AcceptableURL
  <2>2. Blank.shape = "blank" /\ NoToken.shape = "blank"
    BY DEF Blank, NoToken
  <2> QED
    BY <2>1, <2>2, MeantTypes DEF Inv
<1>5. Meant("api_url") \in URLType
  BY <1>4, SetupAssumption DEF URLType
<1>6. /\ client'.baseURL = [Meant("api_url") EXCEPT !.slash = TRUE]
      /\ client'.token = Meant("token")
      /\ client'.allowInsecureHTTP = (block.allow_insecure_http = TRUE)
      /\ client' \in ClientType
  BY <1>1, <1>2, <1>3, <1>4, <1>5 DEF New, parseBaseURL, ClientType, URLType
<1>7. AcceptableURL(client'.baseURL, client'.allowInsecureHTTP)
  BY <1>2, <1>3, <1>5, <1>6 DEF Configure, AcceptableURL, URLType
<1>8. Meant("api_url")' = Meant("api_url") /\ Meant("token")' = Meant("token")
  BY <1>1 DEF Meant
<1>9. ClientInv'
  BY <1>1, <1>6, <1>7, <1>8 DEF ClientInv, AcceptableURL, isLoopbackHost
<1>10. TypeOK' /\ RequestInv' /\ EndpointInv'
  BY <1>1, <1>6 DEF Inv, TypeOK, RequestInv, EndpointInv
<1> QED
  BY <1>9, <1>10 DEF Inv

LEMMA StartInv == Inv /\ Start => Inv'
<1> SUFFICES ASSUME Inv, Start PROVE Inv'
  OBVIOUS
<1> QED
  BY DEF Start, Inv, TypeOK, ClientInv, RequestInv, EndpointInv

LEMMA NewRequestInv == Inv /\ NewRequest => Inv'
<1> SUFFICES ASSUME Inv, NewRequest PROVE Inv'
  OBVIOUS
<1>1. PICK call \in Calls :
        /\ parseRelativeReference(call.id)
        /\ called' = call
        /\ request' = [scheme |-> client.baseURL.scheme, host |-> client.baseURL.host,
                       path |-> ResolveReference(client.baseURL, call),
                       token |-> client.token]
  BY DEF NewRequest
<1>2. client # Null /\ UNCHANGED <<block, known, env, client, endpoint>>
  BY DEF NewRequest
<1>3. client.baseURL.slash
  BY <1>2 DEF Inv, ClientInv, ClientType
<1>4. RequestInv'
  BY <1>1, <1>2, <1>3, PathsOnlyAdd DEF RequestInv
<1>5. called' \in Calls \ {NoCall}
  BY <1>1 DEF Calls, NoCall
<1> QED
  BY <1>1, <1>2, <1>4, <1>5 DEF Inv, TypeOK, ClientInv, EndpointInv, Meant, AcceptableURL,
     isLoopbackHost

LEMMA ReceiveInv == Inv /\ Receive => Inv'
<1> SUFFICES ASSUME Inv, Receive PROVE Inv'
  OBVIOUS
<1>1. /\ called' = NoCall /\ request' = Null /\ UNCHANGED <<block, known, env, client>>
  BY DEF Receive
<1>2. endpoint' \in Endpoints \cup {Null} /\ EndpointInv'
  <2>1. CASE UNCHANGED endpoint
    BY <1>1, <2>1 DEF Inv, TypeOK, EndpointInv
  <2>2. CASE endpoint' \in Endpoints /\ AcceptableURL(endpoint', client.allowInsecureHTTP)
    <3>1. client.allowInsecureHTTP = (block.allow_insecure_http = TRUE)
      BY DEF Inv, ClientInv, RequestInv, Receive
    <3> QED
      BY <1>1, <2>2, <3>1 DEF EndpointInv, AcceptableURL, isLoopbackHost
  <2> QED
    BY <2>1, <2>2 DEF Receive
<1>3. ClientInv'
  BY <1>1 DEF Inv, ClientInv, Meant, AcceptableURL, isLoopbackHost
<1> QED
  BY <1>1, <1>2, <1>3 DEF Inv, TypeOK, RequestInv

LEMMA Invariance == Spec => []Inv
<1>1. Inv /\ UNCHANGED vars => Inv'
  BY DEF vars, Inv, TypeOK, ClientInv, RequestInv, EndpointInv, Meant, AcceptableURL,
     isLoopbackHost
<1>2. Inv /\ [Next]_vars => Inv'
  BY <1>1, ConfigureInv, StartInv, NewRequestInv, ReceiveInv DEF Next
<1> QED
  BY <1>2, InitInv, PTL DEF Spec

\* Type correctness; with it every base URL a client is made of ends in a slash.
THEOREM SetupTypes == Spec => []TypeOK
<1>1. Inv => TypeOK
  BY DEF Inv
<1> QED
  BY <1>1, Invariance, PTL

\* Whatever is unknown in the first processes and whatever their environments
\* say, a request carries the token the user means to the place the user means.
THEOREM RequestsGoRight == Spec => []RequestsGoWhereTheUserMeant
<1>1. Inv => RequestsGoWhereTheUserMeant
  <2> SUFFICES ASSUME Inv, called # NoCall PROVE RequestsGoWhereTheUserMeant
    BY DEF RequestsGoWhereTheUserMeant
  <2>1. client # Null /\ client.token = Meant("token")
    BY DEF Inv, ClientInv, RequestInv
  <2>2. client.baseURL = [Meant("api_url") EXCEPT !.slash = TRUE]
    BY <2>1 DEF Inv, ClientInv
  <2>3. Meant("api_url") \in URLs \cup {Blank}
    BY MeantTypes DEF Inv
  <2>4. /\ client.baseURL.scheme = Meant("api_url").scheme
        /\ client.baseURL.host = Meant("api_url").host
        /\ client.baseURL.path = Meant("api_url").path
    BY <2>2, <2>3, SetupAssumption DEF Blank
  <2> QED
    BY <2>1, <2>4 DEF Inv, RequestInv, RequestsGoWhereTheUserMeant
<1> QED
  BY <1>1, Invariance, PTL

\* Plain HTTP needs a loopback host and the user's word.
THEOREM PlainHTTPIsLocal == Spec => []PlainHTTPStaysLocal
<1>1. Inv => PlainHTTPStaysLocal
  <2> SUFFICES ASSUME Inv, NEW url \in {request, endpoint} \ {Null}, url.scheme # "https"
               PROVE  /\ url.scheme = "http" /\ url.host \in Loopback
                      /\ block.allow_insecure_http = TRUE
    BY DEF PlainHTTPStaysLocal
  <2>1. CASE url = request
    <3>1. called # NoCall
      BY <2>1 DEF Inv, TypeOK
    <3>2. client # Null /\ request.scheme = client.baseURL.scheme
          /\ request.host = client.baseURL.host
      BY <3>1 DEF Inv, RequestInv
    <3> QED
      BY <2>1, <3>2 DEF Inv, ClientInv, AcceptableURL, isLoopbackHost
  <2>2. CASE url = endpoint
    BY <2>2 DEF Inv, EndpointInv
  <2> QED
    BY <2>1, <2>2
<1> QED
  BY <1>1, Invariance, PTL
=============================================================================
