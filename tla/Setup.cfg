CONSTANTS
    Null = Null
    Unknown = Unknown
    Hosts = {"pulse", "localhost", "other"}
    Loopback = {"localhost"}
    Paths <- MCPaths
    URLs <- MCURLs
    Tokens <- MCTokens
    Endpoints <- MCEndpoints
SPECIFICATION Spec
INVARIANTS TypeOK RequestsGoWhereTheUserMeant PlainHTTPStaysLocal
