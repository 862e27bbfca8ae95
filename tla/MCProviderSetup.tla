-------------------------- MODULE MCProviderSetup --------------------------
(* A small instance of ProviderSetup for TLC: addresses of every scheme on *)
(* this machine and elsewhere, with and without a trailing slash.          *)
EXTENDS ProviderSetup

MCPaths == {<<>>, <<"tenant">>}
MCURL(shape, scheme, host, path, slash) ==
    [shape |-> shape, scheme |-> scheme, host |-> host, path |-> path, slash |-> slash]
MCURLs ==
    {MCURL("plain", scheme, host, <<"tenant">>, FALSE) :
         scheme \in {"https", "http"}, host \in {"pulse", "localhost"}}
    \cup {MCURL("plain", "https", "other", <<>>, FALSE),
          MCURL("plain", "other", "pulse", <<>>, TRUE),
          MCURL("malformed", "https", "pulse", <<"tenant">>, TRUE),
          MCURL("blank", "https", "pulse", <<>>, FALSE)}
MCTokens == {[shape |-> "plain", text |-> "a"], [shape |-> "plain", text |-> "b"],
             [shape |-> "malformed", text |-> "a"], [shape |-> "blank", text |-> ""]}
MCEndpoints ==
    [shape : {"plain", "unusual"}, scheme : {"https", "http"}, host : {"pulse", "localhost"},
     of : {"record"}]
=============================================================================
