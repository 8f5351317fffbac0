--------------------------- MODULE MCExternalCall ---------------------------
(* TLC instance of ExternalCall: a listed name, a metadata host name and    *)
(* public, private and metadata addresses, reachable as literals too; a     *)
(* remote tree whose root is a link and holds a link that leaves it.        *)
EXTENDS ExternalCall

Url(scheme, host, port) == [scheme |-> scheme, host |-> host, port |-> port]
MCUrls == {Url("https", "site", 443), Url("http", "site", 80), Url("https", "metadata-host", 443),
           Url("https", "private", 443), Url("https", "metadata", 443)}

Wide   == [members |-> {"public", "private", "metadata"}, explicit |-> {}]
Narrow == [members |-> {"private"}, explicit |-> {"private"}]
Policy(schemes, ports, cidrs, allowPrivate, redirects) ==
    [domains |-> {"site", "metadata-host"}, schemes |-> schemes, ports |-> ports,
     cidrs |-> cidrs, allowPrivate |-> allowPrivate, redirects |-> redirects]
MCPolicies == {Policy({"https"}, {443}, {Wide}, TRUE, 2),
               Policy({"http", "https"}, {80, 443}, {Narrow}, TRUE, 0)}

Root == <<"r">>
MCRemotePaths == {<<"r", "f">>, <<"r", "new">>, <<"r", "link", "new">>, <<"x">>}
MCRealPath ==
    [p \in MCRemotePaths \cup {Root, <<"r", "link">>, << >>} |->
        CASE p = << >> -> << >>
          [] p = Root -> <<"v", "r">>
          [] p = <<"r", "f">> -> <<"v", "r", "f">>
          [] p = <<"r", "link">> -> <<"x">>
          [] p = <<"x">> -> <<"x">>
          [] OTHER -> NoPath]
RemoteProfile(read, write, command) ==
    [roots |-> {Root}, read |-> read, write |-> write, command |-> command]
MCProfiles == {RemoteProfile(TRUE, FALSE, TRUE), RemoteProfile(TRUE, TRUE, FALSE)}
=============================================================================
