------------------------------- MODULE Imports -------------------------------
(***************************************************************************)
(* What share links, Xray JSON and the contents of a subscription or of a  *)
(* local file become (internal/profile, internal/sub).  Pure operators.    *)
(*                                                                         *)
(* A link is a record of its decoded parts; query maps the names of its    *)
(* options to the values given for them.  The options of a VMess link are  *)
(* those of its JSON payload, under the names the other links use.  An     *)
(* importer returns <<p>>, or <<>> when it refuses what it is given.       *)
(***************************************************************************)
EXTENDS Profiles

PortOk(port) == port \in 1..65535
Option(query, k) == IF k \in DOMAIN query THEN Head(query[k]) ELSE ""
Repeated(query, keys) == \E k \in keys \cap DOMAIN query : Len(query[k]) # 1
WithDefault(value, default) == IF value = "" THEN default ELSE value

FromLink(link, protocol, user, opt) ==
  [id |-> NoId, name |-> ProviderName(link.name, protocol, link.host, link.port),
   source |-> "imported_uri", protocol |-> protocol, server |-> link.host,
   port |-> link.port, user |-> user, opt |-> opt]
Identified(p, id) == [p EXCEPT !.id = id]

VlessTransports == {"", "tcp", "raw", "ws", "grpc", "httpupgrade", "xhttp",
                    "quic", "kcp"}
ShareTransports == VlessTransports \cup {"websocket"}
VlessSecurity(s) == lower(s) \in {"", "none", "tls", "reality"}
VlessTransportSecurity(t, s) ==
  lower(s) = "reality" => lower(t) \in {"", "tcp", "raw", "xhttp", "grpc"}

importVLESSURI(link) ==
  LET q   == link.query
      opt == [k \in Options |-> IF k = "encryption"
                                THEN WithDefault(Option(q, k), "none")
                                ELSE Option(q, k)]
      p0  == FromLink(link, "vless", link.user, opt)
      p   == Identified(p0, importedVLESSProfileID(p0))
  IN  IF /\ link.user \in Uuids /\ ~link.password
         /\ link.host # "" /\ PortOk(link.port)
         /\ ~Repeated(q, Options)
         /\ lower(opt.type) \in VlessTransports /\ VlessSecurity(opt.security)
         /\ VlessTransportSecurity(opt.type, opt.security)
         /\ Valid(p)
      THEN <<p>> ELSE <<>>

ImportVMessURI(link) ==
  LET q   == link.query
      opt == [k \in Options |->
                CASE k = "encryption" -> WithDefault(Option(q, k), "auto")
                  [] k \in {"type", "security", "sni", "alpn", "fp", "path", "host"} ->
                       Option(q, k)
                  [] OTHER -> ""]
      p0  == FromLink(link, "vmess", link.user, opt)
      p   == Identified(p0, importedShareProfileID(p0))
  IN  IF /\ link.payload                    \* Base64 of JSON with known fields
         /\ link.host # "" /\ PortOk(link.port) /\ link.user \in Uuids
         /\ lower(opt.type) \in ShareTransports
         /\ lower(opt.security) \in {"", "none", "tls"}
         /\ Valid(p)
      THEN <<p>> ELSE <<>>

TrojanKeys == {"type", "security", "sni", "alpn", "fp", "path", "host", "serviceName"}
ImportTrojanURI(link) ==
  LET q   == link.query
      opt == [k \in Options |->
                CASE k = "security"   -> WithDefault(Option(q, k), "tls")
                  [] k \in TrojanKeys \ {"security"} -> Option(q, k)
                  [] OTHER            -> ""]
      p0  == FromLink(link, "trojan", link.user, opt)
      p   == Identified(p0, importedShareProfileID(p0))
  IN  IF /\ link.user # "" /\ ~link.password
         /\ link.host # "" /\ PortOk(link.port)
         /\ ~Repeated(q, TrojanKeys)
         /\ lower(opt.type) \in ShareTransports
         /\ lower(opt.security) \in {"tls", "none"}
         /\ Valid(p)
      THEN <<p>> ELSE <<>>

\* link.user is method:password, "" when one of them is missing.
ImportShadowsocksURI(link) ==
  LET p0 == FromLink(link, "shadowsocks", link.user,
                     [NoOptions EXCEPT !.encryption = link.method])
      p  == Identified(p0, importedShareProfileID(p0))
  IN  IF /\ link.user # "" /\ link.host # "" /\ PortOk(link.port)
         /\ Option(link.query, "plugin") = ""
         /\ Valid(p)
      THEN <<p>> ELSE <<>>

ImportShareURI(link) ==
  CASE link.scheme = "vless"  -> importVLESSURI(link)
    [] link.scheme = "vmess"  -> ImportVMessURI(link)
    [] link.scheme = "trojan" -> ImportTrojanURI(link)
    [] link.scheme = "ss"     -> ImportShadowsocksURI(link)
    [] OTHER                  -> <<>>

\* As an entry of a list, whose profiles have another source.
importEntry(link, source) ==
  LET ps == ImportShareURI(link)
  IN  FlattenSeq([i \in DOMAIN ps |-> OnlyValid([ps[i] EXCEPT !.source = source])])

-----------------------------------------------------------------------------
(* Xray JSON: outbounds of a configuration.                                *)

\* The settings that count are those of the outbound's security and network.
StreamKeys(sec, type) ==
  SecurityKeys(sec) \cup
  (CASE type \in {"ws", "httpupgrade", "xhttp"} -> {"path", "host"}
     [] type = "grpc" -> {"serviceName"}
     [] OTHER -> {})

\* All servers and users of an outbound, or none when one of them is refused.
profilesFromXrayVLESSOutbound(ob) ==
  LET type == IF lower(ob.network) = "raw" THEN "tcp" ELSE lower(ob.network)
      sec  == lower(ob.security)
      opt(user) == [k \in Options |->
        CASE k = "type"       -> type
          [] k = "security"   -> sec
          [] k = "encryption" -> WithDefault(user.encryption, "none")
          [] k = "flow"       -> user.flow
          [] OTHER -> IF k \in StreamKeys(sec, type) THEN ob.stream[k] ELSE ""]
      profile(srv, user) ==
        LET p == [id |-> NoId,
                  name |-> ProviderName(ob.tag, "vless", srv.address, srv.port),
                  source |-> "imported_file", protocol |-> "vless",
                  server |-> srv.address, port |-> srv.port, user |-> user.id,
                  opt |-> opt(user)]
        IN  Identified(p, importedVLESSProfileID(p))
      serverOk(srv) == /\ srv.address \notin NoHosts /\ PortOk(srv.port)
                       /\ srv.users # <<>>
                       /\ \A i \in DOMAIN srv.users : srv.users[i].id \in Uuids
  IN  IF /\ ob.servers # <<>>
         /\ type \in VlessTransports /\ VlessSecurity(sec)
         /\ VlessTransportSecurity(type, sec)
         /\ \A i \in DOMAIN ob.servers : serverOk(ob.servers[i])
      THEN FlattenSeq([i \in DOMAIN ob.servers |->
             [j \in DOMAIN ob.servers[i].users |->
               profile(ob.servers[i], ob.servers[i].users[j])]])
      ELSE <<>>

\* An outbound of any protocol: a service outbound is ignored, an unsupported
\* one is reported, and neither gives a profile.
profilesFromOutbound(ob) ==
  IF ob.protocol = "vless" THEN profilesFromXrayVLESSOutbound(ob) ELSE <<>>

-----------------------------------------------------------------------------
(* Lists.  What they parse to: the profiles, or a failure of the whole.    *)

Failed    == [ok |-> FALSE, profiles |-> <<>>]
Parsed(ps) == IF ps = <<>> THEN Failed
              ELSE [ok |-> TRUE, profiles |-> DeduplicateDisplayNames(ps)]
Ids(ps) == {ps[i].id : i \in DOMAIN ps}
Distinct(ps) == Cardinality(Ids(ps)) = Len(ps)
FirstOfEach(ps) ==
  FlattenSeq([i \in DOMAIN ps |->
    IF \E j \in 1..(i - 1) : ps[j].id = ps[i].id THEN <<>> ELSE <<ps[i]>>])
Entries(lines, source) ==
  FlattenSeq([i \in DOMAIN lines |-> importEntry(lines[i], source)])
WithSource(ps, source) == [i \in DOMAIN ps |-> [ps[i] EXCEPT !.source = source]]
WithName(ps, name) == [i \in DOMAIN ps |-> [ps[i] EXCEPT !.name = name]]

\* A local list: a profile that comes twice fails the whole list.
importURIList(lines) ==
  LET ps == Entries(lines, "imported_file")
  IN  IF Distinct(ps) THEN Parsed(ps) ELSE Failed
importXrayJSON(object) ==
  LET ps == FlattenSeq([i \in DOMAIN object.outbounds |->
                          profilesFromOutbound(object.outbounds[i])])
  IN  IF Distinct(ps) THEN Parsed(ps) ELSE Failed

ImportLocalContent(content) ==
  CASE content.shape = "object" -> IF content.malformed THEN Failed
                                   ELSE importXrayJSON(content)
    [] content.shape \in {"lines", "base64"} -> importURIList(content.lines)
    [] OTHER -> Failed                \* empty, other JSON, too big, not Base64

\* A subscription list: a profile that comes again is reported and left out.
ParseBase64Subscription(content) ==
  Parsed(FirstOfEach(Entries(content.lines, "subscription")))

Grouped(object) ==
  /\ object.routing
  /\ Cardinality({i \in DOMAIN object.outbounds :
                    object.outbounds[i].protocol = "vless"}) >= 2
parseGroupedProviderXrayProfile(object) ==
  [ok |-> TRUE, profiles |->
     <<NewSubscriptionProviderXrayConfig(object.name, object.label)>>]

\* BUG: the name of the wrapper goes to every profile as it is.
WrapperNameUnnumbered(ps, name) == IF name = <<>> THEN ps ELSE WithName(ps, name)
applyWrapperName(ps, name) ==
  IF name = <<>> THEN ps
  ELSE DeduplicateDisplayNames(
         [i \in DOMAIN ps |-> [ps[i] EXCEPT !.name =
            ProviderName(name, ps[i].protocol, ps[i].server, ps[i].port)]])

parseXrayJSONObjectSubscription(object) ==
  IF object.malformed \/ object.unsupportedClient THEN Failed
  ELSE IF Grouped(object) THEN parseGroupedProviderXrayProfile(object)
  ELSE LET local == importXrayJSON(object)
       IN  [local EXCEPT !.profiles =
              applyWrapperName(WithSource(@, "subscription"), object.name)]

\* Entries that are refused are left out; one that comes twice fails it all.
parseXrayJSONArraySubscription(content) ==
  LET of(item) == IF item.shape = "object"
                  THEN parseXrayJSONObjectSubscription(item).profiles ELSE <<>>
      ps == FlattenSeq([i \in DOMAIN content.items |-> of(content.items[i])])
  IN  IF Distinct(ps) THEN Parsed(ps) ELSE Failed

ParseSubscriptionContent(content) ==
  CASE content.shape = "object" -> parseXrayJSONObjectSubscription(content)
    [] content.shape = "array"  -> parseXrayJSONArraySubscription(content)
    [] content.shape = "base64" -> ParseBase64Subscription(content)
    [] OTHER -> Failed                \* empty, other JSON, not Base64

-----------------------------------------------------------------------------
(* The lists that contents are made of; a name is one of words.            *)

IsList(s) == s \in Seq({s[i] : i \in DOMAIN s})
IsOutbound(ob) ==
  ob.protocol = "vless" =>
    /\ IsList(ob.tag)
    /\ IsList(ob.servers) /\ \A i \in DOMAIN ob.servers : IsList(ob.servers[i].users)
IsObject(object) ==
  /\ IsList(object.name) /\ IsList(object.outbounds)
  /\ \A i \in DOMAIN object.outbounds : IsOutbound(object.outbounds[i])
IsLink(link) == IsList(link.name)
IsContent(content) ==
  /\ content.shape = "object" => IsObject(content)
  /\ content.shape \in {"lines", "base64"} =>
       IsList(content.lines) /\ \A i \in DOMAIN content.lines : IsLink(content.lines[i])
  /\ content.shape = "array" =>
       /\ IsList(content.items)
       /\ \A i \in DOMAIN content.items :
            content.items[i].shape = "object" => IsObject(content.items[i])
=============================================================================
