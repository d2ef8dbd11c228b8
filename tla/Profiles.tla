------------------------------ MODULE Profiles ------------------------------
(***************************************************************************)
(* A profile: its identity, its display name, what makes it fit to be      *)
(* stored (internal/profile) and what Xray configuration it becomes        *)
(* (internal/engine).  Pure operators, without state.                      *)
(*                                                                         *)
(* A name is the sequence of its words, <<>> when it is blank.  A hash is  *)
(* the tuple of what it is computed from.  Every profile that the code     *)
(* makes has the engine xray, so the engine is left out.                   *)
(***************************************************************************)
EXTENDS Naturals, Sequences, FiniteSets, SequencesExt

Options == {"type", "security", "encryption", "flow", "sni", "alpn", "fp",
            "path", "host", "serviceName", "pbk", "sid", "spx"}
NoOptions == [k \in Options |-> ""]
Modes == {"proxy-only", "tun"}

\* The texts that are not what they look like.
UpperCase == [WS |-> "ws", Home |-> "home", Pass |-> "pass",
              UUID1 |-> "uuid1", Sni |-> "sni"]
UnsafeTexts == {"token", "uuid1", "vless://x"}
NonLatin == {"cyrillic"}
Uuids == {"uuid1", "UUID1", "uuid2"}
NoHosts == {"", "bad host"}
InboundTagged == {"tagged"}  \* provider configs whose routing names an inbound

lower(text) == IF text \in DOMAIN UpperCase THEN UpperCase[text] ELSE text

-----------------------------------------------------------------------------
(* Names and ids.                                                          *)

\* Texts without a letter a-z or a digit leave nothing of the name.
NormalizeID(name) ==
  LET latin == SelectSeq(name, LAMBDA word : word \notin NonLatin)
  IN  [base |-> [i \in DOMAIN latin |-> lower(latin[i])], of |-> <<>>]
NoId == [base |-> <<>>, of |-> <<>>]

unsafeDisplayName(name) == name = <<>> \/ \E i \in DOMAIN name : name[i] \in UnsafeTexts

FallbackName(protocol, server, port) ==
  IF unsafeDisplayName(<<protocol, server>>)
    THEN <<protocol, "profile">> ELSE <<protocol, server, ToString(port)>>
ProviderName(raw, protocol, server, port) ==
  IF unsafeDisplayName(raw) THEN FallbackName(protocol, server, port) ELSE raw

StableBase(p) == NormalizeID(FallbackName(p.protocol, p.server, p.port)).base

\* The fields that identify a VLESS link, and any other share link.
Folded    == Options \ {"path", "serviceName", "pbk", "sid", "spx"}
VlessKeys == Options
ShareKeys == {"type", "security", "encryption", "fp", "sni", "pbk", "sid"}
Key(opt, k) == IF k \in Folded THEN lower(opt[k]) ELSE opt[k]
\* BUG: the fingerprint of a VLESS link leaves the service name out.
VlessIDWithoutService(p) ==
  [base |-> StableBase(p),
   of |-> <<p.protocol, lower(p.server), p.port, lower(p.user),
            [k \in VlessKeys \ {"serviceName"} |-> Key(p.opt, k)]>>]
importedVLESSProfileID(p) ==
  [base |-> StableBase(p),
   of |-> <<p.protocol, lower(p.server), p.port, lower(p.user),
            [k \in VlessKeys |-> Key(p.opt, k)]>>]
importedShareProfileID(p) ==
  [base |-> StableBase(p),
   of |-> <<p.protocol, lower(p.server), p.port, lower(p.user),
            [k \in ShareKeys |-> Key(p.opt, k)]>>]

\* The names of a list, made distinct in its order: a name that is taken gets
\* the first number from 2 on that is free.
NameKey(name) == [i \in DOMAIN name |-> lower(name[i])]
DeduplicateDisplayNames(ps) ==
  LET free(used, name) ==
        IF NameKey(name) \notin used THEN name
        ELSE LET n == CHOOSE n \in 2..(Len(ps) + 1) :
                        /\ NameKey(Append(name, ToString(n))) \notin used
                        /\ \A m \in 2..(n - 1) :
                             NameKey(Append(name, ToString(m))) \in used
             IN  Append(name, ToString(n))
      name[i \in DOMAIN ps] == free({NameKey(name[j]) : j \in 1..(i - 1)}, ps[i].name)
  IN  [i \in DOMAIN ps |-> [ps[i] EXCEPT !.name = name[i]]]

-----------------------------------------------------------------------------
(* Profiles.                                                               *)

Sources   == {"manual", "subscription", "imported_file", "imported_uri"}
Protocols == {"vless", "vmess", "trojan", "shadowsocks", "xray-json"}
ProviderConfig(p) == p.protocol = "xray-json"

Valid(p) ==
  /\ p.id # NoId /\ p.name # <<>>
  /\ p.source \in Sources /\ p.protocol \in Protocols
  /\ IF ProviderConfig(p)
       THEN p.source = "subscription" /\ p.opt.spx # ""
       ELSE /\ p.server \notin NoHosts /\ p.port # 0
            /\ p.source # "manual" => p.user # ""

OnlyValid(p) == IF Valid(p) THEN <<p>> ELSE <<>>

NewManual(name, server, port, protocol) ==
  [id |-> NormalizeID(name), name |-> name, source |-> "manual",
   protocol |-> protocol, server |-> server, port |-> port, user |-> "",
   opt |-> NoOptions]

\* A provider's configuration kept whole; label is its canonical JSON.
NewSubscriptionProviderXrayConfig(name, label) ==
  [id |-> [base |-> <<"xray-json">>, of |-> <<label>>],
   name |-> IF unsafeDisplayName(name) THEN <<"grouped", "profile">> ELSE name,
   source |-> "subscription", protocol |-> "xray-json",
   server |-> "", port |-> 0, user |-> "",
   opt |-> [NoOptions EXCEPT !.spx = label]]

-----------------------------------------------------------------------------
(* What Xray is made to do with a profile.                                 *)

network(p) == LET t == lower(p.opt.type)
              IN  IF t \in {"", "tcp", "raw"} THEN "raw"
                  ELSE IF t \in {"ws", "websocket"} THEN "websocket" ELSE t
security(p) == IF p.opt.security = "" THEN "none" ELSE lower(p.opt.security)

\* BUG: xhttp is refused for the local proxies instead of for TUN.
NetworksSwapped(mode) == {"raw", "websocket", "grpc", "httpupgrade"}
                           \cup (IF mode = "tun" THEN {"xhttp"} ELSE {})
Networks(mode) == {"raw", "websocket", "grpc", "httpupgrade"}
                    \cup (IF mode = "proxy-only" THEN {"xhttp"} ELSE {})

validateXrayVLESSProfile(p, mode) ==
  /\ p.protocol = "vless" /\ p.user # ""
  /\ lower(p.opt.encryption) \in {"", "none"}
  /\ network(p) \in Networks(mode)
  /\ security(p) \in {"none", "tls", "reality"}
  /\ security(p) = "reality" => /\ network(p) \in {"raw", "grpc", "xhttp"}
                                /\ p.opt.sni # "" /\ p.opt.pbk # ""

ValidateXrayConnectProfile(p, mode) ==
  IF ProviderConfig(p)
    THEN mode = "proxy-only" /\ Valid(p) /\ p.opt.spx \notin InboundTagged
    ELSE validateXrayVLESSProfile(p, mode)

TransportKeys(n) == CASE n = "raw"  -> {}
                      [] n = "grpc" -> {"serviceName", "host"}
                      [] OTHER      -> {"path", "host"}
SecurityKeys(s) == CASE s = "tls"     -> {"sni", "fp", "alpn"}
                     [] s = "reality" -> {"sni", "pbk", "fp", "sid", "spx"}
                     [] OTHER         -> {}

\* The outbound of the generated configuration, up to letter case.
Outbound(p) ==
  [address |-> lower(p.server), port |-> p.port, id |-> lower(p.user),
   flow |-> lower(p.opt.flow), network |-> network(p), security |-> security(p),
   transport |-> [k \in TransportKeys(network(p)) |-> Key(p.opt, k)],
   tls |-> [k \in SecurityKeys(security(p)) |-> Key(p.opt, k)]]
=============================================================================
