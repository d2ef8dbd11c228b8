----------------------------- MODULE MCUserStores -----------------------------
(***************************************************************************)
(* Two processes, and worlds that each make something different happen.    *)
(***************************************************************************)
EXTENDS UserStores

Bounded(commands, faults, feeds) ==
  [commands |-> commands, faults |-> faults, overlap |-> FALSE, manual |-> {},
   links |-> {}, local |-> {}, feeds |-> feeds, names |-> {<<>>}]

Link(scheme, user, host, name, query) ==
  [scheme |-> scheme, user |-> user, password |-> FALSE, host |-> host,
   port |-> 443, name |-> name, query |-> query, payload |-> TRUE,
   method |-> "aes-256-gcm"]
Vless(host, name, query) == Link("vless", "uuid1", host, name, query)
Just(key, value) == [k \in {key} |-> <<value>>]
Plain == [k \in {} |-> <<>>]

Base64(lines) == [shape |-> "base64", header |-> <<>>, lines |-> lines]
Lines(lines)  == [shape |-> "lines", header |-> <<>>, lines |-> lines]
Nothing       == [shape |-> "empty", header |-> <<>>]
Array(items)  == [shape |-> "array", header |-> <<>>, items |-> items]
Object(name, outbounds) ==
  [shape |-> "object", header |-> <<>>, malformed |-> FALSE,
   unsupportedClient |-> FALSE, routing |-> FALSE, name |-> name,
   label |-> "plain", outbounds |-> outbounds]
Outbounds(network_, security_, tag, addresses) ==
  <<[protocol |-> "freedom", tag |-> <<>>],
    [protocol |-> "vless", network |-> network_, security |-> security_,
     stream |-> [k \in Options |-> k], tag |-> tag,
     servers |-> [i \in DOMAIN addresses |->
       [address |-> addresses[i], port |-> 443,
        users |-> <<[id |-> "uuid2", encryption |-> "", flow |-> ""]>>]]]>>

File(base) == [scheme |-> "file", host |-> "", base |-> base]
Http(host) == [scheme |-> "https", host |-> host, base |-> "feed"]

-----------------------------------------------------------------------------
A == Vless("a", <<"home">>, Plain)
B == Vless("b", <<"Home">>, Plain)
C == Vless("c", <<"home", "2">>, Plain)
Reality == [k \in {"security", "type", "sni", "pbk"} |->
              <<(CASE k = "security" -> "reality" [] k = "type" -> "xhttp"
                   [] k = "sni" -> "Sni" [] OTHER -> "key")>>]

\* Lists of links: names that clash, options that make another profile of the
\* same server, links that are refused, and every kind of link.
ListFeeds ==
  { Base64(<<A, B, C, A>>), Base64(<<B, Vless("b", <<"home", "2">>, Just("type", "WS"))>>),
    Base64(<<Vless("g", <<>>, [type |-> <<"grpc">>, serviceName |-> <<"one">>])>>),
    Base64(<<Vless("g", <<>>, [type |-> <<"grpc">>, serviceName |-> <<"two">>])>>),
    [Base64(<<Vless("a", <<"token">>, Reality)>>)
       EXCEPT !.header = <<<<"token">>, <<"Provider">>>>],
    Base64(<<Link("vless", "token", "a", <<"x">>, Plain), [A EXCEPT !.port = 0],
             [A EXCEPT !.password = TRUE], Vless("a", <<"x">>, Just("type", "smtp")),
             Vless("a", <<"x">>, [sni |-> <<"a", "b">>])>>),
    Base64(<<Link("vmess", "UUID1", "a", <<"vm">>, Just("type", "ws")),
             Link("trojan", "Pass", "a", <<"tr">>, Just("sni", "Sni")),
             Link("trojan", "Pass", "a", <<"tr">>, Just("security", "reality")),
             Link("ss", "pass", "a", <<"vm">>, Plain),
             Link("ss", "pass", "a", <<"vm">>, Just("plugin", "obfs")),
             Link("http", "pass", "a", <<"vm">>, Plain)>>) }
\* Xray JSON: an object or an array, with a name for all its profiles or none,
\* grouped by the provider or not, and refused for several reasons.
Group(label) == [Object(<<"Home">>, Outbounds("tcp", "tls", <<"a">>, <<"a">>)
                                      \o Outbounds("tcp", "tls", <<"b">>, <<"b">>))
                   EXCEPT !.routing = TRUE, !.label = label]
ObjectFeeds ==
  { Object(<<>>, Outbounds("ws", "tls", <<"home">>, <<"a", "b">>)),
    Object(<<"home">>, Outbounds("raw", "reality", <<"tag">>, <<"a", "b", "c">>)),
    Object(<<"token">>, Outbounds("grpc", "", <<>>, <<"a", "b">>)),
    Object(<<>>, Outbounds("tcp", "", <<>>, <<"a", "a">>)),
    Object(<<>>, Outbounds("kcp", "xtls", <<>>, <<"a">>)),
    Object(<<>>, Outbounds("ws", "reality", <<>>, <<"a">>)),
    Object(<<>>, Outbounds("tcp", "", <<>>, <<"bad host">>)),
    [Object(<<>>, <<>>) EXCEPT !.malformed = TRUE],
    [Object(<<"unsupported client">>, <<>>) EXCEPT !.unsupportedClient = TRUE],
    Group("one"), Group("tagged"),
    Array(<<Group("one"), Nothing,
            Object(<<>>, Outbounds("xhttp", "", <<"home">>, <<"c">>))>>),
    Array(<<Group("one"), Group("one")>>), Nothing }

\* Every command, one after another, and feeds that change between refreshes.
ListWorld   == Bounded(3, 0, (Http("list") :> ListFeeds))
ObjectWorld == Bounded(3, 0, (File("object") :> ObjectFeeds))
CommandWorld ==
  [Bounded(3, 0, (File("one") :> {Base64(<<A, B>>)})
                 @@ ([scheme |-> "ftp", host |-> "x", base |-> ""] :> {Nothing}))
   EXCEPT !.manual = {[name |-> <<"My">>, server |-> "a", port |-> 443, protocol |-> "vless"],
                      [name |-> <<"cyrillic">>, server |-> "a", port |-> 443,
                       protocol |-> "vless"]},
          !.links = {A, Link("ss", "", "a", <<>>, Plain)},
          !.local = {Lines(<<A, B>>), Object(<<>>, Outbounds("ws", "tls", <<>>, <<"a">>)),
                     Lines(<<A, A>>), Nothing},
          !.names = {<<"One">>}]
\* Subscriptions that share a profile, one after another: writes fail, processes
\* are killed, and users delete and add profiles that a subscription links.
SharedFeeds == (File("one") :> {Base64(<<A, B>>), Base64(<<A>>)})
               @@ (File("two") :> {Base64(<<B, C>>)})
FaultWorld == [Bounded(3, 2, SharedFeeds) EXCEPT !.links = {B}]
LongWorld  == [Bounded(4, 0, SharedFeeds) EXCEPT !.links = {B}]
\* The same, while commands overlap.
OverlapWorld == [Bounded(3, 0, SharedFeeds) EXCEPT !.overlap = TRUE]
\* First requests to a server, which sends nothing of use.
RequestWorld == [Bounded(3, 2, (Http("a") :> {Nothing})) EXCEPT !.overlap = TRUE]

MCWorlds == [list |-> ListWorld, object |-> ObjectWorld, command |-> CommandWorld,
             fault |-> FaultWorld, long |-> LongWorld, overlap |-> OverlapWorld,
             request |-> RequestWorld]
MCSymmetry == Permutations(Procs)
=============================================================================
