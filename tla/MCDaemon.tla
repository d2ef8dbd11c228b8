------------------------------ MODULE MCDaemon ------------------------------
(***************************************************************************)
(* Two daemons, two recovers, one check at a time, and worlds that each    *)
(* make something happen.                                                  *)
(***************************************************************************)
EXTENDS Commands, TLC

CONSTANTS d1, d2

Good == [ip |-> "ok", nft |-> "ok", resolvectl |-> "ok", dev |-> "eth0", gw |-> "gw",
         answers |-> <<"s6", "s4">>, v6 |-> FALSE]
Ppp  == [Good EXCEPT !.dev = "ppp0", !.gw = ""]
All  == {"connect-tun", "connect-proxy-only", "disconnect", "recover-execute"}
ProxyOnly == {"connect-proxy-only", "disconnect"}
Budget(starts, connects, recovers, crashes, faults) ==
  [starts |-> starts, connects |-> connects, recovers |-> recovers,
   crashes |-> crashes, faults |-> faults]
World(host, units, budget_) ==
  [host |-> host, units |-> units, grants |-> All, notASocket |-> FALSE,
   overlap |-> FALSE, checks |-> 0, profiles |-> {"other"}, budget |-> budget_]

WorldsByName ==
  [check     |-> [World(Good, {}, Budget(1, 2, 0, 0, 1))
                    EXCEPT !.checks = 1, !.profiles = {"checked", "other"}],
   checkDies |-> [World(Good, {}, Budget(2, 2, 0, 1, 0))
                    EXCEPT !.checks = 1, !.profiles = {"checked"}, !.grants = ProxyOnly],
   checkUnit |-> [World(Good, {d1}, Budget(2, 2, 0, 0, 0))
                    EXCEPT !.checks = 1, !.profiles = {"checked"}, !.grants = ProxyOnly],
   denied    |-> [World(Good, {}, Budget(1, 1, 0, 0, 0))
                    EXCEPT !.checks = 2, !.grants = {"connect-proxy-only"}],
   deniedTun |-> [World(Good, {}, Budget(1, 1, 0, 0, 0))
                    EXCEPT !.checks = 1, !.grants = {"connect-tun", "disconnect"}],
   connects  |-> World(Good, {}, Budget(1, 2, 1, 0, 1)),
   recovers  |-> World(Good, {}, Budget(1, 1, 2, 0, 1)),
   overlap   |-> [World(Good, {}, Budget(1, 1, 1, 0, 1)) EXCEPT !.overlap = TRUE],
   restarts  |-> World(Good, {}, Budget(2, 1, 1, 1, 0)),
   ppp       |-> World(Ppp, {}, Budget(1, 1, 1, 0, 1)),
   daemons   |-> [World(Good, {}, Budget(3, 1, 0, 1, 0))
                    EXCEPT !.grants = {"connect-tun", "disconnect"}],
   fails     |-> [World(Good, {}, Budget(2, 1, 0, 0, 1))
                    EXCEPT !.grants = {"connect-tun", "disconnect"}],
   unit      |-> World(Good, {d1}, Budget(2, 1, 0, 1, 0)),
   unitAlone |-> World(Good, {d1}, Budget(1, 1, 1, 1, 0)),
   file      |-> [World(Good, {d1}, Budget(2, 0, 1, 1, 1)) EXCEPT !.notASocket = TRUE],
   v6only    |-> World([Good EXCEPT !.answers = <<"s6">>, !.v6 = TRUE], {}, Budget(1, 1, 1, 0, 0)),
   unresolved |-> World([Good EXCEPT !.answers = <<>>], {}, Budget(1, 1, 1, 0, 1)),
   nouplink  |-> World([Good EXCEPT !.dev = ""], {}, Budget(1, 1, 1, 0, 0)),
   noip      |-> World([Good EXCEPT !.ip = "absent"], {}, Budget(1, 1, 1, 0, 0)),
   noresolved |-> World([Good EXCEPT !.resolvectl = "absent"], {}, Budget(1, 1, 1, 0, 0)),
   badnft    |-> World([Good EXCEPT !.nft = "failing"], {}, Budget(1, 1, 1, 0, 0))]

\* The same worlds; TLC looks them up faster in a function than in a record.
MCWorlds == [name \in DOMAIN WorldsByName |-> WorldsByName[name]]
=============================================================================
