---------------------------- MODULE MCNameserver ----------------------------
(* A small instance of Nameserver for TLC.                                  *)
EXTENDS Nameserver

MCAsks == [both |-> {4, 6}, four |-> {4}]

\* Three servers, each with bounds of its own: the TTLs of its answers and their number,
\* the moments at which something happens, and the raw queries.  The first one's answers
\* expire during a query or last as long as it; those of the second are taken by one query
\* or dropped; the third one has neither a cache nor good answers.
MCServers ==
    {[disableCache |-> FALSE, kinds |-> {"ips", "empty"}, ttls |-> {1, 2}, answers |-> 2,
      times |-> {0, 1, 2}, raws |-> {}],
     [disableCache |-> FALSE, kinds |-> {"ips"}, ttls |-> {0, 2}, answers |-> 3,
      times |-> {0, 2}, raws |-> Raws],
     [disableCache |-> TRUE, kinds |-> {"rcode", "truncated"}, ttls |-> {2}, answers |-> 3,
      times |-> {0, 4}, raws |-> Raws]}

Within ==
    /\ now \in server.times
    /\ \A h \in Handlers : handler[h].msg # None => handler[h].msg.ttl \in server.ttls
    /\ Raws \cap called \subseteq server.raws
    /\ answers <= server.answers

MCSpec == Init /\ [][Next /\ Within']_<<server, vars>>
=============================================================================
