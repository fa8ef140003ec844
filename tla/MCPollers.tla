------------------------------ MODULE MCPollers ------------------------------
\* A small instance of Pollers: two engines and a virtual proxy, under settings
\* that give each destination its turn.
EXTENDS Pollers

Engine(s) == [collector |-> "health", server |-> s, proxy |-> ""]
Proxy(s) == [collector |-> "sessions", server |-> s, proxy |-> "/"]

Base ==
    [targets |-> [health |-> <<Engine("s1"), Engine("s2")>>, sessions |-> <<>>],
     cert |-> TRUE, destinations |-> {"prometheus"}, version |-> 1, writeApi |-> TRUE,
     nrSessions |-> TRUE, uptime |-> {}, userAccounts |-> <<"none", "acc1", "acc2">>,
     uptimeAccounts |-> <<"acc2">>, credentials |-> {"acc1", "acc2"}, tags |-> {"site"}]

ProxyOnly == [health |-> <<>>, sessions |-> <<Proxy("s1")>>]
EngineOnly == [health |-> <<Engine("s1")>>, sessions |-> <<>>]

MCSettings ==
    {Base,
     [Base EXCEPT !.cert = FALSE],
     [Base EXCEPT !.targets = ProxyOnly, !.destinations = {"mqtt", "prometheus"}],
     [Base EXCEPT !.targets = ProxyOnly, !.destinations = {"newRelic"}],
     [Base EXCEPT !.targets = EngineOnly, !.destinations = {"mqtt"}],
     [Base EXCEPT !.targets = EngineOnly, !.destinations = {"newRelic"}, !.uptime = {"newRelic"}]}
    \cup {[Base EXCEPT !.targets = where, !.destinations = {"influxdb"}, !.version = v,
                       !.writeApi = api] :
             where \in {EngineOnly, ProxyOnly}, v \in 1..3, api \in BOOLEAN}
    \cup {[Base EXCEPT !.targets = [EngineOnly EXCEPT !.health = <<>>],
                       !.destinations = {"influxdb"}, !.version = v, !.uptime = {"influxdb"}] :
             v \in 1..3}
=============================================================================
