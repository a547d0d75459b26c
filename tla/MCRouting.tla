----------------------------- MODULE MCRouting -----------------------------
EXTENDS Routing

Endpoint == [name |-> Unset, type |-> "", values |-> <<>>, transport |-> "",
             uri |-> FALSE, route |-> "", auth |-> "", contact |-> ""]

Exact(ip) == [kind |-> "exact", ips |-> {ip}]
Cidr(addresses) == [kind |-> "cidr", ips |-> {<<"v4", a>> : a \in addresses}]
User(n) == [Endpoint EXCEPT !.type = "user", !.name = n]
Ip(values) == [Endpoint EXCEPT !.type = "ip", !.values = values]

Endpoints ==
    { User(<<1>>),
      User(Unset),
      [User(<<1>>) EXCEPT !.transport = "TLS", !.uri = TRUE],
      Ip(<<Exact(<<"v4", 1>>)>>),
      Ip(<<Cidr({2, 3}), Exact(<<"v4in6", 1>>)>>),
      [Ip(<<Cidr({1, 2})>>) EXCEPT !.transport = " tls", !.route = "trunk"],
      Ip(<<[kind |-> "invalid", ips |-> {}]>>),
      [Endpoint EXCEPT !.type = "user_dynamic"],
      [Endpoint EXCEPT !.type = "user_dynamic", !.transport = "tls"],
      [User(<<2>>) EXCEPT !.contact = "bad"],
      Endpoint,
      [Endpoint EXCEPT !.transport = "udp", !.uri = TRUE],
      [Endpoint EXCEPT !.type = "flow", !.uri = TRUE] }

Entry(id, match, endpoint) ==
    [NoRoute EXCEPT !.id = id, !.match = match, !.endpoint = endpoint]
ViaRegistry(r) == [r EXCEPT !.useRegistry = TRUE]
HangsUp(r) == [r EXCEPT !.hangup = TRUE]
Then(r, fallback) == [r EXCEPT !.fallback = fallback]

Trunk == [r \in {"trunk"} |-> <<Entry(<<2>>, "any", 2), HangsUp(Entry(<<1>>, "prefix", None)),
                                Entry(Unset, "any", 3)>>]
OneRoute(dids) == [r \in {"default", "trunk"} |-> IF r = "default" THEN dids ELSE Trunk[r]]

MCRouteIDs == {"", "default", "trunk"}

Routes ==
    { [r \in {} |-> <<>>],
      Trunk,
      OneRoute(<<Then(Entry(<<1, 2>>, "", 1), <<3, 9>>),
                 Then(ViaRegistry(Entry(<<1>>, "prefix", 2)), <<3>>), Entry(Unset, "any", 3)>>),
      OneRoute(<<Entry(Unset, "prefix", 1), Entry(Unset, "any", 2)>>),
      OneRoute(<<Entry(<<2>>, "any", None)>>),
      OneRoute(<<HangsUp(Entry(<<2>>, "any", 2))>>),
      OneRoute(<<ViaRegistry(Entry(<<1>>, "prefix", 9))>>) }

Config(endpoints, order, routes) ==
    [endpoints |-> endpoints, order |-> order, routes |-> routes]

\* Every file of three endpoints in the order of their keys, files in another
\* order that lists two of the three, and every table of routes over files with
\* a user first.
MCConfigs ==
    {Config(e, <<1, 2, 3>>, Trunk) : e \in [1..3 -> Endpoints]}
    \union
    {Config([[i \in 1..3 |-> Ip(<<Exact(<<"v4", 2>>)>>)] EXCEPT ![2] = d, ![3] = e], <<3, 1>>, Trunk) :
        d, e \in Endpoints}
    \union
    {Config([[i \in 1..3 |-> User(<<1>>)] EXCEPT ![2] = f, ![3] = e], <<1, 2, 3>>, r) :
        f \in {User(<<1>>), [Endpoint EXCEPT !.type = "flow", !.uri = TRUE],
               [Endpoint EXCEPT !.type = "user_dynamic", !.auth = "other"]},
        e \in Endpoints, r \in Routes}

\* One of the three users some file names has no binding, and a number that is
\* the name of no endpoint has one.
MCRegistered == {<<1>>, <<2>>, <<1, 2>>}

\* Every source with one number, and every number from one source.
MCRequests ==
    [from : {Unset, <<1>>, <<2>>}, to : {<<1, 2>>},
     source : {<<"v4in6", 1>>, <<"v4", 2>>, <<"v4", 4>>}, transport : {"TLS", "UDP"}]
    \union
    [from : {<<1>>}, to : {<<1>>, <<3>>}, source : {<<"v4", 2>>}, transport : {"UDP"}]
=============================================================================
