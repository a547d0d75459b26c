------------------------------ MODULE Routing ------------------------------
(***************************************************************************)
(* How a call finds its way: config.go loads, indexes and validates the    *)
(* endpoints and the routes, routing.go matches a request against them, and *)
(* pbx.go turns the matched endpoint into the target it dials.             *)
(*                                                                         *)
(* A number or a user name is a sequence of symbols, the empty one being   *)
(* what the code writes "".  An endpoint is known by its key in the map of *)
(* endpoints, which its Name need not equal.  None stands for "no match".  *)
(***************************************************************************)
EXTENDS Integers, Sequences, FiniteSets, SequencesExt

CONSTANTS
    Configs,    \* the configuration files: endpoints, order, routes
    RouteIDs,   \* the names of routes, which an endpoint may misspell
    Requests,   \* the INVITEs: from, to, source, transport
    Registered  \* the users with a binding: a call reads the registry once

None == 0
Unset == <<>>

Text == Seq(Nat)
Addresses == {"v4", "v4in6"} \X Nat
Values == [kind : {"exact", "cidr", "invalid"}, ips : SUBSET Addresses]

Transports == {"", "TLS", "tls", " tls", "UDP", "udp"}

ASSUME RouteIDsAssumption == {"", "default"} \subseteq RouteIDs

\* An endpoint of the file; "flow" stands for any other type.
ConfigEndpoint == [name : Text, type : {"user", "ip", "user_dynamic", "flow", ""},
                   values : Seq(Values), transport : Transports, uri : BOOLEAN,
                   route : RouteIDs, auth : {"", "digest", "bearer", "other"},
                   contact : {"", "bad"}]

\* fallback: what is dialled next, in this order, if the entry enables it.
ConfigRoute == [id : Text, match : {"", "prefix", "any"}, endpoint : Nat,
                useRegistry : BOOLEAN, hangup : BOOLEAN, fallback : Seq(Nat)]

\* A configuration; the keys of a map in YAML are written once each.
IsConfig(c) ==
    /\ c = [endpoints |-> c.endpoints, order |-> c.order, routes |-> c.routes]
    /\ DOMAIN c.endpoints \subseteq Nat \ {None}
    /\ \A k \in DOMAIN c.endpoints : c.endpoints[k] \in ConfigEndpoint
    /\ c.order \in Seq(Nat) /\ IsInjective(c.order)
    /\ \A id \in DOMAIN c.routes : c.routes[id] \in Seq(ConfigRoute)

ASSUME ConfigsAssumption == \A c \in Configs : IsConfig(c)

ASSUME RequestsAssumption ==
    Requests \subseteq [from : Text, to : Text, source : Addresses, transport : Transports]

VARIABLES
    conf,       \* the configuration, its blanks filled in by ConfigLoad
    index,      \* endpointIndex, built one endpoint at a time
    todo,       \* the set of keys buildEndpointIndex has still to pass over
    valid,      \* history: what Validate said
    pc,         \* "load", "index", "validate", "serve", "route", "dial", "ring"
    req,        \* the request being routed
    from,       \* the key of the endpoint the request comes from
    route,      \* the matched entry of its route
    target,     \* what the call dials
    tried       \* how many endpoints of the fallback it has gone on to

vars == <<conf, index, todo, valid, pc, req, from, route, target, tried>>

NoRequest == [from |-> Unset, to |-> Unset, source |-> <<"v4", 0>>, transport |-> ""]

NoRoute == [id |-> Unset, match |-> "", endpoint |-> None,
            useRegistry |-> FALSE, hangup |-> FALSE, fallback |-> <<>>]

EmptyIndex == [built |-> FALSE, users |-> <<>>, exact |-> {}, cidrs |-> {},
               dynamicUser |-> None, defaultEnd |-> None, valueOrder |-> 0]

\* The route that takes every number and looks its user up in the registry.
DefaultRoute == <<[NoRoute EXCEPT !.match = "any", !.useRegistry = TRUE]>>

Init ==
    /\ conf \in Configs
    /\ index = EmptyIndex
    /\ todo = {}
    /\ valid = FALSE
    /\ pc = "load"
    /\ req = NoRequest
    /\ from = None
    /\ route = NoRoute
    /\ target = <<"none", Unset>>
    /\ tried = 0

-----------------------------------------------------------------------------
(* Loading *)

\* Blanks take their defaults, those of the endpoints in `filled`; an endpoint's
\* key, as text, is the name of one that gives none.
Filled(c, filled) ==
    [endpoints |-> [k \in DOMAIN c.endpoints |->
        IF k \notin filled THEN c.endpoints[k]
        ELSE [c.endpoints[k] EXCEPT !.name = IF @ = Unset THEN <<k>> ELSE @,
                                    !.route = IF @ = "" THEN "default" ELSE @]],
     order |-> c.order,
     routes |-> IF "default" \in DOMAIN c.routes THEN c.routes
                ELSE [r \in DOMAIN c.routes \union {"default"} |->
                         IF r = "default" THEN DefaultRoute ELSE c.routes[r]]]

BadContacts(c) == {k \in DOMAIN c.endpoints : c.endpoints[k].contact = "bad"}

Listed(c) == {c.order[i] : i \in DOMAIN c.order}

\* endpointNames: the keys in the order of the file, then the rest, sorted.
Precedes(c, j, k) ==
    \/ \E p, q \in DOMAIN c.order : p < q /\ c.order[p] = j /\ c.order[q] = k
    \/ j \in Listed(c) /\ k \notin Listed(c)
    \/ j \notin Listed(c) /\ k \notin Listed(c) /\ j < k

FirstInFile(c, S) == CHOOSE k \in S : \A j \in S \ {k} : Precedes(c, k, j)

\* The endpoints are filled in no order, up to one whose contact does not parse.
\* main.go logs the error and goes on with what is filled.
ConfigLoad ==
    /\ pc = "load"
    /\ \E filled \in IF BadContacts(conf) = {} THEN {DOMAIN conf.endpoints}
                     ELSE SUBSET (DOMAIN conf.endpoints \ BadContacts(conf)) :
           conf' = Filled(conf, filled)
    /\ todo' = DOMAIN conf.endpoints
    /\ pc' = "index"
    /\ UNCHANGED <<index, valid, req, from, route, target, tried>>

\* An IPv4 address written inside IPv6 is the IPv4 address it holds.
Unmap(ip) == <<"v4", ip[2]>>

\* The addresses a value covers, as the index has them.
Covered(value) == IF value.kind = "exact" THEN {Unmap(ip) : ip \in value.ips} ELSE value.ips

\* The pass over the values of an endpoint of type "ip": each value takes the
\* next place in the order, exact addresses in one table, ranges in another.
IndexValues(idx, k, values) ==
    LET Rows(kind) == {[order |-> idx.valueOrder + i, key |-> k, covers |-> Covered(values[i])] :
                          i \in {j \in DOMAIN values : values[j].kind = kind}}
    IN  [idx EXCEPT !.exact = @ \union Rows("exact"),
                    !.cidrs = @ \union Rows("cidr"),
                    !.valueOrder = @ + Len(values)]

\* Only the first dynamic and the first default endpoint are kept.
Indexed(idx, k, e) ==
    CASE e.type = "user" -> [idx EXCEPT !.users = Append(@, k)]
      [] e.type = "ip" -> IndexValues(idx, k, e.values)
      [] e.type = "user_dynamic" -> [idx EXCEPT !.dynamicUser = IF @ = None THEN k ELSE @]
      [] e.type = "" -> [idx EXCEPT !.defaultEnd = IF @ = None THEN k ELSE @]
      [] OTHER -> idx

Malformed(e) == e.type = "ip" /\ \E i \in DOMAIN e.values : e.values[i].kind = "invalid"

\* The index is built when the file is loaded or, after an error there, by the
\* first request.  If a value is no address there is none, then or later.
IndexEndpoint ==
    /\ pc = "index"
    /\ todo # {}
    /\ LET k == FirstInFile(conf, todo)
           e == conf.endpoints[k]
       IN  IF Malformed(e)
             THEN index' = EmptyIndex /\ todo' = {} /\ pc' = "validate"
             ELSE index' = Indexed(index, k, e) /\ todo' = todo \ {k} /\ pc' = pc
    /\ UNCHANGED <<conf, valid, req, from, route, target, tried>>

IndexBuilt ==
    /\ pc = "index"
    /\ todo = {}
    /\ index' = [index EXCEPT !.built = TRUE]
    /\ pc' = "validate"
    /\ UNCHANGED <<conf, todo, valid, req, from, route, target, tried>>

\* Mutant: a route that names no endpoint passes, whatever it needs one for.
ValidRoute_Blank(c, r) ==
    r.endpoint = None \/ (r.endpoint \in DOMAIN c.endpoints /\ (r.hangup => r.useRegistry))

ValidRoute(c, r) ==
    LET exists == r.endpoint \in DOMAIN c.endpoints
    IN  \/ r.useRegistry /\ (r.endpoint # None => exists)
        \/ ~r.useRegistry /\ r.hangup /\ r.endpoint = None
        \/ ~r.useRegistry /\ ~r.hangup /\ exists

ValidConfig(c) ==
    LET E == c.endpoints
    IN  /\ \A k \in DOMAIN E : E[k].auth \in {"", "digest", "bearer"}
        /\ Cardinality({k \in DOMAIN E : E[k].type = "user_dynamic"}) <= 1
        /\ \A k \in DOMAIN E : ~Malformed(E[k])
        /\ \A id \in DOMAIN c.routes : \A i \in DOMAIN c.routes[id] :
               ValidRoute(c, c.routes[id][i])
        /\ \A k \in DOMAIN E : E[k].route \in DOMAIN c.routes

\* main.go logs that the configuration is not valid, and serves calls with it.
Validate ==
    /\ pc = "validate"
    /\ valid' = ValidConfig(conf)
    /\ pc' = "serve"
    /\ UNCHANGED <<conf, index, todo, req, from, route, target, tried>>

-----------------------------------------------------------------------------
(* Matching *)

\* Transports are compared in lower case and without blanks around them.
normalizeTransport(t) ==
    CASE t \in {"TLS", "tls", " tls"} -> "tls"
      [] t \in {"UDP", "udp"} -> "udp"
      [] OTHER -> ""

endpointTransportMatches(k, transport) ==
    LET want == normalizeTransport(conf.endpoints[k].transport)
    IN  want = "" \/ (transport # "" /\ transport = want)

Usable(k, r) == endpointTransportMatches(k, normalizeTransport(r.transport))

LeastOf(S) == CHOOSE i \in S : \A j \in S : i <= j

\* The first of these users in the index.
FirstUser(K) ==
    LET places == {i \in DOMAIN index.users : index.users[i] \in K}
    IN  IF places = {} THEN None ELSE index.users[LeastOf(places)]

UsersNamed(user) == {k \in DOMAIN conf.endpoints : conf.endpoints[k].name = user}

Hits(rows, r) == {m \in rows : Unmap(r.source) \in m.covers /\ Usable(m.key, r)}

Earliest(rows) == IF rows = {} THEN None
                  ELSE (CHOOSE m \in rows : \A n \in rows : m.order <= n.order).key

\* Mutant: exact addresses go before ranges, wherever the file has them.
matchIP_ExactFirst(r) ==
    IF Hits(index.exact, r) # {} THEN Earliest(Hits(index.exact, r))
    ELSE Earliest(Hits(index.cidrs, r))

\* The endpoint whose value covers the address, the earliest of the file.
matchIP(r) == Earliest(Hits(index.exact \union index.cidrs, r))

\* First the users of that name, then the addresses, then the endpoint of the
\* dynamic users, for a caller with a name, then the default one.
MatchedEndpoint(r) ==
    LET user == FirstUser({k \in UsersNamed(r.from) : Usable(k, r)})
        Taken(k) == k # None /\ Usable(k, r)
    IN  CASE user # None -> user
          [] user = None /\ matchIP(r) # None -> matchIP(r)
          [] user = None /\ matchIP(r) = None /\ r.from # Unset /\ Taken(index.dynamicUser) ->
                 index.dynamicUser
          [] OTHER -> IF Taken(index.defaultEnd) THEN index.defaultEnd ELSE None

\* Mutant: a call whose source matches no endpoint goes on.
MatchEndpoint_Anyone(r) ==
    /\ pc = "serve"
    /\ req' = r
    /\ from' = IF index.built THEN MatchedEndpoint(r) ELSE None
    /\ route' = NoRoute
    /\ target' = <<"none", Unset>>
    /\ tried' = 0
    /\ pc' = "route"
    /\ UNCHANGED <<conf, index, todo, valid>>

\* BridgeCall refuses a call whose source matches no endpoint, or if there is
\* no index to match it with.
MatchEndpoint(r) ==
    /\ pc = "serve"
    /\ req' = r
    /\ from' = IF index.built THEN MatchedEndpoint(r) ELSE None
    /\ route' = NoRoute
    /\ target' = <<"none", Unset>>
    /\ tried' = 0
    /\ pc' = IF from' = None THEN "serve" ELSE "route"
    /\ UNCHANGED <<conf, index, todo, valid>>

HasPrefix(s, p) == IsPrefix(p, s)

HasPart(s, p) == \E i \in 1..(Len(s) + 1) : IsPrefix(p, SubSeq(s, i, Len(s)))

\* An entry of a route takes a number.
Takes(did, to) ==
    \/ did.id = to
    \/ did.match = "prefix" /\ HasPrefix(to, did.id)
    \/ did.match = "any" /\ HasPart(to, did.id)

FirstTaking(dids, to) ==
    LET taking == {i \in DOMAIN dids : Takes(dids[i], to)}
    IN  IF taking = {} THEN NoRoute ELSE dids[LeastOf(taking)]

\* An entry that says to hang up ends the call here, as does no entry at all:
\* an entry with no number that is not of kind "any" counts as none.
MatchIncomingRoute ==
    /\ pc = "route"
    /\ LET id == conf.endpoints[from].route
       IN  route' = IF id \in DOMAIN conf.routes THEN FirstTaking(conf.routes[id], req.to)
                    ELSE NoRoute
    /\ pc' = IF (route'.match = "any" \/ route'.id # Unset) /\ ~route'.hangup
             THEN "dial" ELSE "serve"
    /\ UNCHANGED <<conf, index, todo, valid, req, from, target, tried>>

\* The endpoint the call goes to, under the name it is looked up by.
OutgoingEndpoint ==
    LET named == route.endpoint \in DOMAIN conf.endpoints
        user == FirstUser(UsersNamed(req.to))
        To(k, name) == [key |-> k, name |-> name, useRegistry |-> route.useRegistry]
    IN  CASE route.useRegistry /\ named -> To(route.endpoint, req.to)
          [] route.useRegistry /\ route.endpoint = None /\ user # None ->
                 To(user, conf.endpoints[user].name)
          [] ~route.useRegistry /\ named -> To(route.endpoint, conf.endpoints[route.endpoint].name)
          [] OTHER -> To(None, Unset)

\* Mutant: the endpoint's own URI is looked at before the registry.
OutboundTarget_UriFirst(end) ==
    LET e == conf.endpoints[end.key]
    IN  IF end.key = None THEN <<"environment", Unset>>
        ELSE IF e.uri THEN <<"uri", <<end.key>> >>
        ELSE IF end.useRegistry \/ e.type = "user" THEN <<"registered", end.name>>
        ELSE <<"environment", Unset>>

\* What is dialled for an endpoint; with none, or with one that names nothing,
\* the target of the environment.
OutboundTarget(end) ==
    LET e == conf.endpoints[end.key]
    IN  IF end.key = None THEN <<"environment", Unset>>
        ELSE IF end.useRegistry THEN <<"registered", end.name>>
        ELSE IF e.uri THEN <<"uri", <<end.key>> >>
        ELSE IF e.type = "user" THEN <<"registered", end.name>>
        ELSE <<"environment", Unset>>

IsFlow(end) == end.key # None /\ conf.endpoints[end.key].type = "flow"

\* A user with no binding in the registry ends the call; an endpoint of type
\* "flow" hands it to an agent, whatever else the endpoint says.  Anything else
\* is dialled.
LoadOutboundURI ==
    /\ pc = "dial"
    /\ LET end == OutgoingEndpoint
           found == OutboundTarget(end)
       IN  target' = IF IsFlow(end) THEN <<"agent", end.name>>
                     ELSE IF found[1] = "registered" /\ end.name \notin Registered
                     THEN <<"unbound", end.name>> ELSE found
    /\ pc' = IF target'[1] \in {"agent", "unbound"} THEN "serve" ELSE "ring"
    /\ UNCHANGED <<conf, index, todo, valid, req, from, route, tried>>

\* inviteFallback goes on to the next endpoint of the entry, under its own URI
\* and nothing else: one that is not in the file or has no URI ends the call.
DialFallback ==
    /\ pc = "ring"
    /\ tried < Len(route.fallback)
    /\ LET k == route.fallback[tried + 1]
       IN  target' = IF k \notin DOMAIN conf.endpoints THEN <<"missing", <<k>> >>
                     ELSE IF conf.endpoints[k].uri THEN <<"uri", <<k>> >> ELSE <<"blank", <<k>> >>
    /\ tried' = tried + 1
    /\ pc' = IF target'[1] = "uri" THEN "ring" ELSE "serve"
    /\ UNCHANGED <<conf, index, todo, valid, req, from, route>>

\* The callee answers, or what is dialled fails in a way the fallback is not for.
DialEnds ==
    /\ pc = "ring"
    /\ pc' = "serve"
    /\ UNCHANGED <<conf, index, todo, valid, req, from, route, target, tried>>

Next ==
    \/ ConfigLoad
    \/ IndexEndpoint
    \/ IndexBuilt
    \/ Validate
    \/ \E r \in Requests : MatchEndpoint(r)
    \/ MatchIncomingRoute
    \/ LoadOutboundURI
    \/ DialFallback
    \/ DialEnds

Spec == Init /\ [][Next]_vars

-----------------------------------------------------------------------------
(* Properties *)

Kinds == {"none", "environment", "uri", "registered", "unbound", "agent", "missing", "blank"}

IndexRow == [order : Nat, key : Nat, covers : SUBSET Addresses]

\* What the steps of loading and serving hold, and that a call that is routed
\* comes from an endpoint of the file (routing.go:20-40, config.go:118-127).
TypeOK ==
    /\ IsConfig(conf)
    /\ index \in [built : BOOLEAN, users : Seq(Nat), exact : SUBSET IndexRow,
                  cidrs : SUBSET IndexRow, dynamicUser : Nat, defaultEnd : Nat,
                  valueOrder : Nat]
    /\ todo \subseteq DOMAIN conf.endpoints
    /\ valid \in BOOLEAN
    /\ pc \in {"load", "index", "validate", "serve", "route", "dial", "ring"}
    /\ req \in Requests \union {NoRequest}
    /\ from \in DOMAIN conf.endpoints \union {None}
    /\ pc \in {"route", "dial", "ring"} => from # None
    /\ route \in ConfigRoute
    /\ target \in Kinds \X Text
    /\ tried \in 0..Len(route.fallback)

Class(k) == CASE conf.endpoints[k].type = "user" -> 1
              [] conf.endpoints[k].type = "ip" -> 2
              [] conf.endpoints[k].type = "user_dynamic" -> 3
              [] OTHER -> 4

\* Of the endpoints for dynamic users, as of those with no match, the first of
\* the file is the only one considered.
OnlyFirst(k) == \A j \in DOMAIN conf.endpoints \ {k} :
                    conf.endpoints[j].type = conf.endpoints[k].type => Precedes(conf, k, j)

\* The endpoint covers the address: some value of it, exact or range, holds it.
CoversSource(k, r) ==
    \E i \in DOMAIN conf.endpoints[k].values :
        \E ip \in conf.endpoints[k].values[i].ips :
            IF conf.endpoints[k].values[i].kind = "exact" THEN Unmap(ip) = Unmap(r.source)
            ELSE ip = Unmap(r.source)

\* The request, read against the file alone, may come from this endpoint.
MayBeFrom(k, r) ==
    LET e == conf.endpoints[k]
    IN  /\ normalizeTransport(e.transport) \in {"", normalizeTransport(r.transport)}
        /\ \/ e.type = "user" /\ e.name = r.from
           \/ e.type = "ip" /\ CoversSource(k, r)
           \/ e.type = "user_dynamic" /\ r.from # Unset /\ OnlyFirst(k)
           \/ e.type = "" /\ OnlyFirst(k)

Sources(r) == {k \in DOMAIN conf.endpoints : index.built /\ MayBeFrom(k, r)}

\* f is the source with precedence, None if there is no source.
HasPrecedence(f, r) ==
    IF f = None THEN Sources(r) = {}
    ELSE /\ f \in Sources(r)
         /\ \A k \in Sources(r) \ {f} :
                \/ Class(f) < Class(k)
                \/ Class(f) = Class(k) /\ Precedes(conf, f, k)

\* A call is taken for the one endpoint the file gives precedence to: none that
\* may be its source is of a better class, nor earlier in the file within the
\* class, whether it names the address or a range around it; and it is refused
\* only if no endpoint may be its source or the file has no index
\* (routing.go MatchEndpoint, with the tables buildEndpointIndex makes).
SourceHasPrecedence == req # NoRequest => HasPrecedence(from, req)

\* A file found valid has the route of every endpoint and the endpoint of every
\* entry that dials one: a call is never left without its route, and one that is
\* dialled without the registry never falls through to the environment's target
\* because the file misspells a name (config.go Validate, pbx.go
\* endpointLoadOutboundURI).  The endpoints of a fallback are not looked at:
\* FallbacksMapped.
NothingDangles ==
  valid =>
    /\ pc = "route" => conf.endpoints[from].route \in DOMAIN conf.routes
    /\ pc = "dial" /\ (route.endpoint # None \/ ~route.useRegistry) =>
           route.endpoint \in DOMAIN conf.endpoints

\* "Check do dids have mapping correct", "Does endpoint exists" (config.go:226,
\* 245): a call in a file found valid goes on to no endpoint the file lacks.
FallbacksMapped == valid => target[1] # "missing"

\* The users of the file with this name.
HasEndpoint(user) == \E k \in UsersNamed(user) : conf.endpoints[k].type = "user"

\* A route through the registry looks up the callee, never the name of the
\* endpoint the call borrows its settings from, and never dials that endpoint's
\* fixed URI before a fallback; and it does look the callee up if the entry names
\* no endpoint and the file has a user of that name, dialling what the callee
\* registered if it did.  Any other callee gets the environment's target, or an
\* agent (routing.go MatchOutgoingRouteEndpoint, pbx.go:1057-1093).
RegistryDialsTheCallee ==
    route.useRegistry /\ target[1] # "none" /\ tried = 0 =>
        /\ target[1] # "uri"
        /\ target[1] = "registered" => target[2] = req.to /\ req.to \in Registered
        /\ target[1] = "unbound" => target[2] = req.to /\ req.to \notin Registered
        /\ route.endpoint = None /\ HasEndpoint(req.to) =>
               target[1] \in {"registered", "unbound"}

\* "Check registry. Any register user will be reached", of the route every call
\* takes if the file has none of its own (diagox.yaml:35-40).
AnyRegisteredReached ==
    route = DefaultRoute[1] /\ target[1] # "none" /\ req.to \in Registered =>
        target = <<"registered", req.to>>
=============================================================================
