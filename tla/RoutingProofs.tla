--------------------------- MODULE RoutingProofs ---------------------------
(***************************************************************************)
(* Proofs about Routing, for files of any number of endpoints, of any      *)
(* values, in any order, with any routes, and for any requests.            *)
(***************************************************************************)
EXTENDS Routing, LeastElements, TLAPS

----------------------------------------------------------------------------
(* The order of the file                                                    *)

\* No two endpoints precede one another: a key is listed in one place
\* (src/routing.go:316-337).
LEMMA PrecedesAsymmetric ==
  ASSUME NEW c, IsConfig(c), NEW j \in Nat, NEW k \in Nat, Precedes(c, j, k)
  PROVE  ~Precedes(c, k, j)
<1>1. /\ \A p, q \in DOMAIN c.order : c.order[p] = c.order[q] => p = q
      /\ DOMAIN c.order \subseteq Nat
  BY DEF IsConfig, IsInjective
<1>2. \A p \in DOMAIN c.order : c.order[p] \in Listed(c)
  BY DEF Listed
<1>3. SUFFICES ASSUME Precedes(c, k, j) PROVE FALSE
  OBVIOUS
<1>4. CASE \E p, q \in DOMAIN c.order : p < q /\ c.order[p] = j /\ c.order[q] = k
  <2>1. j \in Listed(c) /\ k \in Listed(c)
    BY <1>2, <1>4
  <2>2. \E p, q \in DOMAIN c.order : p < q /\ c.order[p] = k /\ c.order[q] = j
    BY <1>3, <2>1 DEF Precedes
  <2> QED BY <1>1, <1>4, <2>2
<1>5. CASE j \in Listed(c) /\ k \notin Listed(c)
  BY <1>2, <1>3, <1>5 DEF Precedes
<1>6. CASE j \notin Listed(c) /\ k \notin Listed(c) /\ j < k
  BY <1>2, <1>3, <1>6 DEF Precedes
<1> QED BY <1>4, <1>5, <1>6 DEF Precedes

\* Of any endpoints left one comes before all the others: the next of the loop
\* of buildEndpointIndex (src/routing.go:258-264).
LEMMA FirstExists ==
  ASSUME NEW c, IsConfig(c), NEW S \in SUBSET Nat, S # {}
  PROVE  /\ FirstInFile(c, S) \in S
         /\ \A j \in S \ {FirstInFile(c, S)} : Precedes(c, FirstInFile(c, S), j)
<1>1. SUFFICES \E k \in S : \A j \in S \ {k} : Precedes(c, k, j)
  BY DEF FirstInFile
<1>2. DOMAIN c.order \in SUBSET Nat
  BY DEF IsConfig
<1>3. CASE S \cap Listed(c) # {}
  <2> DEFINE P == {p \in DOMAIN c.order : c.order[p] \in S}
  <2>1. P \in SUBSET Nat /\ P # {}
    BY <1>2, <1>3 DEF Listed
  <2>2. PICK p \in P : \A q \in P : p <= q
    <3> HIDE DEF P
    <3> QED BY <2>1, LeastNatExists
  <2>3. ASSUME NEW j \in S \ {c.order[p]} PROVE Precedes(c, c.order[p], j)
    <3>1. CASE j \in Listed(c)
      <4>1. PICK q \in DOMAIN c.order : c.order[q] = j
        BY <3>1 DEF Listed
      <4>2. q \in P /\ p \in DOMAIN c.order /\ q # p
        BY <2>2, <2>3, <4>1
      <4>3. p < q
        BY <1>2, <2>2, <4>1, <4>2
      <4> QED BY <4>1, <4>2, <4>3 DEF Precedes
    <3>2. CASE j \notin Listed(c)
      <4>1. c.order[p] \in Listed(c)
        BY <2>2 DEF Listed
      <4> QED BY <3>2, <4>1 DEF Precedes
    <3> QED BY <3>1, <3>2
  <2>4. c.order[p] \in S
    BY <2>2
  <2> QED BY <2>3, <2>4
<1>4. CASE S \cap Listed(c) = {}
  <2>1. PICK k \in S : \A j \in S : k <= j
    BY LeastNatExists
  <2>2. \A j \in S \ {k} : k < j
    BY <2>1
  <2>3. \A j \in S \ {k} : Precedes(c, k, j)
    BY <1>4, <2>1, <2>2 DEF Precedes
  <2> QED BY <2>1, <2>3
<1> QED BY <1>3, <1>4

----------------------------------------------------------------------------
(* What the index says of the endpoints it has passed over                  *)

\* The users, in the order of the file.
UsersSound(users, done) ==
  /\ users \in Seq(done)
  /\ \A i \in DOMAIN users : conf.endpoints[users[i]].type = "user"
  /\ \A k \in done : conf.endpoints[k].type = "user" => \E i \in DOMAIN users : users[i] = k
  /\ \A i, j \in DOMAIN users : i < j => Precedes(conf, users[i], users[j])

\* The rows of both tables: every value of every endpoint has its row, and the
\* order of the rows is the order of the file.
RowsSound(c, rows, done, top) ==
  /\ top \in Nat
  /\ \A m \in rows :
       /\ m.key \in done /\ c.endpoints[m.key].type = "ip"
       /\ m.order \in Nat /\ m.order <= top
       /\ \E i \in DOMAIN c.endpoints[m.key].values :
            m.covers = Covered(c.endpoints[m.key].values[i])
  /\ \A k \in done : c.endpoints[k].type = "ip" =>
       \A i \in DOMAIN c.endpoints[k].values :
         \E m \in rows : m.key = k /\ m.covers = Covered(c.endpoints[k].values[i])
  /\ \A m, n \in rows : m.order <= n.order => m.key = n.key \/ Precedes(c, m.key, n.key)

\* The one endpoint kept of a type, None if there is none.
FirstSound(d, type, done) ==
  IF d = None THEN \A k \in done : conf.endpoints[k].type # type
  ELSE /\ d \in done /\ conf.endpoints[d].type = type
       /\ \A k \in done \ {d} : conf.endpoints[k].type = type => Precedes(conf, d, k)

Indices(idx, done) ==
  /\ UsersSound(idx.users, done)
  /\ RowsSound(conf, idx.exact \union idx.cidrs, done, idx.valueOrder)
  /\ FirstSound(idx.dynamicUser, "user_dynamic", done)
  /\ FirstSound(idx.defaultEnd, "", done)

Done == DOMAIN conf.endpoints \ todo

\* What is left comes after what is done.
InOrder == \A j \in Done, k \in todo : Precedes(conf, j, k)

\* One more user, the last so far (src/routing.go:262-263).
LEMMA UsersStep ==
  ASSUME NEW users, NEW done, NEW k, UsersSound(users, done),
         \A j \in done : Precedes(conf, j, k)
  PROVE  /\ conf.endpoints[k].type = "user" => UsersSound(Append(users, k), done \union {k})
         /\ conf.endpoints[k].type # "user" => UsersSound(users, done \union {k})
<1>1. users \in Seq(done \union {k}) /\ Len(users) \in Nat /\ DOMAIN users = 1..Len(users)
      /\ \A i \in DOMAIN users : users[i] \in done
  BY DEF UsersSound
<1>2. ASSUME conf.endpoints[k].type = "user"
      PROVE  UsersSound(Append(users, k), done \union {k})
  <2> DEFINE more == Append(users, k)
  <2>1. /\ more \in Seq(done \union {k}) /\ DOMAIN more = 1..(Len(users) + 1)
        /\ \A i \in DOMAIN users : more[i] = users[i]
        /\ more[Len(users) + 1] = k
    BY <1>1
  <2>2. \A i \in DOMAIN more : i \in DOMAIN users \/ i = Len(users) + 1
    BY <1>1, <2>1
  <2> HIDE DEF more
  <2>3. \A i \in DOMAIN more : conf.endpoints[more[i]].type = "user"
    BY <1>2, <2>1, <2>2 DEF UsersSound
  <2>4. \A j \in done \union {k} : conf.endpoints[j].type = "user" =>
          \E i \in DOMAIN more : more[i] = j
    <3>1. Len(users) + 1 \in DOMAIN more /\ DOMAIN users \subseteq DOMAIN more
      BY <1>1, <2>1
    <3> QED BY <2>1, <3>1 DEF UsersSound
  <2>5. ASSUME NEW i \in DOMAIN more, NEW j \in DOMAIN more, i < j
        PROVE  Precedes(conf, more[i], more[j])
    <3>1. i \in DOMAIN users
      BY <1>1, <2>1, <2>5
    <3>2. CASE j \in DOMAIN users
      BY <2>1, <2>5, <3>1, <3>2 DEF UsersSound
    <3>3. CASE j = Len(users) + 1
      BY <1>1, <2>1, <3>1, <3>3
    <3> QED BY <2>2, <3>2, <3>3
  <2> QED BY <2>1, <2>3, <2>4, <2>5 DEF UsersSound, more
<1>3. ASSUME conf.endpoints[k].type # "user"
      PROVE  UsersSound(users, done \union {k})
  BY <1>1, <1>3 DEF UsersSound
<1> QED BY <1>2, <1>3

\* One more endpoint with addresses: its rows come after all the others
\* (src/routing.go:264-284).
LEMMA RowsStep ==
  ASSUME NEW rows, NEW done, NEW top, NEW k, NEW new, RowsSound(conf, rows, done, top),
         \A j \in done : Precedes(conf, j, k), k \notin done,
         conf.endpoints[k].values \in Seq(Values),
         new = {[order |-> top + i, key |-> k, covers |-> Covered(conf.endpoints[k].values[i])] :
                  i \in DOMAIN conf.endpoints[k].values},
         conf.endpoints[k].type = "ip"
  PROVE  RowsSound(conf, rows \union new, done \union {k}, top + Len(conf.endpoints[k].values))
<1> DEFINE values == conf.endpoints[k].values
           all == rows \union new
           last == top + Len(values)
<1>1. /\ top \in Nat /\ Len(values) \in Nat /\ DOMAIN values = 1..Len(values)
      /\ last \in Nat /\ top <= last
  BY DEF RowsSound
<1>2. \A m \in new : \E i \in 1..Len(values) :
        /\ m.order = top + i /\ m.key = k /\ m.covers = Covered(values[i])
  BY <1>1
<1>3. ASSUME NEW i \in 1..Len(values)
      PROVE  \E m \in new : m.key = k /\ m.covers = Covered(values[i])
  <2> DEFINE m == [order |-> top + i, key |-> k, covers |-> Covered(values[i])]
  <2>1. m \in new
    BY <1>1
  <2> QED BY <2>1
<1>4. ASSUME NEW m \in all
      PROVE  /\ m.key \in done \union {k} /\ conf.endpoints[m.key].type = "ip"
             /\ m.order \in Nat /\ m.order <= last
             /\ \E i \in DOMAIN conf.endpoints[m.key].values :
                  m.covers = Covered(conf.endpoints[m.key].values[i])
  <2>1. CASE m \in rows
    BY <1>1, <2>1 DEF RowsSound
  <2>2. CASE m \in new
    <3>1. PICK i \in 1..Len(values) :
            /\ m.order = top + i /\ m.key = k /\ m.covers = Covered(values[i])
      BY <1>2, <2>2
    <3>2. m.order \in Nat /\ m.order <= last
      BY <1>1, <3>1
    <3> QED BY <1>1, <3>1, <3>2
  <2> QED BY <2>1, <2>2
<1>5. ASSUME NEW j \in done \union {k}, conf.endpoints[j].type = "ip",
             NEW i \in DOMAIN conf.endpoints[j].values
      PROVE  \E m \in all : m.key = j /\ m.covers = Covered(conf.endpoints[j].values[i])
  <2>1. CASE j = k
    BY <1>1, <1>3, <2>1, <1>5
  <2>2. CASE j # k
    BY <1>5, <2>2 DEF RowsSound
  <2> QED BY <2>1, <2>2
<1>6. ASSUME NEW m \in all, NEW n \in all, m.order <= n.order
      PROVE  m.key = n.key \/ Precedes(conf, m.key, n.key)
  <2>1. CASE m \in rows /\ n \in rows
    BY <1>6, <2>1 DEF RowsSound
  <2>2. CASE m \in rows /\ n \in new
    <3>1. m.key \in done
      BY <2>2 DEF RowsSound
    <3>2. n.key = k
      BY <1>2, <2>2
    <3> QED BY <3>1, <3>2
  <2>3. CASE m \in new /\ n \in rows
    <3>1. PICK i \in 1..Len(values) : m.order = top + i
      BY <1>2, <2>3
    <3>2. n.order \in Nat /\ n.order <= top
      BY <2>3 DEF RowsSound
    <3> QED BY <1>1, <1>6, <3>1, <3>2
  <2>4. CASE m \in new /\ n \in new
    BY <1>2, <2>4
  <2> QED BY <2>1, <2>2, <2>3, <2>4
<1> HIDE DEF all, last
<1>7. RowsSound(conf, all, done \union {k}, last)
  BY <1>1, <1>4, <1>5, <1>6 DEF RowsSound
<1> QED BY <1>7 DEF all, last

\* An endpoint of another type adds no row.
LEMMA RowsSame ==
  ASSUME NEW rows, NEW done, NEW top, NEW k, RowsSound(conf, rows, done, top),
         conf.endpoints[k].type # "ip"
  PROVE  RowsSound(conf, rows, done \union {k}, top)
BY DEF RowsSound

\* One more endpoint of a type of which the first is kept
\* (src/routing.go:285-294).
LEMMA FirstStep ==
  ASSUME NEW d, NEW type, NEW done, NEW k, k # None, FirstSound(d, type, done),
         \A j \in done : Precedes(conf, j, k)
  PROVE  /\ conf.endpoints[k].type = type =>
              FirstSound(IF d = None THEN k ELSE d, type, done \union {k})
         /\ conf.endpoints[k].type # type => FirstSound(d, type, done \union {k})
BY DEF FirstSound
----------------------------------------------------------------------------
(* What a request is matched with                                           *)

\* A value covers an address as the file says exactly if the index has it so
\* (src/routing.go:266-283).
LEMMA CoveredAsFiled ==
  ASSUME NEW value, NEW ip
  PROVE  Unmap(ip) \in Covered(value) <=>
           \E x \in value.ips : IF value.kind = "exact" THEN Unmap(x) = Unmap(ip)
                                ELSE x = Unmap(ip)
BY DEF Covered

\* Transports are compared as the file says (src/routing.go:300-306).
LEMMA UsableAsFiled ==
  ASSUME NEW k, NEW r
  PROVE  Usable(k, r) <=>
           normalizeTransport(conf.endpoints[k].transport) \in
             {"", normalizeTransport(r.transport)}
BY DEF Usable, endpointTransportMatches

\* The first user of the index among K is the first of the file.
LEMMA FirstUserSound ==
  ASSUME NEW done, UsersSound(index.users, done), NEW K, None \notin done
  PROVE  LET k == FirstUser(K)
             candidates == {j \in done \cap K : conf.endpoints[j].type = "user"}
         IN  /\ k = None => candidates = {}
             /\ k # None => /\ k \in candidates
                            /\ \A j \in candidates \ {k} : Precedes(conf, k, j)
<1> DEFINE users == index.users
           places == {i \in DOMAIN users : users[i] \in K}
           candidates == {j \in done \cap K : conf.endpoints[j].type = "user"}
<1>1. /\ DOMAIN users \subseteq Nat /\ \A i \in DOMAIN users : users[i] \in done
      /\ \A i \in DOMAIN users : conf.endpoints[users[i]].type = "user"
      /\ \A i, j \in DOMAIN users : i < j => Precedes(conf, users[i], users[j])
  BY DEF UsersSound
<1>2. \A j \in candidates : \E i \in places : users[i] = j
  BY DEF UsersSound
<1>3. CASE places = {}
  <2>1. FirstUser(K) = None
    BY <1>3 DEF FirstUser
  <2> QED BY <1>2, <1>3, <2>1
<1>4. CASE places # {}
  <2> DEFINE i == LeastOf(places)
  <2>1. places \in SUBSET Nat
    BY <1>1
  <2>2. i \in places /\ \A j \in places : i <= j
    <3> HIDE DEF places
    <3>1. \E x \in places : \A y \in places : x <= y
      BY <1>4, <2>1, LeastNatExists
    <3> QED BY <3>1 DEF LeastOf
  <2>3. FirstUser(K) = users[i]
    BY <1>4 DEF FirstUser
  <2> HIDE DEF i
  <2>4. users[i] \in candidates
    BY <1>1, <2>2
  <2>5. ASSUME NEW j \in candidates \ {users[i]} PROVE Precedes(conf, users[i], j)
    <3>1. PICK p \in places : users[p] = j
      BY <1>2
    <3>2. i < p
      BY <1>1, <2>2, <3>1, <2>5
    <3> QED BY <1>1, <2>2, <3>1, <3>2
  <2>6. users[i] # None
    BY <2>4
  <2> QED BY <2>3, <2>4, <2>5, <2>6
<1> QED BY <1>3, <1>4

\* The earliest of the rows that cover the address is of the first endpoint of
\* the file that covers it (src/routing.go:226-248).
LEMMA MatchIPSound ==
  ASSUME NEW done, RowsSound(conf, index.exact \union index.cidrs, done, index.valueOrder),
         None \notin done, NEW r
  PROVE  LET k == matchIP(r)
             candidates == {j \in done : /\ conf.endpoints[j].type = "ip"
                                         /\ Usable(j, r) /\ CoversSource(j, r)}
         IN  /\ k = None => candidates = {}
             /\ k # None => /\ k \in candidates
                            /\ \A j \in candidates \ {k} : Precedes(conf, k, j)
<1> DEFINE rows == index.exact \union index.cidrs
           hits == Hits(rows, r)
           candidates == {j \in done : /\ conf.endpoints[j].type = "ip"
                                       /\ Usable(j, r) /\ CoversSource(j, r)}
<1>1. ASSUME NEW j \in done, conf.endpoints[j].type = "ip"
      PROVE  CoversSource(j, r) <=>
               \E i \in DOMAIN conf.endpoints[j].values :
                 Unmap(r.source) \in Covered(conf.endpoints[j].values[i])
  BY CoveredAsFiled DEF CoversSource
<1>2. ASSUME NEW m \in hits PROVE m \in rows /\ m.key \in candidates
  <2>1. m \in rows /\ Unmap(r.source) \in m.covers /\ Usable(m.key, r)
    BY DEF Hits
  <2>2. m.key \in done /\ conf.endpoints[m.key].type = "ip"
    BY <2>1 DEF RowsSound
  <2>3. \E i \in DOMAIN conf.endpoints[m.key].values :
          m.covers = Covered(conf.endpoints[m.key].values[i])
    BY <2>1 DEF RowsSound
  <2>4. CoversSource(m.key, r)
    BY <1>1, <2>1, <2>2, <2>3
  <2> QED BY <2>1, <2>2, <2>4
<1>3. ASSUME NEW j \in candidates PROVE \E m \in hits : m.key = j
  <2>1. PICK i \in DOMAIN conf.endpoints[j].values :
          Unmap(r.source) \in Covered(conf.endpoints[j].values[i])
    BY <1>1
  <2>2. PICK m \in rows : m.key = j /\ m.covers = Covered(conf.endpoints[j].values[i])
    BY DEF RowsSound
  <2> QED BY <2>1, <2>2 DEF Hits
<1>4. CASE hits = {}
  <2>1. matchIP(r) = None
    BY <1>4 DEF matchIP, Earliest
  <2> QED BY <1>3, <1>4, <2>1
<1>5. CASE hits # {}
  <2> DEFINE orders == {m.order : m \in hits}
             first == CHOOSE m \in hits : \A n \in hits : m.order <= n.order
  <2>1. orders \in SUBSET Nat /\ orders # {}
    <3>1. \A m \in hits : m.order \in Nat
      BY <1>2 DEF RowsSound
    <3> HIDE DEF hits
    <3> QED BY <1>5, <3>1
  <2>2. \E x \in orders : \A y \in orders : x <= y
    <3> HIDE DEF orders
    <3> QED BY <2>1, LeastNatExists
  <2>3. first \in hits /\ \A n \in hits : first.order <= n.order
    BY <2>2
  <2>4. matchIP(r) = first.key
    BY <1>5 DEF matchIP, Earliest
  <2> HIDE DEF first, hits
  <2>5. first.key \in candidates /\ first \in rows
    BY <1>2, <2>3
  <2>6. ASSUME NEW j \in candidates \ {first.key} PROVE Precedes(conf, first.key, j)
    <3>1. PICK m \in hits : m.key = j
      BY <1>3
    <3>2. m \in rows /\ first.order <= m.order
      BY <1>2, <2>3
    <3> QED BY <2>5, <2>6, <3>1, <3>2 DEF RowsSound
  <2>7. first.key # None
    BY <2>5
  <2> QED BY <2>4, <2>5, <2>6, <2>7
<1> QED BY <1>4, <1>5

\* Of a type of which the index keeps the first, that one alone may be the
\* source of a call (src/routing.go:285-294).
LEMMA OnlyFirstKept ==
  ASSUME IsConfig(conf), NEW d, NEW type, FirstSound(d, type, DOMAIN conf.endpoints)
  PROVE  \A k \in DOMAIN conf.endpoints :
           conf.endpoints[k].type = type => (OnlyFirst(k) <=> k = d)
<1> SUFFICES ASSUME NEW k \in DOMAIN conf.endpoints, conf.endpoints[k].type = type
             PROVE  OnlyFirst(k) <=> k = d
  OBVIOUS
<1>1. d # None /\ d \in DOMAIN conf.endpoints /\ conf.endpoints[d].type = type
  BY DEF FirstSound
<1>2. k \in Nat /\ d \in Nat
  BY <1>1 DEF IsConfig
<1>3. OnlyFirst(d)
  BY <1>1 DEF FirstSound, OnlyFirst
<1>4. ASSUME OnlyFirst(k), k # d PROVE FALSE
  <2>1. Precedes(conf, k, d)
    BY <1>1, <1>4 DEF OnlyFirst
  <2>2. Precedes(conf, d, k)
    BY <1>1, <1>4 DEF FirstSound
  <2> QED BY <1>2, <2>1, <2>2, PrecedesAsymmetric
<1> QED BY <1>3, <1>4

\* With an index that is complete, the endpoint a request is matched with has
\* precedence over every other that may be its source
\* (src/routing.go:48-94).
LEMMA MatchedHasPrecedence ==
  ASSUME IsConfig(conf), Indices(index, DOMAIN conf.endpoints), index.built, NEW r
  PROVE  /\ HasPrecedence(MatchedEndpoint(r), r)
         /\ MatchedEndpoint(r) \in DOMAIN conf.endpoints \union {None}
<1> DEFINE D == DOMAIN conf.endpoints
           Type(k) == conf.endpoints[k].type
           S == Sources(r)
           K == {k \in UsersNamed(r.from) : Usable(k, r)}
           user == FirstUser(K)
           ip == matchIP(r)
           dynamic == index.dynamicUser
           default == index.defaultEnd
           Taken(k) == k # None /\ Usable(k, r)
<1>1. None \notin D
  BY DEF IsConfig
<1>2. \A k \in D : k \in S <=>
        /\ Usable(k, r)
        /\ \/ Type(k) = "user" /\ conf.endpoints[k].name = r.from
           \/ Type(k) = "ip" /\ CoversSource(k, r)
           \/ Type(k) = "user_dynamic" /\ r.from # Unset /\ OnlyFirst(k)
           \/ Type(k) = "" /\ OnlyFirst(k)
  BY UsableAsFiled DEF Sources, MayBeFrom
<1>3. S \subseteq D
  BY DEF Sources
<1>4. /\ user = None => ~\E k \in S : Type(k) = "user"
      /\ user # None => /\ user \in S /\ Type(user) = "user"
                        /\ \A k \in S \ {user} : Type(k) = "user" => Precedes(conf, user, k)
  <2> DEFINE candidates == {j \in D \cap K : Type(j) = "user"}
  <2>1. /\ user = None => candidates = {}
        /\ user # None => /\ user \in candidates
                          /\ \A j \in candidates \ {user} : Precedes(conf, user, j)
    <3> HIDE DEF K
    <3> QED BY <1>1, FirstUserSound DEF Indices
  <2>2. \A k \in D : k \in candidates <=> k \in S /\ Type(k) = "user"
    BY <1>2 DEF UsersNamed
  <2> HIDE DEF candidates, S, user
  <2> QED BY <1>3, <2>1, <2>2 DEF candidates
<1>5. /\ ip = None => ~\E k \in S : Type(k) = "ip"
      /\ ip # None => /\ ip \in S /\ Type(ip) = "ip"
                      /\ \A k \in S \ {ip} : Type(k) = "ip" => Precedes(conf, ip, k)
  <2> DEFINE candidates == {j \in D : /\ conf.endpoints[j].type = "ip"
                                      /\ Usable(j, r) /\ CoversSource(j, r)}
  <2>1. /\ ip = None => candidates = {}
        /\ ip # None => /\ ip \in candidates
                        /\ \A j \in candidates \ {ip} : Precedes(conf, ip, j)
    BY <1>1, MatchIPSound DEF Indices
  <2>2. \A k \in D : k \in candidates <=> k \in S /\ Type(k) = "ip"
    BY <1>2
  <2> HIDE DEF candidates, S, ip
  <2> QED BY <1>3, <2>1, <2>2 DEF candidates
<1>6. /\ \A k \in D : Type(k) = "user_dynamic" => (OnlyFirst(k) <=> k = dynamic)
      /\ \A k \in D : Type(k) = "" => (OnlyFirst(k) <=> k = default)
      /\ dynamic # None => dynamic \in D /\ Type(dynamic) = "user_dynamic"
      /\ default # None => default \in D /\ Type(default) = ""
  <2>1. /\ FirstSound(dynamic, "user_dynamic", D)
        /\ FirstSound(default, "", D)
    BY DEF Indices
  <2> QED BY <2>1, OnlyFirstKept DEF FirstSound
<1>7. /\ \A k \in S : Type(k) = "user_dynamic" => k = dynamic /\ r.from # Unset /\ Taken(k)
      /\ r.from # Unset /\ Taken(dynamic) => dynamic \in S /\ Type(dynamic) = "user_dynamic"
  BY <1>1, <1>2, <1>3, <1>6
<1>8. /\ \A k \in S : Type(k) = "" => k = default /\ Taken(k)
      /\ Taken(default) => default \in S /\ Type(default) = ""
  BY <1>1, <1>2, <1>3, <1>6
<1>9. \A k \in S : Type(k) \in {"user", "ip", "user_dynamic", ""}
  BY <1>2, <1>3
<1>10. \A k : Class(k) = (CASE Type(k) = "user" -> 1 [] Type(k) = "ip" -> 2
                            [] Type(k) = "user_dynamic" -> 3 [] OTHER -> 4)
  BY DEF Class
<1>11. MatchedEndpoint(r) =
         (CASE user # None -> user
            [] user = None /\ ip # None -> ip
            [] user = None /\ ip = None /\ r.from # Unset /\ Taken(dynamic) -> dynamic
            [] OTHER -> IF Taken(default) THEN default ELSE None)
  BY DEF MatchedEndpoint
<1> DEFINE f == MatchedEndpoint(r)
<1> HIDE DEF S, user, ip, dynamic, default, Type, f, Taken
<1> DEFINE Better(k) == \/ Class(f) < Class(k)
                        \/ Class(f) = Class(k) /\ Precedes(conf, f, k)
<1>12. /\ f = None /\ S = {} => HasPrecedence(f, r)
       /\ /\ f # None /\ f \in S
          /\ \A k \in S \ {f} : Better(k)
          => HasPrecedence(f, r)
  <2>1. S = Sources(r)
    BY DEF S
  <2> QED BY <2>1 DEF HasPrecedence
<1> HIDE DEF Better
<1> SUFFICES HasPrecedence(f, r) /\ f \in D \union {None}
  BY DEF f
<1>13. CASE user # None
  <2>1. f = user
    BY <1>11, <1>13 DEF f
  <2>2. Class(f) = 1 /\ f \in S
    BY <1>4, <1>10, <1>13, <2>1
  <2>3. \A k \in S \ {f} : Type(k) = "user" => Class(k) = 1 /\ Precedes(conf, f, k)
    BY <1>4, <1>10, <1>13, <2>1
  <2>4. \A k \in S : Type(k) # "user" => Class(k) \in {2, 3, 4}
    BY <1>10
  <2>5. ASSUME NEW k \in S \ {f}
        PROVE  Better(k)
    <3>1. CASE Type(k) = "user"
      BY <2>2, <2>3, <3>1 DEF Better
    <3>2. CASE Type(k) # "user"
      <4>1. Class(k) \in {2, 3, 4}
        BY <2>4, <3>2
      <4> QED BY <2>2, <4>1 DEF Better
    <3> QED BY <3>1, <3>2
  <2> QED BY <1>3, <1>12, <1>13, <2>1, <2>2, <2>5
<1>14. CASE user = None /\ ip # None
  <2>1. f = ip
    BY <1>11, <1>14 DEF f
  <2>2. Class(f) = 2 /\ f \in S
    BY <1>5, <1>10, <1>14, <2>1
  <2>3. \A k \in S \ {f} : Type(k) = "ip" => Class(k) = 2 /\ Precedes(conf, f, k)
    BY <1>5, <1>10, <1>14, <2>1
  <2>4. \A k \in S : Type(k) # "ip" => Class(k) \in {3, 4}
    BY <1>4, <1>10, <1>14
  <2>5. ASSUME NEW k \in S \ {f}
        PROVE  Better(k)
    <3>1. CASE Type(k) = "ip"
      BY <2>2, <2>3, <3>1 DEF Better
    <3>2. CASE Type(k) # "ip"
      <4>1. Class(k) \in {3, 4}
        BY <2>4, <3>2
      <4> QED BY <2>2, <4>1 DEF Better
    <3> QED BY <3>1, <3>2
  <2> QED BY <1>3, <1>12, <1>14, <2>1, <2>2, <2>5
<1>15. CASE user = None /\ ip = None /\ r.from # Unset /\ Taken(dynamic)
  <2>1. f = dynamic /\ f # None
    BY <1>11, <1>15 DEF f, Taken
  <2>2. Class(f) = 3 /\ f \in S
    BY <1>7, <1>10, <1>15, <2>1
  <2>3. \A k \in S \ {f} : Type(k) = ""
    BY <1>4, <1>5, <1>7, <1>9, <1>15, <2>1
  <2>4. \A k \in S \ {f} : Class(k) = 4
    BY <1>10, <2>3
  <2>5. \A k \in S \ {f} : Better(k)
    BY <2>2, <2>4 DEF Better
  <2> QED BY <1>3, <1>12, <2>1, <2>2, <2>5
<1>16. CASE /\ user = None /\ ip = None /\ ~(r.from # Unset /\ Taken(dynamic))
            /\ Taken(default)
  <2>1. f = default /\ f # None
    BY <1>11, <1>16 DEF f, Taken
  <2>2. f \in S
    BY <1>8, <1>16, <2>1
  <2>3. \A k \in S : k = f
    BY <1>4, <1>5, <1>7, <1>8, <1>9, <1>16, <2>1
  <2> QED BY <1>3, <1>12, <2>1, <2>2, <2>3
<1>17. CASE /\ user = None /\ ip = None /\ ~(r.from # Unset /\ Taken(dynamic))
            /\ ~Taken(default)
  <2>1. f = None
    BY <1>11, <1>17 DEF f
  <2>2. S = {}
    BY <1>4, <1>5, <1>7, <1>8, <1>9, <1>17
  <2> QED BY <1>12, <2>1, <2>2
<1> QED BY <1>13, <1>14, <1>15, <1>16, <1>17
----------------------------------------------------------------------------
(* The inductive invariant                                                  *)

IndexAgrees == Indices(index, Done) /\ InOrder

\* While it is built, the index agrees with the part of the file passed over;
\* once it is built, with the file.
IndexSound ==
  /\ pc = "load" => index = EmptyIndex
  /\ pc = "index" \/ index.built => IndexAgrees
  /\ index.built => todo = {} /\ pc \notin {"load", "index"}
  /\ pc \in {"route", "dial", "ring"} => index.built

\* Before any call is served.
Idle == pc \in {"load", "index", "validate"} =>
          /\ ~valid /\ req = NoRequest /\ from = None /\ route = NoRoute
          /\ target = <<"none", Unset>> /\ tried = 0

Judged == pc \in {"serve", "route", "dial", "ring"} => valid = ValidConfig(conf)

\* What is dialled is an entry of a route of the file, and not dialled yet.
RouteTaken == pc = "dial" => /\ ~route.hangup
                             /\ \E id \in DOMAIN conf.routes :
                                  \E i \in DOMAIN conf.routes[id] : route = conf.routes[id][i]

NotDialled == pc \in {"route", "dial"} => target = <<"none", Unset>> /\ tried = 0

IInv == /\ TypeOK /\ IndexSound /\ Idle /\ Judged /\ SourceHasPrecedence
        /\ RouteTaken /\ NotDialled /\ RegistryDialsTheCallee

\* What no step of serving touches (src/config.go:134-204).
LEMMA IndexKept ==
  ASSUME IndexAgrees, UNCHANGED <<conf, index, todo>>
  PROVE  IndexAgrees'
<1>1. Done' = Done
  BY DEF Done
<1>2. UsersSound(index.users, Done)'
  BY <1>1 DEF IndexAgrees, Indices, UsersSound
<1>3. RowsSound(conf, index.exact \union index.cidrs, Done, index.valueOrder)'
  BY <1>1 DEF IndexAgrees, Indices
<1>4. FirstSound(index.dynamicUser, "user_dynamic", Done)'
  BY <1>1 DEF IndexAgrees, Indices, FirstSound
<1>5. FirstSound(index.defaultEnd, "", Done)'
  BY <1>1 DEF IndexAgrees, Indices, FirstSound
<1>6. InOrder'
  BY <1>1 DEF IndexAgrees, InOrder
<1> QED BY <1>2, <1>3, <1>4, <1>5, <1>6 DEF IndexAgrees, Indices

\* A call that is being served keeps its endpoint (src/pbx.go:417-440).
LEMMA PrecedenceKept ==
  ASSUME SourceHasPrecedence, UNCHANGED <<conf, index, req, from>>
  PROVE  SourceHasPrecedence'
<1>1. \A k : OnlyFirst(k)' <=> OnlyFirst(k)
  BY DEF OnlyFirst, Precedes, Listed
<1>2. \A k : CoversSource(k, req)' <=> CoversSource(k, req)
  BY DEF CoversSource, Unmap
<1>3. \A k : MayBeFrom(k, req)' <=> MayBeFrom(k, req)
  BY <1>1, <1>2 DEF MayBeFrom, normalizeTransport
<1>4. Sources(req)' = Sources(req)
  BY <1>3 DEF Sources
<1>5. \A k : Class(k)' = Class(k)
  BY DEF Class
<1>6. HasPrecedence(from, req)' <=> HasPrecedence(from, req)
  BY <1>4, <1>5 DEF HasPrecedence, Precedes, Listed
<1> QED BY <1>6 DEF SourceHasPrecedence

\* An empty route and an empty name are typed (src/config.go:86-97).
LEMMA NoRequestTyped == /\ NoRoute \in ConfigRoute /\ Unset \in Text
                        /\ NoRoute.fallback = <<>> /\ Len(<<>>) = 0
                        /\ <<"none", Unset>> \in Kinds \X Text
<1>1. <<>> \in Seq(Nat) /\ Len(<<>>) = 0
  OBVIOUS
<1> QED BY <1>1 DEF NoRoute, ConfigRoute, Unset, Text, None, Kinds

\* Nothing is loaded at the start (src/config.go:118-127).
LEMMA Initially == Init => IInv
<1> SUFFICES ASSUME Init PROVE IInv
  OBVIOUS
<1>1. IsConfig(conf)
  BY ConfigsAssumption DEF Init
<1>2. TypeOK
  <2>1. index \in [built : BOOLEAN, users : Seq(Nat), exact : SUBSET IndexRow,
                   cidrs : SUBSET IndexRow, dynamicUser : Nat, defaultEnd : Nat,
                   valueOrder : Nat]
    BY DEF Init, EmptyIndex, None
  <2>2. target \in Kinds \X Text
    BY NoRequestTyped DEF Init
  <2>3. tried \in 0..Len(route.fallback)
    BY NoRequestTyped DEF Init
  <2> QED BY <1>1, <2>1, <2>2, <2>3, NoRequestTyped DEF Init, TypeOK
<1>3. IndexSound
  BY DEF Init, IndexSound, EmptyIndex
<1>4. Idle /\ Judged /\ RouteTaken /\ NotDialled
  BY DEF Init, Idle, Judged, RouteTaken, NotDialled
<1>5. SourceHasPrecedence /\ RegistryDialsTheCallee
  BY DEF Init, SourceHasPrecedence, RegistryDialsTheCallee, HasEndpoint,
        UsersNamed, NoRoute
<1> QED BY <1>2, <1>3, <1>4, <1>5 DEF IInv

\* Filling in the blanks keeps a configuration one, with the same endpoints
\* (src/config.go:145-195).
LEMMA FilledSound ==
  ASSUME NEW c, IsConfig(c), NEW filled
  PROVE  IsConfig(Filled(c, filled)) /\ DOMAIN Filled(c, filled).endpoints = DOMAIN c.endpoints
<1> DEFINE d == Filled(c, filled)
<1>1. /\ d = [endpoints |-> d.endpoints, order |-> d.order, routes |-> d.routes]
      /\ d.order = c.order
      /\ d.routes = IF "default" \in DOMAIN c.routes THEN c.routes
                    ELSE [r \in DOMAIN c.routes \union {"default"} |->
                            IF r = "default" THEN DefaultRoute ELSE c.routes[r]]
      /\ d.endpoints = [k \in DOMAIN c.endpoints |->
            IF k \notin filled THEN c.endpoints[k]
            ELSE [c.endpoints[k] EXCEPT !.name = IF @ = Unset THEN <<k>> ELSE @,
                                        !.route = IF @ = "" THEN "default" ELSE @]]
  BY DEF Filled
<1>2. ASSUME NEW k \in DOMAIN c.endpoints PROVE d.endpoints[k] \in ConfigEndpoint
  <2>1. c.endpoints[k] \in ConfigEndpoint /\ k \in Nat /\ <<k>> \in Text
    BY DEF IsConfig, Text
  <2> HIDE DEF d
  <2>2. CASE k \notin filled
    BY <1>1, <2>1, <2>2
  <2>3. CASE k \in filled
    <3> DEFINE name == IF c.endpoints[k].name = Unset THEN <<k>> ELSE c.endpoints[k].name
               way == IF c.endpoints[k].route = "" THEN "default" ELSE c.endpoints[k].route
    <3>1. d.endpoints[k] = [c.endpoints[k] EXCEPT !.name = name, !.route = way]
      BY <1>1, <2>3
    <3>2. name \in Text /\ way \in RouteIDs
      BY <2>1, RouteIDsAssumption DEF ConfigEndpoint
    <3> HIDE DEF name, way
    <3> QED BY <2>1, <3>1, <3>2 DEF ConfigEndpoint
  <2> QED BY <2>2, <2>3
<1>3. DefaultRoute \in Seq(ConfigRoute)
  <2>1. [NoRoute EXCEPT !.match = "any", !.useRegistry = TRUE] \in ConfigRoute
    BY NoRequestTyped DEF NoRoute, ConfigRoute
  <2> QED BY <2>1 DEF DefaultRoute
<1> HIDE DEF d
<1>4. \A id \in DOMAIN d.routes : d.routes[id] \in Seq(ConfigRoute)
  <2>1. CASE "default" \in DOMAIN c.routes
    BY <1>1, <2>1 DEF IsConfig
  <2>2. CASE "default" \notin DOMAIN c.routes
    <3>1. /\ DOMAIN d.routes = DOMAIN c.routes \union {"default"}
          /\ d.routes["default"] = DefaultRoute
          /\ \A id \in DOMAIN c.routes : d.routes[id] = c.routes[id]
      BY <1>1, <2>2
    <3> QED BY <1>3, <3>1 DEF IsConfig
  <2> QED BY <2>1, <2>2
<1> QED BY <1>1, <1>2, <1>4 DEF IsConfig, d

\* Loading starts the pass over the endpoints (src/config.go:134-204).
LEMMA LoadStep == IInv /\ ConfigLoad => IInv'
<1> SUFFICES ASSUME IInv, ConfigLoad PROVE IInv'
  OBVIOUS
<1>1. PICK filled : conf' = Filled(conf, filled)
  BY DEF ConfigLoad
<1>2. IsConfig(conf') /\ DOMAIN conf'.endpoints = DOMAIN conf.endpoints
  BY <1>1, FilledSound DEF IInv, TypeOK
<1>3. /\ pc = "load" /\ pc' = "index" /\ todo' = DOMAIN conf'.endpoints
      /\ UNCHANGED <<index, valid, req, from, route, target, tried>>
      /\ index = EmptyIndex
  BY <1>2 DEF IInv, IndexSound, ConfigLoad
<1>4. TypeOK'
  BY <1>2, <1>3 DEF IInv, TypeOK
<1>5. IndexSound'
  <2>1. Done' = {}
    BY <1>3 DEF Done
  <2>2. InOrder'
    BY <2>1 DEF InOrder
  <2>3. Indices(index, Done)'
    <3>1. UsersSound(index.users, Done)'
      BY <1>3, <2>1 DEF UsersSound, EmptyIndex
    <3>2. RowsSound(conf, index.exact \union index.cidrs, Done, index.valueOrder)'
      BY <1>3, <2>1 DEF RowsSound, EmptyIndex
    <3>3. FirstSound(index.dynamicUser, "user_dynamic", Done)'
      BY <1>3, <2>1 DEF FirstSound, EmptyIndex
    <3>4. FirstSound(index.defaultEnd, "", Done)'
      BY <1>3, <2>1 DEF FirstSound, EmptyIndex
    <3> QED BY <3>1, <3>2, <3>3, <3>4 DEF Indices
  <2> QED BY <1>3, <2>2, <2>3 DEF IndexSound, IndexAgrees, EmptyIndex
<1>6. Idle' /\ Judged' /\ RouteTaken' /\ NotDialled'
  BY <1>3 DEF IInv, Idle, Judged, RouteTaken, NotDialled
<1>7. SourceHasPrecedence' /\ RegistryDialsTheCallee'
  <2>1. req' = NoRequest /\ ~route'.useRegistry
    <3>1. req = NoRequest /\ route = NoRoute
      BY <1>3 DEF IInv, Idle
    <3>2. ~NoRoute.useRegistry
      BY DEF NoRoute
    <3> QED BY <1>3, <3>1, <3>2
  <2>2. SourceHasPrecedence'
    BY <2>1 DEF SourceHasPrecedence
  <2> QED BY <2>1, <2>2 DEF RegistryDialsTheCallee
<1> QED BY <1>4, <1>5, <1>6, <1>7 DEF IInv

\* Indexing one more endpoint (src/routing.go:258-297).
LEMMA IndexedSound ==
  ASSUME TypeOK, NEW done, Indices(index, done), NEW k \in DOMAIN conf.endpoints,
         k \notin done, \A j \in done : Precedes(conf, j, k), ~Malformed(conf.endpoints[k])
  PROVE  Indices(Indexed(index, k, conf.endpoints[k]), done \union {k})
<1> DEFINE e == conf.endpoints[k]
           idx == Indexed(index, k, e)
           more == done \union {k}
           rows == index.exact \union index.cidrs
<1>1. e \in ConfigEndpoint /\ k # None
  BY DEF TypeOK, IsConfig
<1>2. /\ e.type = "user" => UsersSound(Append(index.users, k), more)
      /\ e.type # "user" => UsersSound(index.users, more)
  BY UsersStep DEF Indices
<1>3. e.type # "ip" => RowsSound(conf, rows, more, index.valueOrder)
  BY RowsSame DEF Indices
<1>4. /\ e.type = "user_dynamic" =>
            FirstSound(IF index.dynamicUser = None THEN k ELSE index.dynamicUser,
                       "user_dynamic", more)
      /\ e.type # "user_dynamic" => FirstSound(index.dynamicUser, "user_dynamic", more)
  BY <1>1, FirstStep DEF Indices
<1>5. /\ e.type = "" =>
            FirstSound(IF index.defaultEnd = None THEN k ELSE index.defaultEnd, "", more)
      /\ e.type # "" => FirstSound(index.defaultEnd, "", more)
  BY <1>1, FirstStep DEF Indices
<1>6. CASE e.type = "user"
  <2>1. idx = [index EXCEPT !.users = Append(@, k)]
    BY <1>6 DEF Indexed
  <2>2. /\ idx.users = Append(index.users, k) /\ idx.exact = index.exact
        /\ idx.cidrs = index.cidrs /\ idx.valueOrder = index.valueOrder
        /\ idx.dynamicUser = index.dynamicUser /\ idx.defaultEnd = index.defaultEnd
    BY <2>1 DEF TypeOK
  <2> QED BY <1>2, <1>3, <1>4, <1>5, <1>6, <2>2 DEF Indices
<1>7. CASE e.type = "ip"
  <2> DEFINE Row(i) == [order |-> index.valueOrder + i, key |-> k, covers |-> Covered(e.values[i])]
             Rows(kind) == {Row(i) : i \in {j \in DOMAIN e.values : e.values[j].kind = kind}}
             new == {Row(i) : i \in DOMAIN e.values}
  <2>1. idx = [index EXCEPT !.exact = @ \union Rows("exact"), !.cidrs = @ \union Rows("cidr"),
                            !.valueOrder = @ + Len(e.values)]
    BY <1>7 DEF Indexed, IndexValues
  <2>2. /\ idx.users = index.users /\ idx.exact = index.exact \union Rows("exact")
        /\ idx.cidrs = index.cidrs \union Rows("cidr")
        /\ idx.valueOrder = index.valueOrder + Len(e.values)
        /\ idx.dynamicUser = index.dynamicUser /\ idx.defaultEnd = index.defaultEnd
    <3> HIDE DEF Rows
    <3> QED BY <2>1 DEF TypeOK
  <2>3. \A i \in DOMAIN e.values : e.values[i].kind \in {"exact", "cidr"}
    <3>1. \A i \in DOMAIN e.values : e.values[i] \in Values
      <4>1. e.values \in Seq(Values)
        BY <1>1 DEF ConfigEndpoint
      <4> QED BY <4>1
    <3>2. \A i \in DOMAIN e.values : e.values[i].kind # "invalid"
      BY <1>7 DEF Malformed
    <3> QED BY <3>1, <3>2 DEF Values
  <2>4. new = Rows("exact") \union Rows("cidr")
    BY <2>3
  <2>5. idx.exact \union idx.cidrs = rows \union new
    <3> HIDE DEF Rows, new
    <3> QED BY <2>2, <2>4
  <2>6. e.values \in Seq(Values)
    BY <1>1 DEF ConfigEndpoint
  <2>7. RowsSound(conf, rows \union new, more, index.valueOrder + Len(e.values))
    BY <1>7, <2>6, RowsStep DEF Indices
  <2> HIDE DEF new, Rows, idx
  <2>8. Indices(idx, more)
    BY <1>2, <1>4, <1>5, <1>7, <2>2, <2>5, <2>7 DEF Indices
  <2> QED BY <2>8 DEF idx
<1>8. CASE e.type = "user_dynamic"
  <2>1. idx = [index EXCEPT !.dynamicUser = IF @ = None THEN k ELSE @]
    BY <1>8 DEF Indexed
  <2>2. /\ idx.users = index.users /\ idx.exact = index.exact
        /\ idx.cidrs = index.cidrs /\ idx.valueOrder = index.valueOrder
        /\ idx.dynamicUser = (IF index.dynamicUser = None THEN k ELSE index.dynamicUser)
        /\ idx.defaultEnd = index.defaultEnd
    BY <2>1 DEF TypeOK
  <2> QED BY <1>2, <1>3, <1>4, <1>5, <1>8, <2>2 DEF Indices
<1>9. CASE e.type = ""
  <2>1. idx = [index EXCEPT !.defaultEnd = IF @ = None THEN k ELSE @]
    BY <1>9 DEF Indexed
  <2>2. /\ idx.users = index.users /\ idx.exact = index.exact
        /\ idx.cidrs = index.cidrs /\ idx.valueOrder = index.valueOrder
        /\ idx.dynamicUser = index.dynamicUser
        /\ idx.defaultEnd = (IF index.defaultEnd = None THEN k ELSE index.defaultEnd)
    BY <2>1 DEF TypeOK
  <2> QED BY <1>2, <1>3, <1>4, <1>5, <1>9, <2>2 DEF Indices
<1>10. CASE e.type = "flow"
  <2>1. idx = index
    BY <1>10 DEF Indexed
  <2> QED BY <1>2, <1>3, <1>4, <1>5, <1>10, <2>1 DEF Indices
<1> QED BY <1>1, <1>6, <1>7, <1>8, <1>9, <1>10 DEF ConfigEndpoint

\* The types of the tables (src/routing.go:20-40).
LEMMA IndexedTyped ==
  ASSUME TypeOK, NEW k \in DOMAIN conf.endpoints
  PROVE  Indexed(index, k, conf.endpoints[k]) \in
           [built : BOOLEAN, users : Seq(Nat), exact : SUBSET IndexRow,
            cidrs : SUBSET IndexRow, dynamicUser : Nat, defaultEnd : Nat, valueOrder : Nat]
<1> DEFINE e == conf.endpoints[k]
<1>1. e \in ConfigEndpoint /\ k \in Nat
  BY DEF TypeOK, IsConfig
<1>2. CASE e.type = "ip"
  <2> DEFINE Row(i) == [order |-> index.valueOrder + i, key |-> k, covers |-> Covered(e.values[i])]
             Rows(kind) == {Row(i) : i \in {j \in DOMAIN e.values : e.values[j].kind = kind}}
  <2>1. /\ Len(e.values) \in Nat /\ DOMAIN e.values \subseteq Nat
        /\ \A i \in DOMAIN e.values : e.values[i] \in Values
    <3>1. e.values \in Seq(Values)
      BY <1>1 DEF ConfigEndpoint
    <3> QED BY <3>1
  <2>2. \A ip \in Addresses : Unmap(ip) \in Addresses
    BY DEF Addresses, Unmap
  <2>3. ASSUME NEW i \in DOMAIN e.values PROVE Row(i) \in IndexRow
    <3>1. e.values[i].ips \subseteq Addresses
      BY <2>1 DEF Values
    <3>2. Covered(e.values[i]) \subseteq Addresses
      BY <2>2, <3>1 DEF Covered
    <3>3. index.valueOrder + i \in Nat
      BY <2>1 DEF TypeOK
    <3> QED BY <1>1, <3>2, <3>3 DEF IndexRow
  <2>4. Rows("exact") \subseteq IndexRow /\ Rows("cidr") \subseteq IndexRow
    <3> HIDE DEF Row
    <3> QED BY <2>3
  <2>5. Indexed(index, k, e) =
          [index EXCEPT !.exact = @ \union Rows("exact"), !.cidrs = @ \union Rows("cidr"),
                        !.valueOrder = @ + Len(e.values)]
    BY <1>2 DEF Indexed, IndexValues
  <2> HIDE DEF Rows
  <2>6. /\ index.exact \union Rows("exact") \in SUBSET IndexRow
        /\ index.cidrs \union Rows("cidr") \in SUBSET IndexRow
        /\ index.valueOrder + Len(e.values) \in Nat
    <3>1. index.exact \subseteq IndexRow /\ index.cidrs \subseteq IndexRow
          /\ index.valueOrder \in Nat
      BY DEF TypeOK
    <3> QED BY <2>1, <2>4, <3>1
  <2> QED BY <2>5, <2>6 DEF TypeOK
<1>3. CASE e.type # "ip"
  <2>1. Append(index.users, k) \in Seq(Nat)
    BY <1>1 DEF TypeOK
  <2> QED BY <1>1, <1>3, <2>1 DEF TypeOK, Indexed, ConfigEndpoint
<1> QED BY <1>2, <1>3
\* One pass of the loop over the endpoints: the next one is indexed, or there
\* will be no index (src/routing.go:250-297).
LEMMA IndexStep == IInv /\ IndexEndpoint => IInv'
<1> SUFFICES ASSUME IInv, IndexEndpoint PROVE IInv'
  OBVIOUS
<1> DEFINE k == FirstInFile(conf, todo)
<1>1. /\ TypeOK /\ pc = "index" /\ todo # {} /\ IndexAgrees
      /\ UNCHANGED <<conf, valid, req, from, route, target, tried>>
  BY DEF IInv, IndexSound, IndexEndpoint
<1>2. todo \in SUBSET Nat
  BY <1>1 DEF TypeOK, IsConfig
<1>3. k \in todo /\ \A j \in todo \ {k} : Precedes(conf, k, j)
  BY <1>1, <1>2, FirstExists DEF TypeOK
<1>4. k \in DOMAIN conf.endpoints /\ k \notin Done
  BY <1>1, <1>3 DEF TypeOK, Done
<1> HIDE DEF k
<1>5. CASE Malformed(conf.endpoints[k])
  <2>1. index' = EmptyIndex /\ todo' = {} /\ pc' = "validate"
    BY <1>5 DEF IndexEndpoint, k
  <2>2. TypeOK'
    <3>1. EmptyIndex \in [built : BOOLEAN, users : Seq(Nat), exact : SUBSET IndexRow,
                          cidrs : SUBSET IndexRow, dynamicUser : Nat, defaultEnd : Nat,
                          valueOrder : Nat]
      BY DEF EmptyIndex, None
    <3> QED BY <1>1, <2>1, <3>1 DEF TypeOK
  <2>3. IndexSound'
    BY <2>1 DEF IndexSound, EmptyIndex
  <2>4. Idle' /\ Judged' /\ RouteTaken' /\ NotDialled'
    BY <1>1, <2>1 DEF IInv, Idle, Judged, RouteTaken, NotDialled
  <2>5. SourceHasPrecedence' /\ RegistryDialsTheCallee'
    BY <1>1 DEF IInv, Idle, SourceHasPrecedence, RegistryDialsTheCallee, HasEndpoint,
        UsersNamed, NoRoute
  <2> QED BY <2>2, <2>3, <2>4, <2>5 DEF IInv
<1>6. CASE ~Malformed(conf.endpoints[k])
  <2> DEFINE next == Indexed(index, k, conf.endpoints[k])
  <2>1. index' = next /\ todo' = todo \ {k} /\ pc' = "index"
    BY <1>1, <1>6 DEF IndexEndpoint, k
  <2>2. TypeOK'
    BY <1>1, <1>4, <2>1, IndexedTyped DEF TypeOK
  <2>3. Done' = Done \union {k}
    BY <1>1, <1>3, <1>4, <2>1 DEF Done
  <2>4. \A j \in Done : Precedes(conf, j, k)
    BY <1>1, <1>3 DEF IndexAgrees, InOrder
  <2>5. Indices(next, Done \union {k})
    BY <1>1, <1>4, <1>6, <2>4, IndexedSound DEF IndexAgrees
  <2> HIDE DEF next
  <2>6. IndexAgrees'
    <3>1. UsersSound(index.users, Done)'
      BY <1>1, <2>1, <2>3, <2>5 DEF Indices, UsersSound
    <3>2. RowsSound(conf, index.exact \union index.cidrs, Done, index.valueOrder)'
      BY <1>1, <2>1, <2>3, <2>5 DEF Indices
    <3>3. FirstSound(index.dynamicUser, "user_dynamic", Done)'
      BY <1>1, <2>1, <2>3, <2>5 DEF Indices, FirstSound
    <3>4. FirstSound(index.defaultEnd, "", Done)'
      BY <1>1, <2>1, <2>3, <2>5 DEF Indices, FirstSound
    <3>5. InOrder'
      BY <1>1, <1>3, <2>1, <2>3 DEF IndexAgrees, InOrder
    <3> QED BY <3>1, <3>2, <3>3, <3>4, <3>5 DEF IndexAgrees, Indices
  <2>7. IndexSound'
    <3>1. ~index.built /\ index'.built = index.built
      <4>1. ~index.built
        BY <1>1 DEF IInv, IndexSound
      <4> QED BY <1>1, <2>1, <4>1 DEF TypeOK, next, Indexed, IndexValues
    <3> QED BY <2>1, <2>6, <3>1 DEF IndexSound
  <2>8. Idle' /\ Judged' /\ RouteTaken' /\ NotDialled'
    BY <1>1, <2>1 DEF IInv, Idle, Judged, RouteTaken, NotDialled
  <2>9. SourceHasPrecedence' /\ RegistryDialsTheCallee'
    BY <1>1 DEF IInv, Idle, SourceHasPrecedence, RegistryDialsTheCallee, HasEndpoint,
        UsersNamed, NoRoute
  <2> QED BY <2>2, <2>7, <2>8, <2>9 DEF IInv
<1> QED BY <1>5, <1>6

\* The index is complete (src/config.go:197-204).
LEMMA BuiltStep == IInv /\ IndexBuilt => IInv'
<1> SUFFICES ASSUME IInv, IndexBuilt PROVE IInv'
  OBVIOUS
<1>1. /\ pc = "index" /\ pc' = "validate" /\ todo = {} /\ IndexAgrees
      /\ index' = [index EXCEPT !.built = TRUE]
      /\ UNCHANGED <<conf, todo, valid, req, from, route, target, tried>>
  BY DEF IInv, IndexSound, IndexBuilt
<1>2. TypeOK'
  BY <1>1 DEF IInv, TypeOK
<1>3. /\ index'.users = index.users /\ index'.exact = index.exact /\ index'.cidrs = index.cidrs
      /\ index'.valueOrder = index.valueOrder /\ index'.dynamicUser = index.dynamicUser
      /\ index'.defaultEnd = index.defaultEnd
  BY <1>1 DEF IInv, TypeOK
<1>4. IndexAgrees'
  <2>1. Done' = Done /\ conf' = conf
    BY <1>1 DEF Done
  <2>2. Indices(index, Done)
    BY <1>1 DEF IndexAgrees
  <2>3. UsersSound(index.users, Done)'
    BY <1>3, <2>1, <2>2 DEF Indices, UsersSound
  <2>4. RowsSound(conf, index.exact \union index.cidrs, Done, index.valueOrder)'
    BY <1>3, <2>1, <2>2 DEF Indices
  <2>5. FirstSound(index.dynamicUser, "user_dynamic", Done)'
    BY <1>3, <2>1, <2>2 DEF Indices, FirstSound
  <2>6. FirstSound(index.defaultEnd, "", Done)'
    BY <1>3, <2>1, <2>2 DEF Indices, FirstSound
  <2>7. InOrder'
    BY <1>1, <2>1 DEF IndexAgrees, InOrder
  <2> QED BY <2>3, <2>4, <2>5, <2>6, <2>7 DEF IndexAgrees, Indices
<1>5. IndexSound'
  BY <1>1, <1>4 DEF IndexSound
<1>6. Idle' /\ Judged' /\ RouteTaken' /\ NotDialled'
  BY <1>1 DEF IInv, Idle, Judged, RouteTaken, NotDialled
<1>7. SourceHasPrecedence' /\ RegistryDialsTheCallee'
  BY <1>1 DEF IInv, Idle, SourceHasPrecedence, RegistryDialsTheCallee, HasEndpoint,
        UsersNamed, NoRoute
<1> QED BY <1>2, <1>5, <1>6, <1>7 DEF IInv

\* The configuration is found valid or not, and served (main.go:91-103).
LEMMA ValidateStep == IInv /\ Validate => IInv'
<1> SUFFICES ASSUME IInv, Validate PROVE IInv'
  OBVIOUS
<1>1. /\ pc = "validate" /\ pc' = "serve" /\ valid' = ValidConfig(conf)
      /\ UNCHANGED <<conf, index, todo, req, from, route, target, tried>>
  BY DEF Validate
<1>2. valid' \in BOOLEAN
  BY <1>1 DEF ValidConfig
<1>3. TypeOK'
  BY <1>1, <1>2 DEF IInv, TypeOK
<1>4. IndexSound'
  BY <1>1, IndexKept DEF IInv, IndexSound
<1>5. Judged'
  BY <1>1 DEF Judged
<1>6. Idle' /\ RouteTaken' /\ NotDialled'
  BY <1>1 DEF Idle, RouteTaken, NotDialled
<1>7. SourceHasPrecedence' /\ RegistryDialsTheCallee'
  BY <1>1 DEF IInv, Idle, SourceHasPrecedence, RegistryDialsTheCallee, HasEndpoint,
        UsersNamed, NoRoute
<1> QED BY <1>3, <1>4, <1>5, <1>6, <1>7 DEF IInv

\* A request is matched with an endpoint or refused (src/routing.go:48-94).
LEMMA MatchStep == ASSUME IInv, NEW r \in Requests, MatchEndpoint(r) PROVE IInv'
<1>1. /\ pc = "serve" /\ req' = r /\ route' = NoRoute
      /\ target' = <<"none", Unset>> /\ tried' = 0
      /\ from' = IF index.built THEN MatchedEndpoint(r) ELSE None
      /\ pc' = IF from' = None THEN "serve" ELSE "route"
      /\ UNCHANGED <<conf, index, todo, valid>>
  BY DEF MatchEndpoint
<1>2. HasPrecedence(from', r) /\ from' \in DOMAIN conf.endpoints \union {None}
  <2>1. CASE index.built
    <3>1. Indices(index, DOMAIN conf.endpoints)
      <4>1. IndexAgrees /\ todo = {}
        BY <2>1 DEF IInv, IndexSound
      <4>2. Done = DOMAIN conf.endpoints
        BY <4>1 DEF Done
      <4> QED BY <4>1, <4>2 DEF IndexAgrees
    <3>2. IsConfig(conf)
      BY DEF IInv, TypeOK
    <3>3. /\ HasPrecedence(MatchedEndpoint(r), r)
          /\ MatchedEndpoint(r) \in DOMAIN conf.endpoints \union {None}
      BY <2>1, <3>1, <3>2, MatchedHasPrecedence
    <3> QED BY <1>1, <2>1, <3>3
  <2>2. CASE ~index.built
    BY <1>1, <2>2 DEF HasPrecedence, Sources
  <2> QED BY <2>1, <2>2
<1>3. TypeOK'
  <2>1. target' \in Kinds \X Text
    BY <1>1, NoRequestTyped
  <2>2. tried' \in 0..Len(route'.fallback)
    BY <1>1, NoRequestTyped
  <2> QED BY <1>1, <1>2, <2>1, <2>2, NoRequestTyped DEF IInv, TypeOK
<1>4. IndexSound'
  BY <1>1, IndexKept DEF IInv, IndexSound
<1>5. Judged'
  BY <1>1 DEF IInv, Judged
<1>6. Idle' /\ RouteTaken' /\ NotDialled' /\ RegistryDialsTheCallee'
  BY <1>1 DEF Idle, RouteTaken, NotDialled, RegistryDialsTheCallee, HasEndpoint, UsersNamed, NoRoute
<1>7. SourceHasPrecedence'
  <2>1. \A k : OnlyFirst(k)' <=> OnlyFirst(k)
    BY <1>1 DEF OnlyFirst
  <2>2. \A k : CoversSource(k, req)' <=> CoversSource(k, r)
    BY <1>1 DEF CoversSource
  <2>3. \A k : MayBeFrom(k, req)' <=> MayBeFrom(k, r)
    BY <1>1, <2>1, <2>2 DEF MayBeFrom
  <2>4. Sources(req)' = Sources(r)
    BY <1>1, <2>3 DEF Sources
  <2>5. \A k : Class(k)' = Class(k)
    BY <1>1 DEF Class
  <2>6. HasPrecedence(from, req)'
    BY <1>1, <1>2, <2>4, <2>5 DEF HasPrecedence
  <2> QED BY <2>6 DEF SourceHasPrecedence
<1> QED BY <1>3, <1>4, <1>5, <1>6, <1>7 DEF IInv

\* The entry taken is the first of the route that takes the number
\* (src/routing.go:111-135).
LEMMA FirstTakingSound ==
  ASSUME NEW dids \in Seq(ConfigRoute), NEW to
  PROVE  \/ FirstTaking(dids, to) = NoRoute
         \/ \E i \in DOMAIN dids : FirstTaking(dids, to) = dids[i]
<1> DEFINE taking == {i \in DOMAIN dids : Takes(dids[i], to)}
<1>1. taking \in SUBSET Nat
  OBVIOUS
<1>2. CASE taking = {}
  BY <1>2 DEF FirstTaking
<1>3. CASE taking # {}
  <2>1. \E x \in taking : \A y \in taking : x <= y
    <3> HIDE DEF taking
    <3> QED BY <1>1, <1>3, LeastNatExists
  <2>2. LeastOf(taking) \in taking
    <3> HIDE DEF taking
    <3> QED BY <2>1 DEF LeastOf
  <2>3. FirstTaking(dids, to) = dids[LeastOf(taking)]
    BY <1>3 DEF FirstTaking
  <2>4. LeastOf(taking) \in DOMAIN dids
    BY <2>2
  <2> QED BY <2>3, <2>4
<1> QED BY <1>2, <1>3

\* A route is found for the number, or the call ends (src/routing.go:96-138).
LEMMA RouteStep == IInv /\ MatchIncomingRoute => IInv'
<1> SUFFICES ASSUME IInv, MatchIncomingRoute PROVE IInv'
  OBVIOUS
<1> DEFINE id == conf.endpoints[from].route
<1>1. /\ pc = "route"
      /\ route' = IF id \in DOMAIN conf.routes THEN FirstTaking(conf.routes[id], req.to)
                  ELSE NoRoute
      /\ pc' = IF (route'.match = "any" \/ route'.id # Unset) /\ ~route'.hangup
               THEN "dial" ELSE "serve"
      /\ UNCHANGED <<conf, index, todo, valid, req, from, target, tried>>
  BY DEF MatchIncomingRoute
<1> HIDE DEF id
<1>2. route' = NoRoute \/ \E d \in DOMAIN conf.routes : \E i \in DOMAIN conf.routes[d] :
                            route' = conf.routes[d][i]
  <2>1. CASE id \in DOMAIN conf.routes
    <3>1. conf.routes[id] \in Seq(ConfigRoute)
      BY <2>1 DEF IInv, TypeOK, IsConfig
    <3> QED BY <1>1, <2>1, <3>1, FirstTakingSound
  <2>2. CASE id \notin DOMAIN conf.routes
    BY <1>1, <2>2
  <2> QED BY <2>1, <2>2
<1>3. route' \in ConfigRoute
  <2>1. \A d \in DOMAIN conf.routes : conf.routes[d] \in Seq(ConfigRoute)
    BY DEF IInv, TypeOK, IsConfig
  <2>2. \A d \in DOMAIN conf.routes : \A i \in DOMAIN conf.routes[d] :
          conf.routes[d][i] \in ConfigRoute
    BY <2>1
  <2> QED BY <1>2, <2>2, NoRequestTyped
<1>4. TypeOK'
  <2>1. tried = 0
    BY <1>1 DEF IInv, NotDialled
  <2>2. Len(route'.fallback) \in Nat
    <3>1. route'.fallback \in Seq(Nat)
      BY <1>3 DEF ConfigRoute
    <3> QED BY <3>1
  <2>3. tried' \in 0..Len(route'.fallback)
    BY <1>1, <2>1, <2>2
  <2> QED BY <1>1, <1>3, <2>3 DEF IInv, TypeOK
<1>5. IndexSound'
  BY <1>1, IndexKept DEF IInv, IndexSound
<1>6. Idle' /\ Judged' /\ NotDialled'
  BY <1>1 DEF IInv, Idle, Judged, NotDialled
<1>7. RouteTaken'
  <2>1. ASSUME pc' = "dial" PROVE route' # NoRoute /\ ~route'.hangup
    <3>1. (route'.match = "any" \/ route'.id # Unset) /\ ~route'.hangup
      BY <1>1, <2>1
    <3>2. NoRoute.match = "" /\ NoRoute.id = Unset
      BY DEF NoRoute
    <3> QED BY <3>1, <3>2
  <2> QED BY <1>1, <1>2, <2>1 DEF RouteTaken
<1>8. SourceHasPrecedence'
  BY <1>1, PrecedenceKept DEF IInv
<1>9. RegistryDialsTheCallee'
  BY <1>1 DEF IInv, NotDialled, RegistryDialsTheCallee, HasEndpoint, UsersNamed
<1> QED BY <1>4, <1>5, <1>6, <1>7, <1>8, <1>9 DEF IInv

\* A user found in the index is one of those looked for
\* (src/routing.go:200-210).
LEMMA FirstUserIn ==
  ASSUME TypeOK, NEW K
  PROVE  FirstUser(K) = None \/ FirstUser(K) \in K
<1> DEFINE places == {i \in DOMAIN index.users : index.users[i] \in K}
<1>1. index.users \in Seq(Nat)
  BY DEF TypeOK
<1>2. places \in SUBSET Nat
  BY <1>1
<1>3. CASE places # {}
  <2>1. LeastOf(places) \in places
    <3> HIDE DEF places
    <3>1. \E x \in places : \A y \in places : x <= y
      BY <1>2, <1>3, LeastNatExists
    <3> QED BY <3>1 DEF LeastOf
  <2>2. FirstUser(K) = index.users[LeastOf(places)]
    BY <1>3 DEF FirstUser
  <2>3. index.users[LeastOf(places)] \in K
    BY <2>1
  <2> QED BY <2>2, <2>3
<1>4. CASE places = {}
  BY <1>4 DEF FirstUser
<1> QED BY <1>3, <1>4

\* The endpoint a call goes to is one of the file or none; through the
\* registry it goes by the name of the callee (src/routing.go:140-177).
LEMMA OutgoingSound ==
  ASSUME TypeOK
  PROVE  LET end == OutgoingEndpoint
         IN  /\ end.key \in DOMAIN conf.endpoints \union {None} /\ end.name \in Text
             /\ end.useRegistry = route.useRegistry
             /\ route.useRegistry /\ end.key # None => end.name = req.to
<1> DEFINE named == route.endpoint \in DOMAIN conf.endpoints
           user == FirstUser(UsersNamed(req.to))
           To(k, name) == [key |-> k, name |-> name, useRegistry |-> route.useRegistry]
<1>1. user = None \/ (user \in DOMAIN conf.endpoints /\ conf.endpoints[user].name = req.to)
  BY FirstUserIn DEF UsersNamed
<1>2. \A k \in DOMAIN conf.endpoints : conf.endpoints[k].name \in Text
  BY DEF TypeOK, IsConfig, ConfigEndpoint
<1>3. req.to \in Text /\ Unset \in Text
  <2>1. CASE req \in Requests
    BY <2>1, NoRequestTyped, RequestsAssumption
  <2>2. CASE req = NoRequest
    BY <2>2, NoRequestTyped DEF NoRequest
  <2> QED BY <2>1, <2>2 DEF TypeOK
<1>4. OutgoingEndpoint \in {To(route.endpoint, req.to), To(user, conf.endpoints[user].name),
                            To(route.endpoint, conf.endpoints[route.endpoint].name),
                            To(None, Unset)}
  BY DEF OutgoingEndpoint
<1>5. OutgoingEndpoint =
        (CASE route.useRegistry /\ named -> To(route.endpoint, req.to)
           [] route.useRegistry /\ route.endpoint = None /\ user # None ->
                To(user, conf.endpoints[user].name)
           [] ~route.useRegistry /\ named -> To(route.endpoint, conf.endpoints[route.endpoint].name)
           [] OTHER -> To(None, Unset))
  BY DEF OutgoingEndpoint
<1>6. None \notin DOMAIN conf.endpoints
  BY DEF TypeOK, IsConfig
<1> HIDE DEF user
<1>7. CASE route.useRegistry /\ named
  <2>1. OutgoingEndpoint = To(route.endpoint, req.to)
    BY <1>6, <1>7 DEF OutgoingEndpoint
  <2> QED BY <1>3, <1>7, <2>1
<1>8. CASE route.useRegistry /\ route.endpoint = None /\ user # None
  BY <1>1, <1>3, <1>5, <1>6, <1>8
<1>9. CASE ~route.useRegistry /\ named
  BY <1>2, <1>5, <1>9
<1>10. CASE /\ ~(route.useRegistry /\ named)
            /\ ~(route.useRegistry /\ route.endpoint = None /\ user # None)
            /\ ~(~route.useRegistry /\ named)
  BY <1>3, <1>5, <1>10
<1> QED BY <1>7, <1>8, <1>9, <1>10

\* Through the registry the callee is looked up if the file has a user of that
\* name and the entry names no endpoint (src/routing.go:157-163, 200-210).
LEMMA CalleeLookedUp ==
  ASSUME IInv, pc = "dial", route.useRegistry, route.endpoint = None, HasEndpoint(req.to)
  PROVE  OutgoingEndpoint.key # None /\ conf.endpoints[OutgoingEndpoint.key].type = "user"
<1> DEFINE K == UsersNamed(req.to)
           user == FirstUser(K)
<1>1. UsersSound(index.users, DOMAIN conf.endpoints) /\ None \notin DOMAIN conf.endpoints
  <2>1. index.built /\ todo = {} /\ IndexAgrees
    BY DEF IInv, IndexSound
  <2>2. Done = DOMAIN conf.endpoints
    BY <2>1 DEF Done
  <2>3. None \notin DOMAIN conf.endpoints
    BY DEF IInv, TypeOK, IsConfig
  <2> QED BY <2>1, <2>2, <2>3 DEF IndexAgrees, Indices
<1>2. user # None /\ conf.endpoints[user].type = "user"
  <2> DEFINE candidates == {j \in DOMAIN conf.endpoints \cap K : conf.endpoints[j].type = "user"}
  <2>1. candidates # {}
    BY DEF HasEndpoint, UsersNamed
  <2>2. /\ user = None => candidates = {}
        /\ user # None => user \in candidates
    BY <1>1, FirstUserSound
  <2> QED BY <2>1, <2>2
<1>3. OutgoingEndpoint.key = user
  <2>1. route.endpoint \notin DOMAIN conf.endpoints
    BY <1>1
  <2> QED BY <1>2, <2>1 DEF OutgoingEndpoint
<1> QED BY <1>2, <1>3

\* What is dialled is found, or the call ends for want of a binding
\* (src/pbx.go:1057-1093).
LEMMA DialStep == IInv /\ LoadOutboundURI => IInv'
<1> SUFFICES ASSUME IInv, LoadOutboundURI PROVE IInv'
  OBVIOUS
<1> DEFINE end == OutgoingEndpoint
           found == OutboundTarget(end)
<1>1. /\ pc = "dial" /\ pc' \in {"serve", "ring"}
      /\ UNCHANGED <<conf, index, todo, valid, req, from, route, tried>>
      /\ target' = IF IsFlow(end) THEN <<"agent", end.name>>
                   ELSE IF found[1] = "registered" /\ end.name \notin Registered
                   THEN <<"unbound", end.name>> ELSE found
  BY DEF LoadOutboundURI
<1>2. /\ end.key \in DOMAIN conf.endpoints \union {None} /\ end.name \in Text
      /\ end.useRegistry = route.useRegistry
      /\ route.useRegistry /\ end.key # None => end.name = req.to
  BY OutgoingSound DEF IInv
<1>3. DOMAIN conf.endpoints \subseteq Nat /\ None \in Nat
  BY DEF IInv, TypeOK, IsConfig, None
<1>4. /\ route.useRegistry /\ route.endpoint = None /\ HasEndpoint(req.to)
           => end.key # None /\ conf.endpoints[end.key].type = "user"
  BY <1>1, CalleeLookedUp
<1> HIDE DEF end
<1>5. /\ found \in {<<"environment", Unset>>, <<"registered", end.name>>,
                    <<"uri", <<end.key>> >>}
      /\ end.useRegistry /\ end.key # None => found = <<"registered", end.name>>
      /\ end.key = None => found = <<"environment", Unset>>
  BY DEF OutboundTarget
<1>6. <<end.key>> \in Text
  BY <1>2, <1>3 DEF Text
<1> HIDE DEF found
<1>7. target' \in {<<"environment", Unset>>, <<"registered", end.name>>,
                   <<"uri", <<end.key>> >>, <<"agent", end.name>>, <<"unbound", end.name>>}
  BY <1>1, <1>5
<1>8. TypeOK'
  <2>1. target' \in Kinds \X Text
    BY <1>2, <1>6, <1>7, NoRequestTyped DEF Kinds
  <2> QED BY <1>1, <2>1 DEF IInv, TypeOK
<1>9. IndexSound'
  <2>1. index.built
    BY <1>1 DEF IInv, IndexSound
  <2> QED BY <1>1, <2>1, IndexKept DEF IInv, IndexSound
<1>10. Idle' /\ Judged' /\ NotDialled' /\ RouteTaken'
  BY <1>1 DEF IInv, Idle, Judged, NotDialled, RouteTaken
<1>11. SourceHasPrecedence'
  BY <1>1, PrecedenceKept DEF IInv
<1>12. RegistryDialsTheCallee'
  <2> SUFFICES ASSUME route.useRegistry
               PROVE  /\ target'[1] # "uri"
                      /\ target'[1] = "registered" => target'[2] = req.to /\ req.to \in Registered
                      /\ target'[1] = "unbound" => target'[2] = req.to /\ req.to \notin Registered
                      /\ route.endpoint = None /\ HasEndpoint(req.to) =>
                             target'[1] \in {"registered", "unbound"}
    BY <1>1 DEF RegistryDialsTheCallee, HasEndpoint, UsersNamed
  <2>1. CASE end.key = None
    <3>1. target' = <<"environment", Unset>>
      BY <1>1, <1>5, <2>1 DEF IsFlow
    <3> QED BY <1>4, <2>1, <3>1
  <2>2. CASE end.key # None
    <3>1. end.name = req.to /\ found = <<"registered", req.to>>
      BY <1>2, <1>5, <2>2
    <3>2. \/ IsFlow(end) /\ target' = <<"agent", req.to>>
          \/ target' = <<"unbound", req.to>> /\ req.to \notin Registered
          \/ target' = <<"registered", req.to>> /\ req.to \in Registered
      BY <1>1, <3>1
    <3>3. IsFlow(end) => ~(route.endpoint = None /\ HasEndpoint(req.to))
      BY <1>4 DEF IsFlow
    <3> QED BY <3>2, <3>3
  <2> QED BY <2>1, <2>2
<1> QED BY <1>8, <1>9, <1>10, <1>11, <1>12 DEF IInv

\* The next endpoint of the fallback (src/pbx.go:1009-1047).
LEMMA FallbackStep == IInv /\ DialFallback => IInv'
<1> SUFFICES ASSUME IInv, DialFallback PROVE IInv'
  OBVIOUS
<1> DEFINE k == route.fallback[tried + 1]
<1>1. /\ pc = "ring" /\ pc' \in {"ring", "serve"} /\ tried' = tried + 1
      /\ tried < Len(route.fallback)
      /\ target' \in {<<"missing", <<k>> >>, <<"uri", <<k>> >>, <<"blank", <<k>> >>}
      /\ UNCHANGED <<conf, index, todo, valid, req, from, route>>
  BY DEF DialFallback
<1>2. /\ tried \in Nat /\ route.fallback \in Seq(Nat) /\ Len(route.fallback) \in Nat
      /\ DOMAIN route.fallback = 1..Len(route.fallback)
  <2>1. route \in ConfigRoute /\ tried \in 0..Len(route.fallback)
    BY DEF IInv, TypeOK
  <2>2. route.fallback \in Seq(Nat)
    BY <2>1 DEF ConfigRoute
  <2>3. Len(route.fallback) \in Nat /\ DOMAIN route.fallback = 1..Len(route.fallback)
    BY <2>2
  <2> QED BY <2>1, <2>2, <2>3
<1>3. tried' \in 1..Len(route.fallback)
  BY <1>1, <1>2
<1>4. k \in Nat
  BY <1>1, <1>2, <1>3
<1> HIDE DEF k
<1>5. TypeOK'
  <2>1. <<k>> \in Text
    BY <1>4 DEF Text
  <2>2. target' \in Kinds \X Text
    BY <1>1, <2>1 DEF Kinds
  <2>3. tried' \in 0..Len(route'.fallback)
    BY <1>1, <1>2, <1>3
  <2> QED BY <1>1, <2>2, <2>3 DEF IInv, TypeOK
<1>6. IndexSound'
  <2>1. index.built
    BY <1>1 DEF IInv, IndexSound
  <2> QED BY <1>1, <2>1, IndexKept DEF IInv, IndexSound
<1>7. Idle' /\ Judged' /\ NotDialled' /\ RouteTaken'
  BY <1>1 DEF IInv, Idle, Judged, NotDialled, RouteTaken
<1>8. SourceHasPrecedence'
  BY <1>1, PrecedenceKept DEF IInv
<1>9. RegistryDialsTheCallee'
  <2>1. tried' # 0
    BY <1>2, <1>3
  <2> QED BY <2>1 DEF RegistryDialsTheCallee
<1> QED BY <1>5, <1>6, <1>7, <1>8, <1>9 DEF IInv

\* The call is answered or given up (src/pbx.go:1035-1047).
LEMMA EndsStep == IInv /\ DialEnds => IInv'
<1> SUFFICES ASSUME IInv, DialEnds PROVE IInv'
  OBVIOUS
<1>1. /\ pc = "ring" /\ pc' = "serve"
      /\ UNCHANGED <<conf, index, todo, valid, req, from, route, target, tried>>
  BY DEF DialEnds
<1>2. TypeOK'
  BY <1>1 DEF IInv, TypeOK
<1>3. IndexSound'
  BY <1>1, IndexKept DEF IInv, IndexSound
<1>4. Idle' /\ Judged' /\ NotDialled' /\ RouteTaken'
  BY <1>1 DEF IInv, Idle, Judged, NotDialled, RouteTaken
<1>5. SourceHasPrecedence'
  BY <1>1, PrecedenceKept DEF IInv
<1>6. RegistryDialsTheCallee'
  BY <1>1 DEF IInv, RegistryDialsTheCallee, HasEndpoint, UsersNamed
<1> QED BY <1>2, <1>3, <1>4, <1>5, <1>6 DEF IInv

\* Every step of loading and serving keeps the invariant.
LEMMA Inductive == IInv /\ [Next]_vars => IInv'
<1> SUFFICES ASSUME IInv, [Next]_vars PROVE IInv'
  OBVIOUS
<1>1. CASE UNCHANGED vars
  <2>1. /\ UNCHANGED <<conf, index, todo>> /\ UNCHANGED <<conf, index, req, from>>
        /\ UNCHANGED <<conf, index, todo, valid, pc, req, from, route, target, tried>>
    BY <1>1 DEF vars
  <2>2. TypeOK'
    BY <2>1 DEF IInv, TypeOK
  <2>3. IndexSound'
    BY <2>1, IndexKept DEF IInv, IndexSound
  <2>4. SourceHasPrecedence'
    BY <2>1, PrecedenceKept DEF IInv
  <2>5. Idle' /\ Judged' /\ RouteTaken' /\ NotDialled' /\ RegistryDialsTheCallee'
    BY <2>1 DEF IInv, Idle, Judged, RouteTaken, NotDialled, RegistryDialsTheCallee,
            HasEndpoint, UsersNamed
  <2> QED BY <2>2, <2>3, <2>4, <2>5 DEF IInv
<1> QED BY <1>1, LoadStep, IndexStep, BuiltStep, ValidateStep, MatchStep, RouteStep, DialStep,
       FallbackStep, EndsStep DEF Next

\* The invariant holds in every state of loading and serving.
THEOREM Invariance == Spec => []IInv
<1> QED BY Initially, Inductive, PTL DEF Spec

\* Type correctness; a call that is routed has its endpoint
\* (src/routing.go:20-40, src/config.go:118-127).
THEOREM TypeCorrect == Spec => []TypeOK
<1>1. IInv => TypeOK
  BY DEF IInv
<1> QED BY <1>1, Invariance, PTL

\* SourceHasPrecedence: the tables of the index give the precedence of the file
\* (src/routing.go:48-94, 250-297).
THEOREM PrecedenceCorrect == Spec => []SourceHasPrecedence
<1>1. IInv => SourceHasPrecedence
  BY DEF IInv
<1> QED BY <1>1, Invariance, PTL

\* NothingDangles: a file found valid has the routes and, but for those of a
\* fallback, the endpoints a call needs (src/config.go:206-262,
\* src/routing.go:96-177).
THEOREM NothingDanglesCorrect == Spec => []NothingDangles
<1>1. IInv => NothingDangles
  <2> SUFFICES ASSUME IInv, valid
               PROVE  /\ pc = "route" => conf.endpoints[from].route \in DOMAIN conf.routes
                      /\ pc = "dial" /\ (route.endpoint # None \/ ~route.useRegistry) =>
                           route.endpoint \in DOMAIN conf.endpoints
    BY DEF NothingDangles
  <2>1. ASSUME pc \in {"route", "dial"} PROVE ValidConfig(conf)
    BY <2>1 DEF IInv, Judged
  <2>2. ASSUME pc = "route" PROVE conf.endpoints[from].route \in DOMAIN conf.routes
    <3>1. from \in DOMAIN conf.endpoints
      BY <2>2 DEF IInv, TypeOK
    <3> QED BY <2>1, <2>2, <3>1 DEF ValidConfig
  <2>3. ASSUME pc = "dial", route.endpoint # None \/ ~route.useRegistry
        PROVE  route.endpoint \in DOMAIN conf.endpoints
    <3>1. ~route.hangup /\ ValidRoute(conf, route)
      BY <2>1, <2>3 DEF IInv, RouteTaken, ValidConfig
    <3> QED BY <2>3, <3>1 DEF ValidRoute
  <2> QED BY <2>2, <2>3
<1> QED BY <1>1, Invariance, PTL

\* RegistryDialsTheCallee: through the registry no fixed URI is dialled before a
\* fallback, and who is looked up is the callee, always if it is a user of the
\* file (src/routing.go:140-177, src/pbx.go:1057-1093).
THEOREM RegistryCorrect == Spec => []RegistryDialsTheCallee
<1>1. IInv => RegistryDialsTheCallee
  BY DEF IInv
<1> QED BY <1>1, Invariance, PTL
=============================================================================
