----------------------------- MODULE Registrar -----------------------------
(***************************************************************************)
(* Registrar.registerHandler (src/registrar.go) over RegistryMemory        *)
(* (src/registry.go), and what a call to a registered user would dial      *)
(* (CallContext.endpointResolveRegisteredURI, src/pbx.go).                 *)
(*                                                                         *)
(* A handler is the goroutine of one REGISTER request.  The registry is    *)
(* the only state they share and is read or written once per request,      *)
(* under its lock: one step checks the headers, one asks the credential    *)
(* store (an HTTP call for bearer tokens), one goes through the contacts   *)
(* and writes, one answers.  Expiry is recorded and never acted upon, as   *)
(* in the code: no clock runs here.                                        *)
(***************************************************************************)
EXTENDS Integers, Sequences, FiniteSets

CONSTANTS Handlers,     \* goroutines running registerHandler
          Users,        \* user parts of the To header; all under one hostname
          Known,        \* users with an endpoint of type "user" (bootstrap.go:214)
          Webrtc,       \* users whose endpoint has webrtc media
          Uris,         \* contact addresses
          Unresolvable, \* those whose host ends in .invalid
          Sources,      \* network addresses requests come from
          Wildcard,     \* the contact "*"
          Malformed,    \* a header or parameter that does not parse
          Absent,       \* a header or parameter that is not there
          HasBearer,    \* is a bearer token provider configured?
          Requests,     \* the REGISTER requests that may arrive
          MaxRequests   \* bound: requests of the run

DefaultExpiry == 3600   \* seconds: 60 * time.Minute
MinExpiry == 30         \* seconds

Intervals == Int \union {Absent, Malformed}
ContactHeaders == [uri : Uris \union {Wildcard, Malformed}, expires : Intervals]
NoBinding == [contacts |-> <<>>, expiry |-> 0, source |-> Absent]

ASSUME SetsAssumption == /\ Known \subseteq Users /\ Webrtc \subseteq Users
                         /\ Unresolvable \subseteq Uris
                         /\ HasBearer \in BOOLEAN
                         /\ MaxRequests \in Nat
                         /\ {Absent, Malformed} \cap Int = {}
ASSUME RequestsAssumption ==
  /\ Requests # {}
  /\ \A r \in Requests :
       /\ r.user \in Users            \* To
       /\ r.sender \in Users          \* From, which the credentials name
       /\ r.headers \in BOOLEAN       \* are Via, Call-ID, From and To present?
       /\ r.host \in BOOLEAN          \* is the Request-URI host our Hostname?
       /\ r.expires \in Intervals     \* the Expires header
       /\ r.contacts \in Seq(ContactHeaders)
       /\ r.scheme \in {"bearer", "digest"}
       /\ r.source \in Sources

VARIABLES registry,  \* RegistryMemory.m: [Users -> binding], NoBinding if no entry
          writer,    \* history: [Users -> the handler that last wrote the entry]
          pc,        \* [Handlers -> the next step of the goroutine]
          req,       \* [Handlers -> its request]
          status,    \* [Handlers -> the status code of its answer]
          granted,   \* [Handlers -> the expires parameter of its answer]
          received   \* requests received so far

store == <<registry, writer>>
vars == <<store, pc, req, status, granted, received>>

-----------------------------------------------------------------------------
\* The requested interval, before the contacts are looked at.
Wanted(r) == IF r.expires = Absent THEN DefaultExpiry ELSE r.expires

Items(s) == {s[i] : i \in DOMAIN s}

\* The contacts that are bound, each by its place in the request: one with
\* expires=0 is passed over.
Kept(r) == {i \in DOMAIN r.contacts : r.contacts[i].expires # 0}

Proposed(r) == ({Wanted(r)} \union {r.contacts[i].expires : i \in Kept(r)}) \ {Absent}

\* The smallest proposal: a contact may shorten the interval of all of them.
Granted(r) == CHOOSE e \in Proposed(r) : \A f \in Proposed(r) : e <= f

\* "Contact: *" alone with "Expires: 0" removes every binding of the user.
RemovesAll(r) == /\ Wanted(r) = 0
                 /\ Len(r.contacts) = 1 /\ r.contacts[1].uri = Wildcard

\* Mutant: the binding is made before the contacts have shortened its interval.
Binding_Early(r) == [contacts |-> [i \in Kept(r) |-> r.contacts[i].uri],
                     expiry |-> Wanted(r),
                     source |-> r.source]

Binding(r) == [contacts |-> [i \in Kept(r) |-> r.contacts[i].uri],
               expiry |-> Granted(r),
               source |-> r.source]

RegId_Sender(r) == r.sender  \* mutant: the key is taken from From

\* createRegId(to.User, Hostname): the key of the registry.
RegId(r) == r.user

\* The first contact, or the address the request came from when the contact
\* cannot be dialled; "nowhere" is the empty string, which no call dials.
Resolve(user, binding) ==
  LET C == binding.contacts
      first == C[CHOOSE i \in DOMAIN C : \A j \in DOMAIN C : i <= j]
  IN  IF DOMAIN C = {} THEN "nowhere"
      ELSE IF first \in Unresolvable \/ user \in Webrtc THEN binding.source
      ELSE first

-----------------------------------------------------------------------------
\* A binding: some of the contacts of a request, an interval and an address.
IsBinding(b) == /\ DOMAIN b = {"contacts", "expiry", "source"}
                /\ DOMAIN b.contacts \subseteq Nat
                /\ \A i \in DOMAIN b.contacts : b.contacts[i] \in Uris \union {Wildcard}
                /\ b.expiry \in Int /\ b.source \in Sources

TypeOK ==
  /\ DOMAIN registry = Users
  /\ \A u \in Users : registry[u] = NoBinding \/ IsBinding(registry[u])
  /\ writer \in [Users -> Handlers \union {Absent}]
  /\ pc \in [Handlers -> {"idle", "headers", "credentials", "contacts", "answer"}]
  /\ req \in [Handlers -> Requests]
  /\ status \in [Handlers -> {200, 400, 401, 403, 404, 423, 503}]
  /\ granted \in [Handlers -> Int]
  /\ received \in 0..MaxRequests

Init == /\ registry = [u \in Users |-> NoBinding]
        /\ writer = [u \in Users |-> Absent]
        /\ pc = [h \in Handlers |-> "idle"]
        /\ req = [h \in Handlers |-> CHOOSE r \in Requests : TRUE]
        /\ status = [h \in Handlers |-> 400]
        /\ granted = [h \in Handlers |-> 0]
        /\ received = 0

Goto(h, l) == pc' = [pc EXCEPT ![h] = l]

\* tx.Respond with an error: nothing is bound or removed.
Reject(h, code) == /\ Goto(h, "answer")
                   /\ status' = [status EXCEPT ![h] = code]
                   /\ UNCHANGED <<store, req, granted, received>>

Receive(h) == /\ pc[h] = "idle"
              /\ received < MaxRequests
              /\ received' = received + 1
              /\ \E r \in Requests : req' = [req EXCEPT ![h] = r]
              /\ Goto(h, "headers")
              /\ UNCHANGED <<store, status, granted>>

HeadersBad(r) == ~r.headers \/ (r.host /\ (r.contacts = <<>> \/ r.expires = Malformed))

CheckHeaders(h) ==
  /\ pc[h] = "headers"
  /\ \/ HeadersBad(req[h]) /\ Reject(h, 400)
     \/ req[h].headers /\ ~req[h].host /\ Reject(h, 403)
     \/ /\ ~HeadersBad(req[h]) /\ req[h].host
        /\ Goto(h, "credentials")
        /\ UNCHANGED <<store, req, status, granted, received>>

\* authorizeRegister: can the request be authorised at all, and how is it
\* refused?  The token provider or the digest server may refuse any.
Credible(r) == IF r.scheme = "bearer" THEN HasBearer ELSE r.sender \in Known

Refusal(r) == IF Credible(r) THEN 401 ELSE IF r.scheme = "bearer" THEN 503 ELSE 404

Authorize(h) ==
  /\ pc[h] = "credentials"
  /\ \/ Reject(h, Refusal(req[h]))
     \/ /\ Credible(req[h])
        /\ Goto(h, "contacts")
        /\ UNCHANGED <<store, req, status, granted, received>>

Accept(h, binding, interval) ==
  /\ registry' = [registry EXCEPT ![RegId(req[h])] = binding]
  /\ writer' = [writer EXCEPT ![RegId(req[h])] = h]
  /\ Goto(h, "answer")
  /\ status' = [status EXCEPT ![h] = 200]
  /\ granted' = [granted EXCEPT ![h] = interval]
  /\ UNCHANGED <<req, received>>

\* Mutant: a contact that does not parse is not noticed.
ContactsBad_ParameterOnly(r) == \E c \in Items(r.contacts) : c.expires = Malformed

ContactsBad(r) == \E c \in Items(r.contacts) : Malformed \in {c.uri, c.expires}

RemoveAll(h) == /\ pc[h] = "contacts"
                /\ RemovesAll(req[h])
                /\ Accept(h, NoBinding, 0)

TooBrief(r) == Granted(r) < MinExpiry

BindContacts(h) ==
  /\ pc[h] = "contacts"
  /\ ~RemovesAll(req[h])
  /\ \/ ContactsBad(req[h]) /\ Reject(h, 400)
     \/ ~ContactsBad(req[h]) /\ TooBrief(req[h]) /\ Reject(h, 423)
     \/ /\ ~ContactsBad(req[h]) /\ ~TooBrief(req[h])
        /\ Accept(h, Binding(req[h]), Granted(req[h]))

Respond(h) == /\ pc[h] = "answer"
              /\ Goto(h, "idle")
              /\ UNCHANGED <<store, req, status, granted, received>>

Next == \E h \in Handlers : \/ Receive(h) \/ CheckHeaders(h) \/ Authorize(h)
                            \/ RemoveAll(h) \/ BindContacts(h) \/ Respond(h)

Spec == Init /\ [][Next]_vars

-----------------------------------------------------------------------------
(* Properties *)

\* What a client is told holds: the interval of a 200 ("its expiration interval
\* chosen by the registrar", registrar.go:248) is the one recorded for the user
\* for as long as no other request has written the user's entry; and each of the
\* two is long enough to be kept up and no longer than anything the client asked
\* for, itself or for a contact it keeps (registrar.go:105, 178-257).
GrantHonoured ==
  /\ \A u \in Users : registry[u] # NoBinding => registry[u].expiry >= MinExpiry
  /\ \A h \in Handlers :
       pc[h] = "answer" /\ status[h] = 200 =>
         /\ writer[req[h].user] = h => registry[req[h].user].expiry = granted[h]
         /\ ~RemovesAll(req[h]) =>
              /\ granted[h] >= MinExpiry
              /\ req[h].expires # Absent => granted[h] <= req[h].expires
              /\ \A c \in Items(req[h].contacts) :
                   c.expires \notin {0, Absent} => granted[h] <= c.expires

\* "If and only if the requested expiration interval is greater than zero ... the
\* registrar MAY reject the registration with a response of 423 (Interval Too
\* Brief)" (registrar.go:214-220).  Zero is no interval, it asks for removal.
OnlyBriefRejected ==
  \A h \in Handlers : pc[h] = "answer" /\ status[h] = 423
                        => \A e \in Proposed(req[h]) : e > 0

\* Where calls to a user go is changed by one request at a time, in the step
\* that settles it will be answered 200, to the first contact that request
\* does not withdraw; a request refused for any reason, at any point of the
\* handler, leaves it alone (registrar.go:66-261, pbx.go:1095-1125).
Destination(r) ==
  LET lasting == {i \in DOMAIN r.contacts : r.contacts[i].expires # 0}
      first == r.contacts[CHOOSE i \in lasting : \A j \in lasting : i <= j].uri
  IN  IF r.contacts = <<>> \/ RemovesAll(r) \/ lasting = {} THEN "nowhere"
      ELSE IF first \in Unresolvable \/ r.user \in Webrtc THEN r.source
      ELSE first

Located == INSTANCE Location WITH
  Addresses <- Uris \union {Wildcard, Malformed, "nowhere"} \union Sources,
  location <- [u \in Users |-> Resolve(u, registry[u])],
  stage <- [h \in Handlers |->
              CASE pc[h] = "idle" -> "idle"
                [] pc[h] \in {"headers", "credentials", "contacts"} -> "asked"
                [] pc[h] = "answer" -> IF status[h] = 200 THEN "done" ELSE "refused"],
  wish <- [h \in Handlers |-> [user |-> req[h].user, address |-> Destination(req[h])]]

LocationSpec == Located!Spec
=============================================================================
