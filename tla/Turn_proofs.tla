---------------------------- MODULE Turn_proofs ----------------------------
(***************************************************************************)
(* Proofs about what a turn of a query exchanges: with the plugins whose   *)
(* tools it calls (PluginHost), for every set of plugins and of names, and *)
(* with the model (LlmStream), for every provider, every order of events   *)
(* and every bound.                                                        *)
(***************************************************************************)
EXTENDS PluginHost, LlmStream, SequenceFacts, SequenceTheorems, FiniteSetTheorems, TLAPS

-----------------------------------------------------------------------------
(***************************************************************************)
(* The plugins                                                             *)
(***************************************************************************)

-----------------------------------------------------------------------------
\* The inductive invariant

Requests == [id : Nat, asked : Nat]
Lines == [id : Nat, kind : {"ok", "error", "junk"}, asked : Nat]
Kids == [server : Servers, alive : BOOLEAN, todo : Seq(Requests), out : Seq(Lines),
         last : Seq(Lines)]
Outcomes == [ok : BOOLEAN, asked : Nat, answer : Nat]

\* Where the caller is busy with a plugin.
Exchanging == {"start", "init", "send", "write", "wait"}

Shape ==
    /\ flavor \in {"bridge", "external"} /\ rude \in BOOLEAN
    /\ enabled \subseteq Servers /\ toList \subseteq Servers /\ closed \subseteq Servers
    /\ kids \in Seq(Kids)
    /\ client \in [Servers -> Nat] /\ nextId \in [Servers -> Nat]
    /\ bindings \in [Names -> Servers \cup {NoServer}]
    /\ registry \in [Names -> Servers \cup {NoServer}]
    /\ stage \in {"discover", "list", "calls", "done"} \cup Exchanging
    /\ cur \in [server : Servers \cup {NoServer}, what : {"none", "list", "call"}, id : Nat]
    /\ asked \in Nat /\ results \in Seq(Outcomes)

\* A client has a child of its own plugin, and an exchange has a plugin, whose child
\* it starts, or has.
Placed ==
    /\ \A s \in Servers : client[s] # 0 =>
          client[s] \in 1..Len(kids) /\ kids[client[s]].server = s
    /\ stage \in Exchanging => cur.server \in Servers
    /\ stage \in {"send", "write", "wait"} => client[cur.server] # 0
    /\ stage = "init" => /\ Newest \in 1..Len(kids)
                         /\ kids[Newest].server = cur.server
                         /\ client[cur.server] = 0

\* What a line that is a response is about.
About(line) == [id |-> line.id, asked |-> line.asked]

\* r is a request a child has still to answer, or one it has answered in its channel,
\* or the one it may answer again.
Has(kid, r) ==
    \/ \E i \in 1..Len(kid.todo) : kid.todo[i] = r
    \/ \E i \in 1..Len(kid.out) : kid.out[i].kind # "junk" /\ About(kid.out[i]) = r
    \/ \E i \in 1..Len(kid.last) : kid.last[i].kind # "junk" /\ About(kid.last[i]) = r

\* The numbers of requests are not used again with the same child, ...
Numbered ==
    /\ \A s \in Servers : client[s] # 0 =>
          \A r \in Requests : Has(kids[client[s]], r) => r.id < nextId[s]
    /\ stage = "init" => \A r \in Requests : Has(kids[Newest], r) => r.id = 1
    /\ stage = "wait" => /\ cur.id < nextId[cur.server]
                         /\ \A r \in Requests :
                               Has(Kid, r) /\ r.id = cur.id => r.asked = asked

NoJunk(kid) == \A i \in 1..Len(kid.out) : kid.out[i].kind # "junk"

\* ... plugins that are not rude only respond, ...
Quiet == ~rude => \A k \in 1..Len(kids) : NoJunk(kids[k])

Load(kid) == Len(kid.out) + Len(kid.todo)

\* ... and have at most the one answer under way that is waited for.
Drained ==
    ~rude =>
        /\ stage = "init" => Load(kids[Newest]) <= 1
        /\ flavor = "bridge" =>
              \A s \in Servers \ closed : client[s] # 0 =>
                  \/ Load(kids[client[s]]) = 0
                  \/ Load(kids[client[s]]) = 1 /\ stage = "wait" /\ cur.server = s

Inv ==
    /\ Shape /\ Placed
    /\ Numbered /\ Quiet /\ Drained
    /\ OwnAnswer /\ NoOrphans /\ CallsReachShownTool

-----------------------------------------------------------------------------
\* What a child may do, and what may be done to it, behind the back of its client: it says
\* nothing about other requests, dies, and says more than it was asked only when rude.

Tamer(new, old) ==
    /\ new \in Kids /\ new.server = old.server
    /\ new.alive => old.alive
    /\ \A r \in Requests : Has(new, r) => Has(old, r)
    /\ ~rude => Load(new) <= Load(old) /\ (NoJunk(old) => NoJunk(new))

KidsKeep ==
    /\ kids' \in Seq(Kids) /\ Len(kids') = Len(kids)
    /\ \A k \in 1..Len(kids) : Tamer(kids'[k], kids[k])

LEMMA LoadIs ==
    ASSUME NEW kid, NEW m \in Nat, NEW n \in Nat, Len(kid.out) = m, Len(kid.todo) = n
    PROVE  Load(kid) = m + n
  BY DEF Load

LEMMA LoadType == ASSUME NEW kid \in Kids PROVE Load(kid) \in Nat
<1>1. kid.out \in Seq(Lines) /\ kid.todo \in Seq(Requests)
  BY DEF Kids
<1>2. PICK m \in Nat : Len(kid.out) = m
  BY <1>1
<1>3. PICK n \in Nat : Len(kid.todo) = n
  BY <1>1
<1>4. Load(kid) = m + n
  BY <1>2, <1>3, LoadIs
<1> QED BY <1>4

LEMMA SameIsTamer == ASSUME NEW kid \in Kids PROVE Tamer(kid, kid)
<1> QED BY LoadType DEF Tamer

LEMMA SameKeeps == ASSUME Shape, kids' = kids PROVE KidsKeep
<1>1. \A k \in 1..Len(kids) : kids[k] \in Kids
  BY DEF Shape
<1> QED BY <1>1, SameIsTamer DEF KidsKeep, Shape

LEMMA ChangeKeeps ==
    ASSUME Shape, NEW k \in 1..Len(kids), NEW new, Tamer(new, kids[k]),
           kids' = [kids EXCEPT ![k] = new]
    PROVE  KidsKeep /\ kids'[k] = new
<1>1. \A j \in 1..Len(kids) : kids[j] \in Kids
  BY DEF Shape
<1>2. new \in Kids
  BY DEF Tamer
<1>3. kids' \in Seq(Kids) /\ Len(kids') = Len(kids)
  BY <1>2 DEF Shape
<1>4. \A j \in 1..Len(kids) : kids'[j] = IF j = k THEN new ELSE kids[j]
  BY DEF Shape
<1>5. \A j \in 1..Len(kids) : Tamer(kids'[j], kids[j])
  BY <1>1, <1>4, SameIsTamer
<1> QED BY <1>3, <1>4, <1>5 DEF KidsKeep

LEMMA KilledIsTamer ==
    ASSUME NEW kid \in Kids
    PROVE  Tamer([kid EXCEPT !.alive = FALSE], kid)
<1> DEFINE new == [kid EXCEPT !.alive = FALSE]
<1>1. /\ new \in Kids /\ new.server = kid.server /\ new.alive = FALSE
      /\ new.todo = kid.todo /\ new.out = kid.out /\ new.last = kid.last
  BY DEF Kids
<1> HIDE DEF new
<1>2. \A r \in Requests : Has(new, r) => Has(kid, r)
  BY <1>1 DEF Has
<1>3. Load(new) = Load(kid) /\ Load(kid) \in Nat
  BY <1>1 DEF Load, Kids
<1>4. NoJunk(kid) => NoJunk(new)
  BY <1>1 DEF NoJunk
<1>5. Tamer(new, kid)
  BY <1>1, <1>2, <1>3, <1>4 DEF Tamer
<1> QED BY <1>5 DEF new

LEMMA ReadIsTamer ==
    ASSUME NEW kid \in Kids, kid.out # <<>>
    PROVE  /\ Tamer([kid EXCEPT !.out = Tail(@)], kid)
           /\ Load([kid EXCEPT !.out = Tail(@)]) = Load(kid) - 1
           /\ Head(kid.out) \in Lines
           /\ Head(kid.out).kind # "junk" => Has(kid, About(Head(kid.out)))
<1> DEFINE new == [kid EXCEPT !.out = Tail(@)]
<1>0. Tail(kid.out) \in Seq(Lines)
  <2>1. kid.out \in Seq(Lines)
    BY DEF Kids
  <2> QED BY <2>1
<1>1. /\ new \in Kids /\ new.server = kid.server /\ new.alive = kid.alive
      /\ new.todo = kid.todo /\ new.out = Tail(kid.out) /\ new.last = kid.last
  BY <1>0 DEF Kids
<1>2. kid.out \in Seq(Lines) /\ kid.todo \in Seq(Requests)
  BY DEF Kids
<1> HIDE DEF new
<1>3. /\ Len(kid.out) \in Nat /\ Len(kid.out) > 0 /\ Len(new.out) = Len(kid.out) - 1
      /\ \A i \in 1..Len(new.out) : i + 1 \in 1..Len(kid.out) /\ new.out[i] = kid.out[i + 1]
      /\ Head(kid.out) = kid.out[1] /\ kid.out[1] \in Lines
  BY <1>1, <1>2
<1>4. \A r \in Requests : Has(new, r) => Has(kid, r)
  <2>1. ASSUME NEW i \in 1..Len(new.out)
        PROVE  \E j \in 1..Len(kid.out) : kid.out[j] = new.out[i]
    BY <1>3, <2>1
  <2> QED BY <1>1, <2>1 DEF Has
<1>5. Load(new) = Load(kid) - 1 /\ Load(kid) \in Nat
  <2>1. PICK n \in Nat : Len(kid.todo) = n
    BY <1>2
  <2>2. PICK m \in Nat : Len(new.out) = m
    BY <1>2, <1>3
  <2>3. Len(kid.out) = m + 1
    BY <1>3, <2>2
  <2>4. Load(kid) = (m + 1) + n
    BY <2>1, <2>3, LoadIs
  <2>5. Load(new) = m + n
    BY <1>1, <2>1, <2>2, LoadIs
  <2> QED BY <2>4, <2>5
<1>6. NoJunk(kid) => NoJunk(new)
  BY <1>3 DEF NoJunk
<1>7. Tamer(new, kid)
  BY <1>1, <1>4, <1>5, <1>6 DEF Tamer
<1>8. Head(kid.out).kind # "junk" => Has(kid, About(Head(kid.out)))
  BY <1>3 DEF Has
<1> QED BY <1>3, <1>5, <1>7, <1>8 DEF new

LEMMA TamerStays ==
    ASSUME NEW a, NEW b, NEW c, c \in Kids, b \in Kids, Tamer(a, b), Tamer(b, c)
    PROVE  Tamer(a, c)
<1>1. Load(a) \in Nat /\ Load(b) \in Nat /\ Load(c) \in Nat
  BY LoadType DEF Tamer
<1> QED BY <1>1 DEF Tamer

-----------------------------------------------------------------------------
\* Steps that leave the children as they are or tame them

\* The caller goes on between two exchanges, or to one that has not been asked yet.
LEMMA CallerGoesOn ==
    ASSUME Inv, kids' = kids, UNCHANGED <<config, clients, tables, results>>,
           stage \notin {"init", "wait"},
           stage' \in {"list", "calls", "done", "start", "send", "write"},
           asked' \in Nat, toList' \subseteq Servers,
           cur' \in [server : Servers \cup {NoServer}, what : {"none", "list", "call"}, id : Nat],
           stage' \in {"start", "send", "write"} => cur'.server \in Servers,
           stage' \in {"send", "write"} => client[cur'.server] # 0
    PROVE  Inv'
<1> USE DEF config, clients, tables
<1>1. Shape'
  BY DEF Inv, Shape, Exchanging
<1>2. Placed'
  BY DEF Inv, Placed, Exchanging
<1>3. Numbered' /\ Quiet'
  BY DEF Inv, Numbered, Quiet
<1>4. Drained'
  BY DEF Inv, Drained
<1>5. NoOrphans' /\ OwnAnswer' /\ CallsReachShownTool'
  BY DEF Inv, NoOrphans, OwnAnswer, CallsReachShownTool
<1> QED BY <1>1, <1>2, <1>3, <1>4, <1>5 DEF Inv

\* Nothing but the children changes.
LEMMA ChildrenKeep ==
    ASSUME Inv, KidsKeep, UNCHANGED <<config, clients, tables, caller>>
    PROVE  Inv'
<1> USE DEF config, clients, tables, caller
<1>0. kids \in Seq(Kids) /\ Len(kids) \in Nat /\ client \in [Servers -> Nat]
  BY DEF Inv, Shape
<1>1. Shape'
  BY DEF Inv, Shape, KidsKeep
<1>2. Placed'
  BY <1>0 DEF Inv, Placed, KidsKeep, Tamer, Newest
<1>3. Numbered'
  BY <1>0 DEF Inv, Numbered, Placed, KidsKeep, Tamer, Newest, Kid, Exchanging
<1>4. Quiet'
  BY <1>0 DEF Inv, Quiet, KidsKeep, Tamer
<1>5. Drained'
  <2>1. \A k \in 1..Len(kids) : Load(kids[k]) \in Nat /\ Load(kids'[k]) \in Nat
    <3>1. \A k \in 1..Len(kids) : kids[k] \in Kids /\ kids'[k] \in Kids
      BY <1>0 DEF KidsKeep, Tamer
    <3> QED BY <3>1, LoadType
  <2> QED BY <1>0, <2>1 DEF Inv, Drained, Placed, KidsKeep, Tamer, Newest
<1>6. NoOrphans'
  BY <1>0 DEF Inv, NoOrphans, KidsKeep, Tamer, Newest
<1>7. OwnAnswer' /\ CallsReachShownTool'
  BY DEF Inv, OwnAnswer, CallsReachShownTool
<1> QED BY <1>1, <1>2, <1>3, <1>4, <1>5, <1>6, <1>7 DEF Inv

\* The caller has its answer or an error, with the child as it is, dead, or given up.
Concluded ==
    /\ UNCHANGED <<config, toList, asked>>
    /\ stage' \in {"list", "calls"} /\ cur' = NoExchange
    /\ closed \subseteq closed' /\ closed' \subseteq Servers
    /\ nextId' \in [Servers -> Nat] /\ \A s \in Servers : nextId[s] <= nextId'[s]
    /\ \/ client' = client
       \/ /\ client[cur.server] # 0 /\ ~kids'[client[cur.server]].alive
          /\ client' = [client EXCEPT ![cur.server] = 0]
    /\ stage = "init" => ~kids'[Newest].alive \/ (rude /\ flavor = "bridge")
    /\ stage = "wait" => \/ rude \/ flavor = "external" \/ cur.server \in closed'
                         \/ Load(kids'[client[cur.server]]) = 0

LEMMA ConcludedKeeps ==
    ASSUME Inv, KidsKeep, stage \in Exchanging, Concluded,
           results' \in Seq(Outcomes), OwnAnswer',
           bindings' \in [Names -> Servers \cup {NoServer}],
           registry' \in [Names -> Servers \cup {NoServer}], CallsReachShownTool'
    PROVE  Inv'
<1> USE DEF config, Concluded
<1>0. /\ kids \in Seq(Kids) /\ Len(kids) \in Nat /\ client \in [Servers -> Nat]
      /\ cur.server \in Servers /\ nextId \in [Servers -> Nat]
  BY DEF Inv, Shape, Placed
<1>a. client' \in [Servers -> Nat] /\ \A s \in Servers : client'[s] # 0 => client'[s] = client[s]
  BY <1>0
<1>1. Shape'
  BY <1>a DEF Inv, Shape, KidsKeep, NoExchange
<1>2. Placed'
  <2>1. ASSUME NEW s \in Servers, client'[s] # 0
        PROVE  client'[s] \in 1..Len(kids') /\ kids'[client'[s]].server = s
    BY <1>0, <1>a, <2>1 DEF Inv, Placed, KidsKeep, Tamer
  <2> QED BY <2>1 DEF Placed, Exchanging
<1>3. Numbered'
  <2>1. ASSUME NEW s \in Servers, client'[s] # 0, NEW r \in Requests,
               Has(kids'[client'[s]], r)
        PROVE  r.id < nextId'[s]
    <3>1. client'[s] = client[s] /\ client[s] \in 1..Len(kids)
      BY <1>a, <2>1 DEF Inv, Placed
    <3>2. Has(kids[client[s]], r)
      BY <2>1, <3>1 DEF KidsKeep, Tamer
    <3>3. r.id < nextId[s] /\ r.id \in Nat
      BY <2>1, <3>1, <3>2 DEF Inv, Numbered, Requests
    <3> QED BY <1>0, <3>3
  <2> QED BY <2>1 DEF Numbered
<1>4. Quiet'
  BY <1>0 DEF Inv, Quiet, KidsKeep, Tamer
<1>5. Drained'
  <2>1. ASSUME ~rude, flavor = "bridge", NEW s \in Servers \ closed', client'[s] # 0
        PROVE  Load(kids'[client'[s]]) = 0
    <3>1. client'[s] = client[s] /\ client[s] \in 1..Len(kids) /\ s \notin closed
      BY <1>a, <2>1 DEF Inv, Placed
    <3>2. CASE stage = "wait" /\ cur.server = s
      BY <2>1, <3>1, <3>2
    <3>3. CASE ~(stage = "wait" /\ cur.server = s)
      <4>1. Load(kids[client[s]]) = 0
        BY <2>1, <3>1, <3>3 DEF Inv, Drained
      <4>2. Load(kids'[client[s]]) \in Nat /\ Load(kids'[client[s]]) <= 0
        BY <2>1, <3>1, <4>1, LoadType DEF KidsKeep, Tamer
      <4> QED BY <3>1, <4>2
    <3> QED BY <3>2, <3>3
  <2> QED BY <2>1 DEF Drained
<1>6. NoOrphans'
  <2>1. ASSUME NEW k \in 1..Len(kids), kids'[k].alive, flavor = "external" \/ ~rude
        PROVE  client'[kids'[k].server] = k
    <3>1. kids[k].alive /\ kids'[k].server = kids[k].server /\ kids[k].server \in Servers
      BY <2>1, <1>0 DEF KidsKeep, Tamer, Kids
    <3>2. ~(stage = "init" /\ k = Newest)
      BY <2>1
    <3>3. client[kids[k].server] = k
      BY <2>1, <3>1, <3>2 DEF Inv, NoOrphans
    <3> QED BY <1>0, <2>1, <3>1, <3>3
  <2> QED BY <2>1 DEF NoOrphans, KidsKeep
<1> QED BY <1>1, <1>2, <1>3, <1>4, <1>5, <1>6 DEF Inv

\* An exchange that ends with an error leaves results that are true.
LEMMA ErrorIsTrue ==
    ASSUME Inv, EndWithError
    PROVE  /\ results' \in Seq(Outcomes) /\ OwnAnswer'
           /\ stage' \in {"list", "calls"} /\ cur' = NoExchange
           /\ UNCHANGED <<toList, asked>>
<1>1. results \in Seq(Outcomes) /\ asked \in Nat
  BY DEF Inv, Shape
<1>2. [ok |-> FALSE, asked |-> asked, answer |-> 0] \in Outcomes
  BY <1>1 DEF Outcomes
<1>3. results' \in Seq(Outcomes)
  BY <1>1, <1>2 DEF EndWithError, EndWith
<1>4. OwnAnswer'
  BY <1>1 DEF Inv, OwnAnswer, EndWithError, EndWith
<1> QED BY <1>3, <1>4 DEF EndWithError, EndWith

-----------------------------------------------------------------------------
\* The steps of the caller

LEMMA GoingOn ==
    ASSUME Inv, \/ Discover \/ ListNext \/ ListedAll \/ Finish \/ UseClient \/ WriteBlocks
                \/ \E n \in Names : Call(n)
    PROVE  Inv'
<1> USE DEF Inv, Shape, config, clients, tables
<1>1. CASE Discover
  BY <1>1, CallerGoesOn DEF Discover
<1>2. CASE ListNext
  BY <1>2, CallerGoesOn DEF ListNext
<1>3. CASE ListedAll
  BY <1>3, CallerGoesOn DEF ListedAll
<1>4. CASE Finish
  BY <1>4, CallerGoesOn DEF Finish
<1>5. CASE UseClient
  BY <1>5, CallerGoesOn DEF UseClient, Placed, Exchanging
<1>6. ASSUME NEW n \in Names, Call(n)
      PROVE  Inv'
  <2>1. Callee(n) \in Servers
    BY <1>6, PluginAssumption DEF Call, Callee, CallsReachShownTool, PluginAssumption
  <2>2. cur' = [server |-> Callee(n), what |-> "call", id |-> 0] /\ asked' = asked + 1
    BY <1>6 DEF Call
  <2> QED BY <1>6, <2>1, <2>2, CallerGoesOn DEF Call
<1>7. CASE WriteBlocks
  BY <1>7, CallerGoesOn DEF WriteBlocks, Placed, Exchanging
<1> QED BY <1>1, <1>2, <1>3, <1>4, <1>5, <1>6, <1>7

LEMMA SpawnKeeps == ASSUME Inv, Spawn PROVE Inv'
<1> USE DEF config, clients, tables
<1> DEFINE kid == [server |-> cur.server, alive |-> TRUE,
                   todo |-> <<[id |-> 1, asked |-> asked]>>, out |-> <<>>, last |-> <<>>]
<1>0. /\ kids \in Seq(Kids) /\ Len(kids) \in Nat /\ asked \in Nat /\ stage = "start"
      /\ cur.server \in Servers /\ client[cur.server] = 0 /\ client \in [Servers -> Nat]
      /\ kids' = Append(kids, kid) /\ stage' = "init"
      /\ UNCHANGED <<config, clients, tables, toList, cur, asked, results, babble>>
  BY DEF Inv, Shape, Placed, Exchanging, Spawn
<1>1. /\ kid \in Kids /\ Load(kid) = 1 /\ NoJunk(kid) /\ kid.server = cur.server
      /\ \A r \in Requests : Has(kid, r) => r.id = 1
  <2>1. <<[id |-> 1, asked |-> asked]>> \in Seq(Requests)
    BY <1>0 DEF Requests
  <2>2. kid \in Kids
    BY <1>0, <2>1 DEF Kids
  <2>3. Load(kid) = 1 /\ NoJunk(kid)
    BY DEF Load, NoJunk
  <2>4. \A r \in Requests : Has(kid, r) => r.id = 1
    BY DEF Has
  <2> QED BY <2>2, <2>3, <2>4
<1> HIDE DEF kid
<1>2. /\ kids' \in Seq(Kids) /\ Len(kids') = Len(kids) + 1 /\ kids'[Len(kids')] = kid
      /\ \A k \in 1..Len(kids) : kids'[k] = kids[k]
  BY <1>0, <1>1
<1>3. \A k \in 1..Len(kids') : k \in 1..Len(kids) \/ k = Len(kids')
  BY <1>0, <1>2
<1>4. \A s \in Servers : client[s] # 0 => client[s] \in 1..Len(kids) /\ kids'[client[s]] = kids[client[s]]
  BY <1>2 DEF Inv, Placed
<1>5. Shape'
  BY <1>0, <1>2 DEF Inv, Shape, Exchanging
<1>6. Placed'
  BY <1>0, <1>1, <1>2, <1>4 DEF Inv, Placed, Newest, Exchanging
<1>7. Numbered'
  BY <1>0, <1>1, <1>2, <1>4 DEF Inv, Numbered, Newest
<1>8. Quiet'
  BY <1>0, <1>1, <1>2, <1>3 DEF Inv, Quiet
<1>9. Drained'
  BY <1>0, <1>1, <1>2, <1>4 DEF Inv, Drained, Newest
<1>10. NoOrphans'
  BY <1>0, <1>2, <1>3 DEF Inv, NoOrphans, Newest
<1>11. OwnAnswer' /\ CallsReachShownTool'
  BY <1>0 DEF Inv, OwnAnswer, CallsReachShownTool
<1> QED BY <1>5, <1>6, <1>7, <1>8, <1>9, <1>10, <1>11 DEF Inv

LEMMA SpawnFailsKeeps == ASSUME Inv, SpawnFails PROVE Inv'
<1>1. /\ KidsKeep /\ Concluded /\ stage = "start"
      /\ UNCHANGED <<config, clients, tables>>
  BY ErrorIsTrue, SameKeeps
     DEF SpawnFails, Concluded, Inv, Shape, clients
<1>2. /\ bindings' \in [Names -> Servers \cup {NoServer}]
      /\ registry' \in [Names -> Servers \cup {NoServer}] /\ CallsReachShownTool'
  BY <1>1 DEF Inv, Shape, CallsReachShownTool, tables, config
<1> QED BY <1>1, <1>2, ErrorIsTrue, ConcludedKeeps DEF SpawnFails, Exchanging

LEMMA GiveUpStartKeeps == ASSUME Inv, GiveUpStart PROVE Inv'
<1>1. /\ Newest \in 1..Len(kids) /\ kids[Newest] \in Kids /\ stage = "init"
      /\ kids' = [kids EXCEPT ![Newest] = [kids[Newest] EXCEPT !.alive = FALSE]]
      /\ UNCHANGED <<config, clients, tables>>
  BY DEF Inv, Shape, Placed, GiveUpStart, Killed
<1>2. KidsKeep /\ kids'[Newest] = [kids[Newest] EXCEPT !.alive = FALSE]
  BY <1>1, KilledIsTamer, ChangeKeeps DEF Inv
<1>3. ~kids'[Newest].alive
  BY <1>1, <1>2 DEF Kids
<1>4. Concluded
  BY <1>1, <1>3, ErrorIsTrue DEF GiveUpStart, Concluded, Inv, Shape, clients
<1>5. /\ bindings' \in [Names -> Servers \cup {NoServer}]
      /\ registry' \in [Names -> Servers \cup {NoServer}] /\ CallsReachShownTool'
  BY <1>1 DEF Inv, Shape, CallsReachShownTool, tables, config
<1> QED BY <1>1, <1>2, <1>4, <1>5, ErrorIsTrue, ConcludedKeeps DEF GiveUpStart, Exchanging

\* The first line of a channel, read.
LEMMA FirstLine ==
    ASSUME Inv, NEW k \in 1..Len(kids), kids[k].out # <<>>,
           NEW alive \in BOOLEAN, alive => kids[k].alive,
           kids' = [kids EXCEPT ![k] = [kids[k] EXCEPT !.out = Tail(@), !.alive = alive]]
    PROVE  /\ KidsKeep
           /\ kids'[k].alive = alive
           /\ Load(kids'[k]) = Load(kids[k]) - 1
           /\ Head(kids[k].out) \in Lines
           /\ Head(kids[k].out).kind # "junk" => Has(kids[k], About(Head(kids[k].out)))
           /\ ~rude => Head(kids[k].out).kind # "junk"
<1> DEFINE read == [kids[k] EXCEPT !.out = Tail(@)]
           new == [kids[k] EXCEPT !.out = Tail(@), !.alive = alive]
<1>1. kids[k] \in Kids
  BY DEF Inv, Shape
<1>2. /\ Tamer(read, kids[k]) /\ Load(read) = Load(kids[k]) - 1
      /\ Head(kids[k].out) \in Lines
      /\ Head(kids[k].out).kind # "junk" => Has(kids[k], About(Head(kids[k].out)))
  BY <1>1, ReadIsTamer
<1>3. read \in Kids
  BY <1>2 DEF Tamer
<1>4. /\ new \in Kids /\ new.server = read.server /\ new.alive = alive
      /\ new.todo = read.todo /\ new.out = read.out /\ new.last = read.last
  BY <1>1, <1>3 DEF Kids
<1> HIDE DEF new, read
<1>5. Load(new) = Load(read) /\ (NoJunk(read) => NoJunk(new))
  BY <1>4 DEF Load, NoJunk
<1>6. \A r \in Requests : Has(new, r) => Has(read, r)
  BY <1>4 DEF Has
<1>7. Tamer(new, kids[k])
  BY <1>2, <1>4, <1>5, <1>6 DEF Tamer
<1>8. KidsKeep /\ kids'[k] = new
  BY <1>7, ChangeKeeps DEF Inv, new
<1>9. ~rude => Head(kids[k].out).kind # "junk"
  <2>1. kids[k].out \in Seq(Lines)
    BY <1>1 DEF Kids
  <2>2. Head(kids[k].out) = kids[k].out[1] /\ 1 \in 1..Len(kids[k].out)
    BY <2>1
  <2> QED BY <2>2 DEF Inv, Quiet, NoJunk
<1> QED BY <1>2, <1>4, <1>5, <1>8, <1>9

LEMMA InitializedKeeps == ASSUME Inv, Initialized PROVE Inv'
<1> USE DEF config, clients, tables
<1> DEFINE line == Head(kids[Newest].out)
           c == cur.server
           good == Matches(line, 1) /\ line.kind = "ok"
<1>0. /\ Newest \in 1..Len(kids) /\ kids[Newest] \in Kids /\ stage = "init"
      /\ kids[Newest].server = c /\ c \in Servers /\ client[c] = 0
      /\ kids[Newest].out # <<>> /\ client \in [Servers -> Nat] /\ nextId \in [Servers -> Nat]
      /\ UNCHANGED <<config, tables, babble>>
  BY DEF Inv, Shape, Placed, Exchanging, Initialized
<1>1. CASE good
  <2>1. /\ kids' = [kids EXCEPT ![Newest].out = Tail(@)]
        /\ client' = [client EXCEPT ![c] = Newest]
        /\ nextId' = [nextId EXCEPT ![c] = 2]
        /\ closed' = closed \ {c} /\ stage' = "send"
        /\ UNCHANGED <<toList, cur, asked, results>>
    BY <1>1 DEF Initialized
  <2>2. kids' = [kids EXCEPT ![Newest] =
                     [kids[Newest] EXCEPT !.out = Tail(@), !.alive = kids[Newest].alive]]
    BY <1>0, <2>1 DEF Kids
  <2>3. kids[Newest].alive \in BOOLEAN
    BY <1>0 DEF Kids
  <2>4. KidsKeep /\ Load(kids'[Newest]) = Load(kids[Newest]) - 1
    BY <1>0, <2>2, <2>3, FirstLine
  <2>5. /\ client' \in [Servers -> Nat] /\ client'[c] = Newest /\ Newest # 0
        /\ \A s \in Servers \ {c} : client'[s] = client[s] /\ nextId'[s] = nextId[s]
        /\ nextId'[c] = 2
    BY <1>0, <2>1
  <2>6. \A s \in Servers \ {c} : client[s] # 0 => client[s] \in 1..Len(kids) /\ client[s] # Newest
    BY <1>0 DEF Inv, Placed
  <2>7. Shape'
    BY <1>0, <2>1, <2>4, <2>5 DEF Inv, Shape, KidsKeep, Exchanging
  <2>8. Placed'
    BY <1>0, <2>1, <2>4, <2>5, <2>6 DEF Inv, Placed, KidsKeep, Tamer, Exchanging
  <2>9. Numbered'
    <3>1. ASSUME NEW s \in Servers, client'[s] # 0, NEW r \in Requests,
                 Has(kids'[client'[s]], r)
          PROVE  r.id < nextId'[s]
      <4>1. CASE s = c
        <5>1. Has(kids[Newest], r)
          BY <1>0, <2>4, <2>5, <3>1, <4>1 DEF KidsKeep, Tamer
        <5> QED BY <1>0, <2>5, <4>1, <5>1 DEF Inv, Numbered
      <4>2. CASE s # c
        <5>1. Has(kids[client[s]], r)
          BY <2>4, <2>5, <2>6, <3>1, <4>2 DEF KidsKeep, Tamer
        <5> QED BY <2>5, <3>1, <4>2, <5>1 DEF Inv, Numbered
      <4> QED BY <4>1, <4>2
    <3> QED BY <2>1, <3>1 DEF Numbered
  <2>10. Quiet'
    BY <1>0, <2>4 DEF Inv, Quiet, KidsKeep, Tamer
  <2>11. Drained'
    <3>1. ASSUME ~rude, flavor = "bridge", NEW s \in Servers \ closed', client'[s] # 0
          PROVE  Load(kids'[client'[s]]) = 0
      <4>1. CASE s = c
        <5>1. Load(kids[Newest]) <= 1 /\ Load(kids[Newest]) \in Nat
          BY <1>0, <3>1, LoadType DEF Inv, Drained
        <5>2. Load(kids'[Newest]) \in Nat
          BY <1>0, <2>4, LoadType DEF KidsKeep, Tamer
        <5> QED BY <2>4, <2>5, <4>1, <5>1, <5>2
      <4>2. CASE s # c
        <5>1. client'[s] = client[s] /\ client[s] \in 1..Len(kids) /\ s \notin closed
          BY <2>1, <2>5, <2>6, <3>1, <4>2
        <5>2. Load(kids[client[s]]) = 0
          BY <1>0, <3>1, <5>1 DEF Inv, Drained
        <5>3. Load(kids'[client[s]]) \in Nat /\ Load(kids'[client[s]]) <= 0
          BY <2>4, <3>1, <5>1, <5>2, LoadType DEF KidsKeep, Tamer
        <5> QED BY <5>1, <5>3
      <4> QED BY <4>1, <4>2
    <3> QED BY <1>0, <2>1, <3>1 DEF Drained
  <2>12. NoOrphans'
    <3>1. ASSUME NEW k \in 1..Len(kids), kids'[k].alive, flavor = "external" \/ ~rude
          PROVE  client'[kids'[k].server] = k
      <4>1. kids[k].alive /\ kids'[k].server = kids[k].server /\ kids[k].server \in Servers
        BY <2>4, <3>1 DEF Inv, Shape, KidsKeep, Tamer, Kids
      <4>2. CASE k = Newest
        BY <1>0, <2>5, <4>1, <4>2
      <4>3. CASE k # Newest
        BY <1>0, <2>5, <3>1, <4>1, <4>3 DEF Inv, NoOrphans
      <4> QED BY <4>2, <4>3
    <3> QED BY <1>0, <2>4, <3>1 DEF NoOrphans, KidsKeep
  <2>13. OwnAnswer' /\ CallsReachShownTool'
    BY <1>0, <2>1 DEF Inv, OwnAnswer, CallsReachShownTool
  <2> QED BY <2>7, <2>8, <2>9, <2>10, <2>11, <2>12, <2>13 DEF Inv
<1>2. CASE ~good
  <2> DEFINE dies == Matches(line, 1) \/ flavor = "external"
             alive == IF dies THEN FALSE ELSE kids[Newest].alive
  <2>1. EndWithError /\ UNCHANGED <<client, closed, nextId>>
    BY <1>2 DEF Initialized
  <2>2. kids' = [kids EXCEPT ![Newest] =
                     [kids[Newest] EXCEPT !.out = Tail(@), !.alive = alive]]
    <3>1. CASE dies
      BY <1>0, <1>2, <3>1 DEF Initialized, Kids
    <3>2. CASE ~dies
      BY <1>0, <1>2, <3>2 DEF Initialized, Kids
    <3> QED BY <3>1, <3>2
  <2>3. alive \in BOOLEAN /\ (alive => kids[Newest].alive)
    BY <1>0 DEF Kids
  <2> HIDE DEF alive
  <2>4. /\ KidsKeep /\ kids'[Newest].alive = alive
        /\ line \in Lines
        /\ line.kind # "junk" => Has(kids[Newest], About(line))
        /\ ~rude => line.kind # "junk"
    BY <1>0, <2>2, <2>3, FirstLine
  <2>5. ~rude => Matches(line, 1)
    <3>1. About(line) \in Requests
      BY <2>4 DEF About, Requests, Lines
    <3> QED BY <1>0, <2>4, <3>1 DEF Inv, Numbered, Matches, About
  <2>6. ~kids'[Newest].alive \/ (rude /\ flavor = "bridge")
    BY <2>4, <2>5 DEF alive, Inv, Shape
  <2>7. Concluded
    BY <1>0, <2>1, <2>6, ErrorIsTrue DEF Concluded, Inv, Shape
  <2>8. /\ bindings' \in [Names -> Servers \cup {NoServer}]
        /\ registry' \in [Names -> Servers \cup {NoServer}] /\ CallsReachShownTool'
    BY <1>0 DEF Inv, Shape, CallsReachShownTool
  <2> QED BY <1>0, <2>1, <2>4, <2>7, <2>8, ErrorIsTrue, ConcludedKeeps DEF Exchanging
<1> QED BY <1>1, <1>2

\* An error that leaves the client as it is, or drops it with its child.
LEMMA FailListKeeps ==
    ASSUME Inv, FailList, stage \in {"send", "write", "wait"}, UNCHANGED <<config, tables, closed>>,
           nextId' \in [Servers -> Nat], \A s \in Servers : nextId[s] <= nextId'[s],
           stage = "wait" => flavor = "external"
    PROVE  Inv'
<1> USE DEF config, clients, tables
<1> DEFINE c == client[cur.server]
<1>1. c \in 1..Len(kids) /\ kids[c] \in Kids
  BY DEF Inv, Shape, Placed, Exchanging
<1>2. EndWithError
  BY DEF FailList
<1>3. /\ bindings' \in [Names -> Servers \cup {NoServer}]
      /\ registry' \in [Names -> Servers \cup {NoServer}] /\ CallsReachShownTool'
  BY DEF Inv, Shape, CallsReachShownTool
<1>4. CASE flavor = "external" /\ cur.what = "list"
  <2>1. /\ kids' = [kids EXCEPT ![c] = [kids[c] EXCEPT !.alive = FALSE]]
        /\ client' = [client EXCEPT ![cur.server] = 0]
    BY <1>1, <1>4 DEF FailList, Killed
  <2>2. KidsKeep /\ kids'[c] = [kids[c] EXCEPT !.alive = FALSE]
    BY <1>1, <2>1, KilledIsTamer, ChangeKeeps DEF Inv
  <2>3. ~kids'[c].alive
    BY <1>1, <2>2 DEF Kids
  <2>4. c # 0
    BY <1>1
  <2>5. Concluded
    BY <1>2, <1>4, <2>1, <2>3, <2>4, ErrorIsTrue DEF Concluded, Inv, Shape
  <2> QED BY <1>2, <1>3, <2>2, <2>5, ErrorIsTrue, ConcludedKeeps DEF Exchanging
<1>5. CASE ~(flavor = "external" /\ cur.what = "list")
  <2>1. UNCHANGED <<kids, client>>
    BY <1>5 DEF FailList
  <2>2. Concluded
    BY <1>2, <2>1, ErrorIsTrue DEF Concluded, Inv, Shape
  <2> QED BY <1>2, <1>3, <2>1, <2>2, ErrorIsTrue, SameKeeps, ConcludedKeeps
          DEF Exchanging, Inv
<1> QED BY <1>4, <1>5

\* The request is one more thing the child has, with a number of its own.
LEMMA SentIsNew ==
    ASSUME NEW kid \in Kids, NEW q \in Requests
    PROVE  LET new == [kid EXCEPT !.todo = Append(@, q)]
           IN  /\ new \in Kids /\ new.server = kid.server /\ new.alive = kid.alive
               /\ Load(new) = Load(kid) + 1
               /\ NoJunk(kid) => NoJunk(new)
               /\ \A r \in Requests : Has(new, r) => Has(kid, r) \/ r = q
<1> DEFINE new == [kid EXCEPT !.todo = Append(@, q)]
<1>1. kid.todo \in Seq(Requests) /\ kid.out \in Seq(Lines)
  BY DEF Kids
<1>2. Append(kid.todo, q) \in Seq(Requests)
  BY <1>1
<1>3. /\ new \in Kids /\ new.server = kid.server /\ new.alive = kid.alive
      /\ new.out = kid.out /\ new.last = kid.last /\ new.todo = Append(kid.todo, q)
  BY <1>2 DEF Kids
<1> HIDE DEF new
<1>4. PICK n \in Nat : Len(kid.todo) = n
  BY <1>1
<1>5. PICK m \in Nat : Len(kid.out) = m
  BY <1>1
<1>6. /\ Len(new.todo) = n + 1
      /\ \A i \in 1..(n + 1) : new.todo[i] = IF i = n + 1 THEN q ELSE kid.todo[i]
  BY <1>1, <1>3, <1>4
<1>7. Load(new) = m + (n + 1) /\ Load(kid) = m + n
  <2>1. Len(new.out) = m /\ n + 1 \in Nat
    BY <1>3, <1>5
  <2> QED BY <1>4, <1>5, <1>6, <2>1, LoadIs
<1>8. \A r \in Requests : Has(new, r) => Has(kid, r) \/ r = q
  <2>1. ASSUME NEW i \in 1..Len(new.todo)
        PROVE  new.todo[i] = q \/ \E j \in 1..Len(kid.todo) : new.todo[i] = kid.todo[j]
    BY <1>4, <1>6, <2>1
  <2> QED BY <1>3, <2>1 DEF Has
<1>9. NoJunk(kid) => NoJunk(new)
  BY <1>3 DEF NoJunk
<1>10. Load(new) = Load(kid) + 1
  BY <1>7
<1> QED BY <1>3, <1>8, <1>9, <1>10 DEF new

LEMMA SendsKeeps == ASSUME Inv, Sends, stage \in {"send", "write"} PROVE Inv'
<1> USE DEF config, clients, tables
<1> DEFINE p == cur.server
           c == client[p]
           q == [id |-> nextId[p], asked |-> asked]
<1>0. /\ stage \in {"send", "write"} /\ p \in Servers /\ c \in 1..Len(kids) /\ c # 0 /\ kids[c] \in Kids
      /\ kids \in Seq(Kids) /\ kids[c].server = p
      /\ nextId \in [Servers -> Nat] /\ asked \in Nat
      /\ nextId' = [nextId EXCEPT ![p] = @ + 1]
      /\ UNCHANGED <<config, closed, tables, babble>>
  BY DEF Inv, Shape, Placed, Exchanging, Sends
<1>1. nextId' \in [Servers -> Nat] /\ \A s \in Servers : nextId[s] <= nextId'[s]
  BY <1>0
<1>2. CASE p \in closed \/ ~Kid.alive
  BY <1>0, <1>1, <1>2, FailListKeeps DEF Sends
<1>3. CASE ~(p \in closed \/ ~Kid.alive)
  <2> DEFINE new == [kids[c] EXCEPT !.todo = Append(@, q)]
  <2>1. /\ kids' = [kids EXCEPT ![c] = new]
        /\ cur' = [cur EXCEPT !.id = nextId[p]]
        /\ stage' = "wait" /\ UNCHANGED <<client, toList, asked, results>>
    BY <1>0, <1>3 DEF Sends
  <2>2. q \in Requests
    BY <1>0 DEF Requests
  <2>3. /\ new \in Kids /\ new.server = p /\ new.alive = kids[c].alive
        /\ Load(new) = Load(kids[c]) + 1
        /\ NoJunk(kids[c]) => NoJunk(new)
        /\ \A r \in Requests : Has(new, r) => Has(kids[c], r) \/ r = q
    BY <1>0, <2>2, SentIsNew
  <2> HIDE DEF new
  <2>4. /\ kids' \in Seq(Kids) /\ Len(kids') = Len(kids) /\ kids'[c] = new
        /\ \A k \in 1..Len(kids) : k # c => kids'[k] = kids[k]
    BY <1>0, <2>1, <2>3
  <2>5. cur'.server = p /\ cur'.id = nextId[p] /\ cur'.what = cur.what
        /\ cur' \in [server : Servers \cup {NoServer}, what : {"none", "list", "call"}, id : Nat]
    BY <1>0, <2>1 DEF Inv, Shape
  <2>6. \A s \in Servers \ {p} : client[s] # 0 =>
            client[s] \in 1..Len(kids) /\ client[s] # c /\ nextId'[s] = nextId[s]
    BY <1>0 DEF Inv, Placed
  <2>7. Shape'
    BY <1>0, <1>1, <2>1, <2>4, <2>5 DEF Inv, Shape, Exchanging
  <2>8. Placed'
    BY <1>0, <2>1, <2>3, <2>4, <2>5, <2>6 DEF Inv, Placed
  <2>9. Numbered'
    <3>1. nextId'[p] = nextId[p] + 1 /\ nextId[p] \in Nat
      BY <1>0
    <3>2. \A r \in Requests : Has(kids[c], r) => r.id < nextId[p] /\ r.id \in Nat
      BY <1>0 DEF Inv, Numbered, Requests
    <3>3. \A r \in Requests : Has(new, r) => /\ r.id < nextId'[p]
                                             /\ r.id = nextId[p] => r.asked = asked
      BY <2>3, <3>1, <3>2
    <3>4. ASSUME NEW s \in Servers \ {p}, client[s] # 0
          PROVE  \A r \in Requests : Has(kids'[client[s]], r) => r.id < nextId'[s]
      BY <2>4, <2>6, <3>4 DEF Inv, Numbered
    <3> QED BY <2>1, <2>4, <2>5, <3>1, <3>3, <3>4 DEF Numbered, Kid
  <2>10. Quiet'
    BY <1>0, <2>3, <2>4 DEF Inv, Quiet
  <2>11. Drained'
    <3>1. ASSUME ~rude, flavor = "bridge", NEW s \in Servers \ closed, client[s] # 0
          PROVE  Load(kids'[client[s]]) = 0 \/ (Load(kids'[client[s]]) = 1 /\ s = p)
      <4>1. Load(kids[client[s]]) = 0
        BY <1>0, <3>1 DEF Inv, Drained
      <4> QED BY <2>3, <2>4, <2>6, <3>1, <4>1
    <3> QED BY <1>0, <2>1, <2>5, <3>1 DEF Drained
  <2>12. NoOrphans'
    <3>1. \A k \in 1..Len(kids) : kids'[k].alive = kids[k].alive /\ kids'[k].server = kids[k].server
      BY <1>0, <2>3, <2>4
    <3> QED BY <1>0, <2>1, <2>4, <3>1 DEF Inv, NoOrphans
  <2>13. OwnAnswer' /\ CallsReachShownTool'
    BY <1>0, <2>1 DEF Inv, OwnAnswer, CallsReachShownTool
  <2> QED BY <2>7, <2>8, <2>9, <2>10, <2>11, <2>12, <2>13 DEF Inv
<1> QED BY <1>2, <1>3

\* What a listing binds the names to is what it registers them for.
LEMMA RegisteredIsBound ==
    ASSUME Inv, NEW p \in Servers, RegisterTools(p) \/ UNCHANGED tables, flavor' = flavor
    PROVE  /\ bindings' \in [Names -> Servers \cup {NoServer}]
           /\ registry' \in [Names -> Servers \cup {NoServer}] /\ CallsReachShownTool'
<1>1. /\ bindings \in [Names -> Servers \cup {NoServer}]
      /\ registry \in [Names -> Servers \cup {NoServer}] /\ CallsReachShownTool
  BY DEF Inv, Shape
<1>2. CASE UNCHANGED tables
  BY <1>1, <1>2 DEF tables, CallsReachShownTool
<1>3. CASE RegisterTools(p)
  BY <1>1, <1>3 DEF RegisterTools, Bind, CallsReachShownTool
<1> QED BY <1>2, <1>3

LEMMA ReceiveAnswerKeeps == ASSUME Inv, ReceiveAnswer PROVE Inv'
<1> USE DEF config, clients
<1> DEFINE p == cur.server
           c == client[p]
           line == Head(kids[c].out)
           good == Matches(line, cur.id) /\ line.kind = "ok"
           dies == ~good /\ flavor = "external" /\ cur.what = "list"
           alive == IF dies THEN FALSE ELSE kids[c].alive
<1>0. /\ stage = "wait" /\ p \in Servers /\ c \in 1..Len(kids) /\ c # 0 /\ kids[c] \in Kids
      /\ kids[c].out # <<>> /\ asked \in Nat /\ results \in Seq(Outcomes)
      /\ nextId \in [Servers -> Nat] /\ cur.id \in Nat
      /\ UNCHANGED <<config, closed, nextId, babble>>
  BY DEF Inv, Shape, Placed, Exchanging, ReceiveAnswer, Kid
<1>1. kids' = [kids EXCEPT ![c] = [kids[c] EXCEPT !.out = Tail(@), !.alive = alive]]
  <2>1. CASE dies
    BY <1>0, <2>1 DEF ReceiveAnswer, Kid, Kids
  <2>2. CASE ~dies
    BY <1>0, <2>2 DEF ReceiveAnswer, Kid, Kids
  <2> QED BY <2>1, <2>2
<1>2. alive \in BOOLEAN /\ (alive => kids[c].alive)
  BY <1>0 DEF Kids
<1>3. client' = IF dies THEN [client EXCEPT ![p] = 0] ELSE client
  BY DEF ReceiveAnswer, Kid
<1>4. /\ dies => ~alive
      /\ good => EndWith(TRUE, line.asked)
      /\ ~good => EndWithError
  BY DEF ReceiveAnswer, Kid
<1>5. RegisterTools(p) \/ UNCHANGED tables
  BY DEF ReceiveAnswer, Kid
<1> HIDE DEF alive
<1>6. /\ KidsKeep /\ kids'[c].alive = alive
      /\ Load(kids'[c]) = Load(kids[c]) - 1
      /\ line \in Lines /\ (line.kind # "junk" => Has(kids[c], About(line)))
  BY <1>0, <1>1, <1>2, FirstLine
<1>7. /\ results' \in Seq(Outcomes) /\ OwnAnswer'
      /\ stage' \in {"list", "calls"} /\ cur' = NoExchange /\ UNCHANGED <<toList, asked>>
  <2>1. CASE good
    <3>1. About(line) \in Requests /\ About(line).id = line.id /\ About(line).asked = line.asked
      BY <1>6 DEF About, Requests, Lines
    <3>2. line.asked = asked
      BY <1>0, <1>6, <2>1, <3>1 DEF Inv, Numbered, Kid, Matches
    <3> DEFINE outcome == [ok |-> TRUE, asked |-> asked, answer |-> line.asked]
    <3>3. outcome \in Outcomes /\ outcome.answer = outcome.asked
      BY <1>0, <3>2 DEF Outcomes
    <3>4. results' = results \/ results' = Append(results, outcome)
      BY <1>4, <2>1 DEF EndWith
    <3> HIDE DEF outcome
    <3>5. results' \in Seq(Outcomes)
      <4>1. results \in Seq(Outcomes) /\ outcome \in Outcomes
        BY <1>0, <3>3
      <4>2. Append(results, outcome) \in Seq(Outcomes)
        BY ONLY <4>1
      <4> QED BY <3>4, <4>1, <4>2
    <3>6. OwnAnswer'
      <4>1. CASE results' = results
        BY <4>1 DEF Inv, OwnAnswer
      <4>2. CASE results' = Append(results, outcome)
        <5>1. \A i \in DOMAIN results' : \/ i \in DOMAIN results /\ results'[i] = results[i]
                                        \/ results'[i] = outcome
          BY <1>0, <3>3, <4>2
        <5> QED BY <3>3, <5>1 DEF Inv, OwnAnswer
      <4> QED BY <3>4, <4>1, <4>2
    <3> QED BY <1>4, <2>1, <3>5, <3>6 DEF EndWith
  <2>2. CASE ~good
    BY <1>4, <2>2, ErrorIsTrue
  <2> QED BY <2>1, <2>2
<1>8. \/ rude \/ flavor = "external" \/ p \in closed \/ Load(kids'[c]) = 0
  <2>1. Load(kids'[c]) \in Nat
    BY <1>0, <1>6, LoadType DEF KidsKeep, Tamer
  <2>2. Load(kids[c]) \in Nat
    BY <1>0, LoadType
  <2> QED BY <1>0, <1>6, <2>1, <2>2 DEF Inv, Drained, Shape
<1>9. Concluded
  BY <1>0, <1>3, <1>4, <1>6, <1>7, <1>8 DEF Concluded, Inv, Shape
<1> QED BY <1>0, <1>5, <1>6, <1>7, <1>9, RegisteredIsBound, ConcludedKeeps DEF Exchanging

LEMMA NoAnswerKeeps == ASSUME Inv, NoAnswer PROVE Inv'
<1> USE DEF config, clients
<1> DEFINE p == cur.server
           c == client[p]
<1>0. /\ stage = "wait" /\ p \in Servers /\ c \in 1..Len(kids) /\ kids[c] \in Kids
      /\ nextId \in [Servers -> Nat]
      /\ UNCHANGED <<config, nextId, tables, babble>>
  BY DEF Inv, Shape, Placed, Exchanging, NoAnswer, Kid
<1>1. CASE flavor = "bridge"
  <2>1. /\ kids' = [kids EXCEPT ![c] = [kids[c] EXCEPT !.alive = FALSE]]
        /\ closed' = closed \cup {p} /\ EndWithError /\ UNCHANGED client
    BY <1>0, <1>1 DEF NoAnswer, Killed
  <2>2. KidsKeep
    BY <1>0, <2>1, KilledIsTamer, ChangeKeeps DEF Inv
  <2>3. Concluded
    BY <1>0, <2>1, ErrorIsTrue DEF Concluded, Inv, Shape
  <2> QED BY <1>0, <2>1, <2>2, <2>3, ErrorIsTrue, RegisteredIsBound, ConcludedKeeps
          DEF Exchanging
<1>2. CASE flavor # "bridge"
  BY <1>0, <1>2, FailListKeeps DEF NoAnswer, Inv, Shape
<1> QED BY <1>1, <1>2

-----------------------------------------------------------------------------
\* The steps of the plugins

LEMMA AnswersIsTamer ==
    ASSUME NEW kid \in Kids, kid.todo # <<>>, NEW kind \in {"ok", "error"},
           NEW line, line = [id |-> Head(kid.todo).id, kind |-> kind,
                             asked |-> Head(kid.todo).asked]
    PROVE  Tamer([kid EXCEPT !.todo = Tail(@), !.last = <<line>>,
                             !.out = Append(@, line)], kid)
<1> DEFINE new == [kid EXCEPT !.todo = Tail(@), !.last = <<line>>, !.out = Append(@, line)]
<1>1. kid.todo \in Seq(Requests) /\ kid.out \in Seq(Lines)
  BY DEF Kids
<1>2. /\ kid.todo[1] \in Requests /\ Head(kid.todo) = kid.todo[1] /\ 1 \in 1..Len(kid.todo)
  BY <1>1
<1>3. line \in Lines /\ About(line) = kid.todo[1] /\ line.kind # "junk"
  BY <1>2 DEF Lines, Requests, About
<1>4. Tail(kid.todo) \in Seq(Requests)
  BY <1>1
<1>5. Append(kid.out, line) \in Seq(Lines) /\ <<line>> \in Seq(Lines)
  BY <1>1, <1>3
<1>6. /\ new \in Kids /\ new.server = kid.server /\ new.alive = kid.alive
      /\ new.todo = Tail(kid.todo) /\ new.out = Append(kid.out, line) /\ new.last = <<line>>
  BY <1>4, <1>5 DEF Kids
<1> HIDE DEF new
<1>7. PICK m \in Nat : Len(kid.out) = m
  BY <1>1
<1>8. PICK n \in Nat : Len(kid.todo) = n + 1
  <2>1. PICK j \in Nat : Len(kid.todo) = j
    BY <1>1
  <2>2. j # 0
    BY <1>1, <2>1
  <2>3. j - 1 \in Nat /\ j = (j - 1) + 1
    BY <2>1, <2>2
  <2> QED BY <2>1, <2>3
<1>9. /\ Len(new.todo) = n /\ \A i \in 1..n : new.todo[i] = kid.todo[i + 1]
  BY <1>1, <1>6, <1>8
<1>10. /\ Len(new.out) = m + 1
       /\ \A i \in 1..(m + 1) : new.out[i] = IF i = m + 1 THEN line ELSE kid.out[i]
  BY <1>1, <1>3, <1>6, <1>7
<1>11. Load(new) = (m + 1) + n /\ Load(kid) = m + (n + 1)
  <2>1. m + 1 \in Nat /\ n + 1 \in Nat /\ Len(new.out) = m + 1 /\ Len(new.todo) = n
    BY <1>9, <1>10
  <2> QED BY <1>7, <1>8, <2>1, LoadIs
<1>12. NoJunk(kid) => NoJunk(new)
  BY <1>3, <1>7, <1>10 DEF NoJunk
<1>13. ASSUME NEW r \in Requests, Has(new, r)
       PROVE  Has(kid, r)
  <2>1. \A i \in 1..Len(new.todo) : i + 1 \in 1..Len(kid.todo) /\ new.todo[i] = kid.todo[i + 1]
    BY <1>8, <1>9
  <2>2. \A i \in 1..Len(new.out) :
            new.out[i] = line \/ \E j \in 1..Len(kid.out) : new.out[i] = kid.out[j]
    BY <1>7, <1>10
  <2>3. \A i \in 1..Len(new.last) : new.last[i] = line
    BY <1>6
  <2>4. About(line) = r => Has(kid, r)
    BY <1>2, <1>3 DEF Has
  <2>5. CASE \E i \in 1..Len(new.todo) : new.todo[i] = r
    BY <2>1, <2>5 DEF Has
  <2>6. CASE \E i \in 1..Len(new.out) : new.out[i].kind # "junk" /\ About(new.out[i]) = r
    BY <2>2, <2>4, <2>6 DEF Has
  <2>7. CASE \E i \in 1..Len(new.last) : new.last[i].kind # "junk" /\ About(new.last[i]) = r
    BY <2>3, <2>4, <2>7
  <2> QED BY <1>13, <2>5, <2>6, <2>7 DEF Has
<1>14. Tamer(new, kid)
  BY <1>6, <1>11, <1>12, <1>13 DEF Tamer
<1> QED BY <1>14 DEF new

LEMMA BabbleIsTamer ==
    ASSUME NEW kid \in Kids, rude,
           NEW line \in {[id |-> 0, kind |-> "junk", asked |-> 0]} \cup Range(kid.last)
    PROVE  Tamer([kid EXCEPT !.out = Append(@, line)], kid)
<1> DEFINE new == [kid EXCEPT !.out = Append(@, line)]
<1>1. kid.out \in Seq(Lines) /\ kid.last \in Seq(Lines)
  BY DEF Kids
<1>2. \/ line = [id |-> 0, kind |-> "junk", asked |-> 0]
      \/ \E i \in 1..Len(kid.last) : line = kid.last[i]
  <2>1. DOMAIN kid.last = 1..Len(kid.last)
    BY <1>1
  <2> QED BY <2>1 DEF Range
<1>3. line \in Lines
  <2>1. \A i \in 1..Len(kid.last) : kid.last[i] \in Lines
    BY <1>1
  <2>2. [id |-> 0, kind |-> "junk", asked |-> 0] \in Lines
    BY DEF Lines
  <2> QED BY <1>2, <2>1, <2>2
<1>4. Append(kid.out, line) \in Seq(Lines)
  BY <1>1, <1>3
<1>5. /\ new \in Kids /\ new.server = kid.server /\ new.alive = kid.alive
      /\ new.todo = kid.todo /\ new.out = Append(kid.out, line) /\ new.last = kid.last
  BY <1>4 DEF Kids
<1> HIDE DEF new
<1>6. \A i \in 1..Len(new.out) :
          new.out[i] = line \/ \E j \in 1..Len(kid.out) : new.out[i] = kid.out[j]
  BY <1>1, <1>5
<1>7. \A r \in Requests : line.kind # "junk" /\ About(line) = r => Has(kid, r)
  BY <1>2 DEF Has
<1>8. \A r \in Requests : Has(new, r) => Has(kid, r)
  BY <1>5, <1>6, <1>7 DEF Has
<1>9. Tamer(new, kid)
  BY <1>5, <1>8 DEF Tamer
<1> QED BY <1>9 DEF new

LEMMA KidNextKeeps == ASSUME Inv, KidNext PROVE Inv'
<1>0. CASE \E s \in Servers : ReadRequest(s)
  BY <1>0, SendsKeeps DEF ReadRequest
<1> SUFFICES ASSUME NEW k \in 1..Len(kids), KidAnswers(k) \/ KidBabbles(k) \/ KidExits(k)
             PROVE  Inv'
  BY <1>0 DEF KidNext
<1>2. kids[k] \in Kids
  BY DEF Inv, Shape
<1>3. CASE KidAnswers(k)
  <2>1. PICK kind \in {"ok", "error"} :
            LET line == [id |-> Head(kids[k].todo).id, kind |-> kind,
                         asked |-> Head(kids[k].todo).asked]
            IN  kids' = [kids EXCEPT ![k].todo = Tail(@), ![k].last = <<line>>,
                                     ![k].out = Append(@, line)]
    BY <1>3 DEF KidAnswers
  <2> DEFINE line == [id |-> Head(kids[k].todo).id, kind |-> kind,
                      asked |-> Head(kids[k].todo).asked]
             new == [kids[k] EXCEPT !.todo = Tail(@), !.last = <<line>>, !.out = Append(@, line)]
  <2>2. kids' = [kids EXCEPT ![k] = new]
    BY <1>2, <2>1 DEF Inv, Shape, Kids
  <2>3. Tamer(new, kids[k])
    BY <1>2, <1>3, AnswersIsTamer DEF KidAnswers
  <2> HIDE DEF new
  <2>4. KidsKeep
    BY <2>2, <2>3, ChangeKeeps DEF Inv
  <2> QED BY <1>3, <2>4, ChildrenKeep DEF KidAnswers
<1>4. CASE KidBabbles(k)
  <2>1. PICK line \in {[id |-> 0, kind |-> "junk", asked |-> 0]} \cup Range(kids[k].last) :
            kids' = [kids EXCEPT ![k] = [kids[k] EXCEPT !.out = Append(@, line)]]
    BY <1>4 DEF KidBabbles
  <2>2. KidsKeep
    BY <1>2, <1>4, <2>1, BabbleIsTamer, ChangeKeeps DEF KidBabbles, Inv
  <2> QED BY <1>4, <2>2, ChildrenKeep DEF KidBabbles
<1>5. CASE KidExits(k)
  <2>1. kids' = [kids EXCEPT ![k] = [kids[k] EXCEPT !.alive = FALSE]]
    BY <1>5 DEF KidExits, Killed
  <2>2. KidsKeep
    BY <1>2, <2>1, KilledIsTamer, ChangeKeeps DEF Inv
  <2> QED BY <1>5, <2>2, ChildrenKeep DEF KidExits
<1> QED BY <1>3, <1>4, <1>5

-----------------------------------------------------------------------------
LEMMA InvInit == Init => Inv
<1> SUFFICES ASSUME Init PROVE Inv
  OBVIOUS
<1>1. Shape
  BY DEF Init, Shape, NoExchange
<1>2. Placed /\ Numbered /\ Quiet /\ Drained
  BY DEF Init, Placed, Numbered, Quiet, Drained, Exchanging
<1>3. OwnAnswer /\ NoOrphans /\ CallsReachShownTool
  BY DEF Init, OwnAnswer, NoOrphans, CallsReachShownTool
<1> QED BY <1>1, <1>2, <1>3 DEF Inv

LEMMA InvHolds == Spec => []Inv
<1>1. ASSUME Inv, [Next]_vars
      PROVE  Inv'
  <2>1. CASE CallerNext
    BY <1>1, <2>1, GoingOn, SpawnKeeps, SpawnFailsKeeps, InitializedKeeps, GiveUpStartKeeps,
       SendsKeeps, ReceiveAnswerKeeps, NoAnswerKeeps
    DEF CallerNext, SendRequest, WriteFails
  <2>2. CASE KidNext
    BY <1>1, <2>2, KidNextKeeps
  <2>3. CASE UNCHANGED vars
    BY <1>1, <2>3, SameKeeps, ChildrenKeep DEF vars, Inv
  <2> QED BY <1>1, <2>1, <2>2, <2>3 DEF Next, Done
<1> QED BY <1>1, InvInit, PTL DEF Spec

\* Whatever plugins do: a call has its own answer and reaches the tool that was shown; no late
\* answer waits for the next call of the bridge, and no child runs on that nobody can reach, if
\* plugins only write what they are asked for.
THEOREM AlwaysInStep == Spec => []StaysInStep
<1>1. ASSUME Inv
      PROVE  ChannelDrained
  <2>1. ASSUME NEW s \in Servers, flavor = "bridge", ~rude, stage # "wait",
               client[s] # 0, s \notin closed
        PROVE  kids[client[s]].out = <<>> /\ kids[client[s]].todo = <<>>
    <3> DEFINE kid == kids[client[s]]
    <3>1. Load(kid) = 0 /\ kid \in Kids
      BY <1>1, <2>1 DEF Inv, Drained, Placed, Shape
    <3>2. kid.out \in Seq(Lines) /\ kid.todo \in Seq(Requests)
      BY <3>1 DEF Kids
    <3> HIDE DEF kid
    <3>3. PICK m \in Nat : Len(kid.out) = m
      BY <3>2
    <3>4. PICK n \in Nat : Len(kid.todo) = n
      BY <3>2
    <3>5. m = 0 /\ n = 0
      BY <3>1, <3>3, <3>4, LoadIs
    <3>6. kid.out = <<>>
      BY <3>2, <3>3, <3>5
    <3>7. kid.todo = <<>>
      BY <3>2, <3>4, <3>5
    <3> QED BY <3>6, <3>7 DEF kid
  <2> QED BY <2>1 DEF ChannelDrained
<1>2. Inv => StaysInStep
  BY <1>1 DEF StaysInStep, Inv
<1> QED BY <1>2, InvHolds, PTL

-----------------------------------------------------------------------------
(***************************************************************************)
(* The stream of the model                                                 *)
(***************************************************************************)

-----------------------------------------------------------------------------
\* FoldLeft: what it makes of a sequence with one element more

\* The two folds of LlmStream: reading the events, and converting the messages.
Unread == NewSlot
Unconverted == [list |-> <<>>, pending |-> FALSE, text |-> FALSE, calls |-> <<>>]
Reading(es) == FoldLeft(TakeEvent, Unread, es)
Converting(ms) == FoldLeft(Convert, Unconverted, ms)

Base(fold) == IF fold = "read" THEN Unread ELSE Unconverted
Digest(fold, acc, x) == IF fold = "read" THEN TakeEvent(acc, x) ELSE Convert(acc, x)

\* The sets of the first n places.
Places(n) == SUBSET (1..n)

\* g is what a fold makes of the elements of s at each of these sets.
Folds(fold, s, n, g) ==
    g = [d \in Places(n) |->
            IF d = {} THEN Base(fold) ELSE Digest(fold, g[d \ {Max(d)}], s[Max(d)])]

\* A set of places that is not empty has a last one.
LEMMA LastPlace ==
    ASSUME NEW n \in Nat, NEW d \in Places(n), d # {}
    PROVE  Max(d) \in d /\ Max(d) \in Nat /\ \A y \in d : Max(d) >= y
<1> DEFINE T == {m \in 0..n : \A c \in Places(m) : c # {} => \E x \in c : \A y \in c : x >= y}
<1>1. 0 \in T
  <2>1. \A c \in Places(0) : c = {}
    BY DEF Places
  <2>2. 0 \in 0..n
    OBVIOUS
  <2> QED BY <2>1, <2>2
<1>2. ASSUME NEW m \in 0..(n - 1), m \in T PROVE m + 1 \in T
  <2>1. ASSUME NEW c \in Places(m + 1), c # {}
        PROVE  \E x \in c : \A y \in c : x >= y
    <3>1. CASE m + 1 \in c
      <4>1. \A y \in c : m + 1 >= y
        BY DEF Places
      <4> QED BY <3>1, <4>1
    <3>2. CASE m + 1 \notin c
      <4>1. c \in Places(m)
        BY <3>2 DEF Places
      <4> QED BY <1>2, <2>1, <4>1
    <3> QED BY <3>1, <3>2
  <2>2. m + 1 \in 0..n
    OBVIOUS
  <2> QED BY <2>1, <2>2
<1> HIDE DEF T
<1>3. \A m \in 0..n : m \in T
  BY <1>1, <1>2, SetInduction
<1>4. n \in T
  BY <1>3
<1>5. \E x \in d : \A y \in d : x >= y
  BY <1>4 DEF T
<1>6. Max(d) \in d /\ \A y \in d : Max(d) >= y
  BY <1>5 DEF Max
<1>7. \A y \in d : y \in Nat
  BY DEF Places
<1> QED BY <1>6, <1>7, Zenon

\* The last place of an interval, and of a set with the last place there is.
LEMMA LastOfInterval ==
    ASSUME NEW n \in Nat, NEW x \in Nat, x = n + 1, NEW d \in Places(x), x \in d
    PROVE  Max(d) = x /\ d \ {x} \in Places(n)
<1>1. d \ {x} \in Places(n)
  BY DEF Places
<1>2. Max(d) \in d /\ Max(d) \in Nat /\ \A y \in d : Max(d) >= y
  BY LastPlace
<1>3. Max(d) <= x
  BY <1>2 DEF Places
<1> QED BY <1>1, <1>2, <1>3

\* g is defined step by step.
LEMMA FoldsIs ==
    ASSUME NEW fold, NEW s, NEW n, NEW g, Folds(fold, s, n, g)
    PROVE  \A d \in Places(n) :
               g[d] = IF d = {} THEN Base(fold) ELSE Digest(fold, g[d \ {Max(d)}], s[Max(d)])
  BY Zenon DEF Folds

\* There is such a g.
LEMMA FoldsExists ==
    ASSUME NEW fold, NEW s, NEW n \in Nat
    PROVE  \E g : Folds(fold, s, n, g)
<1> DEFINE T == {m \in 0..n : \E g : Folds(fold, s, m, g)}
<1>1. 0 \in T
  <2> DEFINE g == [d \in Places(0) |-> Base(fold)]
  <2>1. \A d \in Places(0) : d = {}
    BY DEF Places
  <2>2. g = [d \in Places(0) |->
               IF d = {} THEN Base(fold) ELSE Digest(fold, g[d \ {Max(d)}], s[Max(d)])]
    BY <2>1, Zenon
  <2>3. Folds(fold, s, 0, g)
    BY <2>2, Zenon DEF Folds
  <2> QED BY <2>3
<1>2. ASSUME NEW m \in 0..(n - 1), m \in T PROVE m + 1 \in T
  <2>1. PICK g : Folds(fold, s, m, g)
    BY <1>2
  <2>2. \A d \in Places(m) :
           g[d] = IF d = {} THEN Base(fold) ELSE Digest(fold, g[d \ {Max(d)}], s[Max(d)])
    BY <2>1, FoldsIs
  <2>3. PICK x : x = m + 1
    OBVIOUS
  <2>0. m \in Nat /\ x \in Nat /\ x \in 0..n
    BY <2>3
  <2> DEFINE k == [d \in Places(x) |->
                      IF x \in d THEN Digest(fold, g[d \ {x}], s[x]) ELSE g[d]]
  <2>4. ASSUME NEW d \in Places(x)
        PROVE  k[d] = IF d = {} THEN Base(fold) ELSE Digest(fold, k[d \ {Max(d)}], s[Max(d)])
    <3>1. CASE x \in d
      <4>1. Max(d) = x /\ d \ {x} \in Places(m) /\ d # {}
        BY <2>0, <2>3, <3>1, LastOfInterval
      <4>2. x \notin d \ {x} /\ d \ {x} \in Places(x)
        BY DEF Places
      <4>3. k[d \ {x}] = g[d \ {x}]
        BY <4>2, Zenon
      <4>4. k[d] = Digest(fold, g[d \ {x}], s[x])
        BY <3>1, Zenon
      <4> QED BY <4>1, <4>3, <4>4, Zenon
    <3>2. CASE x \notin d /\ d # {}
      <4>1. d \in Places(m)
        BY <2>0, <2>3, <3>2 DEF Places
      <4>2. Max(d) \in d
        BY <2>0, <3>2, <4>1, LastPlace
      <4>3. x \notin d \ {Max(d)} /\ d \ {Max(d)} \in Places(x)
        BY <3>2 DEF Places
      <4>4. k[d \ {Max(d)}] = g[d \ {Max(d)}]
        BY <4>3, Zenon
      <4>5. k[d] = g[d]
        BY <3>2, Zenon
      <4> QED BY <2>2, <3>2, <4>1, <4>4, <4>5, Zenon
    <3>3. CASE x \notin d /\ d = {}
      <4>1. d \in Places(m)
        BY <3>3 DEF Places
      <4>2. k[d] = g[d]
        BY <3>3, Zenon
      <4> QED BY <2>2, <3>3, <4>1, <4>2, Zenon
    <3> QED BY <3>1, <3>2, <3>3
  <2>5. k = [d \in Places(x) |-> k[d]]
    BY Zenon
  <2> HIDE DEF k
  <2>6. Folds(fold, s, x, k)
    BY <2>4, <2>5, Zenon DEF Folds
  <2> QED BY <2>0, <2>3, <2>6
<1> HIDE DEF T
<1>3. \A m \in 0..n : m \in T
  BY <1>1, <1>2, SetInduction
<1>4. n \in T
  BY <1>3
<1> QED BY <1>4 DEF T

\* What a fold makes of the first places, one after the other.
GoesOn(fold, s, n, g) ==
    \A m \in 0..n, x \in 1..n : x = m + 1 => g[1..x] = Digest(fold, g[1..m], s[x])

\* What a fold makes of one element.
LEMMA FoldsOne ==
    ASSUME NEW fold, NEW s, NEW n \in Nat, NEW g, Folds(fold, s, n, g)
    PROVE  g[1..0] = Base(fold) /\ GoesOn(fold, s, n, g)
<1>0. \A d \in Places(n) :
           g[d] = IF d = {} THEN Base(fold) ELSE Digest(fold, g[d \ {Max(d)}], s[Max(d)])
  BY FoldsIs
<1>1. g[1..0] = Base(fold)
  <2>1. 1..0 = {} /\ 1..0 \in Places(n)
    BY DEF Places
  <2> QED BY <1>0, <2>1, Zenon
<1>2. ASSUME NEW m \in 0..n, NEW x \in 1..n, x = m + 1
      PROVE  g[1..x] = Digest(fold, g[1..m], s[x])
  <2>1. PICK d : d = 1..x
    OBVIOUS
  <2>2. m \in Nat /\ x \in Nat /\ x \in d /\ d \in Places(n) /\ d \in Places(x)
    BY <2>1 DEF Places
  <2>6. d # {}
    BY <2>2
  <2>3. Max(d) = x
    BY <1>2, <2>2, LastOfInterval
  <2>5. d \ {x} = 1..m
    BY <1>2, <2>1
  <2>4. g[d] = IF d = {} THEN Base(fold) ELSE Digest(fold, g[d \ {Max(d)}], s[Max(d)])
    BY <1>0, <2>2, Zenon
  <2> QED BY <2>1, <2>3, <2>4, <2>5, <2>6, Zenon
<1> QED BY <1>1, <1>2 DEF GoesOn

\* What a fold makes of a sequence t that is one longer than s.
LEMMA FoldsLonger ==
    ASSUME NEW fold, NEW s, NEW t, NEW n \in Nat, NEW z \in Nat, z = n + 1,
           \A i \in 1..n : t[i] = s[i],
           NEW g, Folds(fold, s, n, g), NEW k, Folds(fold, t, z, k)
    PROVE  k[1..z] = Digest(fold, g[1..n], t[z])
<1> DEFINE T == {m \in 0..n : k[1..m] = g[1..m]}
<1>0. /\ \A m \in 0..n, x \in 1..n : x = m + 1 => g[1..x] = Digest(fold, g[1..m], s[x])
      /\ \A m \in 0..z, x \in 1..z : x = m + 1 => k[1..x] = Digest(fold, k[1..m], t[x])
  <2>1. \A m \in 0..n, x \in 1..n : x = m + 1 => g[1..x] = Digest(fold, g[1..m], s[x])
    <3>1. GoesOn(fold, s, n, g)
      BY FoldsOne
    <3> QED BY <3>1 DEF GoesOn
  <2>2. \A m \in 0..z, x \in 1..z : x = m + 1 => k[1..x] = Digest(fold, k[1..m], t[x])
    <3>1. GoesOn(fold, t, z, k)
      BY FoldsOne
    <3> QED BY <3>1 DEF GoesOn
  <2> QED BY <2>1, <2>2
<1>1. 0 \in T
  <2>1. g[1..0] = Base(fold) /\ k[1..0] = Base(fold)
    BY FoldsOne
  <2> QED BY <2>1
<1>2. ASSUME NEW m \in 0..(n - 1), m \in T PROVE m + 1 \in T
  <2>1. PICK x : x = m + 1
    OBVIOUS
  <2>2. x \in 1..n /\ x \in 1..z /\ m \in 0..n /\ m \in 0..z /\ x \in 0..n
    BY <2>1
  <2>3. g[1..x] = Digest(fold, g[1..m], s[x]) /\ k[1..x] = Digest(fold, k[1..m], t[x])
    BY <1>0, <2>1, <2>2, Zenon
  <2>4. k[1..m] = g[1..m] /\ t[x] = s[x]
    BY <1>2, <2>2
  <2>5. k[1..x] = g[1..x]
    BY <2>3, <2>4
  <2> QED BY <2>1, <2>2, <2>5
<1> HIDE DEF T
<1>3. \A m \in 0..n : m \in T
  BY <1>1, <1>2, SetInduction
<1>4. n \in T
  BY <1>3
<1>5. k[1..n] = g[1..n]
  BY <1>4 DEF T
<1>6. n \in 0..z /\ z \in 1..z
  OBVIOUS
<1>7. k[1..z] = Digest(fold, k[1..n], t[z])
  BY <1>0, <1>6, Zenon
<1> QED BY <1>5, <1>7

\* FoldLeft takes the last of what g makes, for either fold.
LEMMA ReadingTells ==
    ASSUME NEW s, NEW n \in Nat, DOMAIN s = 1..n
    PROVE  \E g : Folds("read", s, n, g) /\ Reading(s) = g[1..n]
<1> DEFINE P(g) == g = [d \in SUBSET DOMAIN s |->
                          IF d = {} THEN Unread
                          ELSE LET x == Max(d) IN TakeEvent(g[d \ {x}], s[x])]
           c == CHOOSE g : P(g)
<1>1. ASSUME NEW g PROVE P(g) <=> Folds("read", s, n, g)
  BY Zenon DEF Folds, Base, Digest, Places
<1>2. P(c)
  <2>1. \E g : P(g)
    BY <1>1, FoldsExists
  <2> HIDE DEF P
  <2> QED BY <2>1
<1>3. Reading(s) = c[DOMAIN s]
  BY DEF Reading, FoldLeft, MapThenFoldSet
<1> QED BY <1>1, <1>2, <1>3

\* The conversion of a conversation is a fold over its messages.
LEMMA ConvertingTells ==
    ASSUME NEW s, NEW n \in Nat, DOMAIN s = 1..n
    PROVE  \E g : Folds("convert", s, n, g) /\ Converting(s) = g[1..n]
<1> DEFINE P(g) == g = [d \in SUBSET DOMAIN s |->
                          IF d = {} THEN Unconverted
                          ELSE LET x == Max(d) IN Convert(g[d \ {x}], s[x])]
           c == CHOOSE g : P(g)
<1>1. ASSUME NEW g PROVE P(g) <=> Folds("convert", s, n, g)
  BY Zenon DEF Folds, Base, Digest, Places
<1>2. P(c)
  <2>1. \E g : P(g)
    BY <1>1, FoldsExists
  <2> HIDE DEF P
  <2> QED BY <2>1
<1>3. Converting(s) = c[DOMAIN s]
  BY DEF Converting, FoldLeft, MapThenFoldSet
<1> QED BY <1>1, <1>2, <1>3

\* Reading one event more.
LEMMA ReadOneMore ==
    ASSUME NEW S, NEW s \in Seq(S), NEW e
    PROVE  Reading(Append(s, e)) = TakeEvent(Reading(s), e)
<1>1. PICK t, n, z : t = Append(s, e) /\ n = Len(s) /\ z = n + 1
  OBVIOUS
<1>2. /\ n \in Nat /\ z \in Nat /\ DOMAIN s = 1..n /\ DOMAIN t = 1..z
      /\ t[z] = e /\ \A i \in 1..n : t[i] = s[i]
  BY <1>1
<1>3. PICK g : Folds("read", s, n, g) /\ Reading(s) = g[1..n]
  BY <1>2, ReadingTells, Zenon
<1>4. PICK k : Folds("read", t, z, k) /\ Reading(t) = k[1..z]
  BY <1>2, ReadingTells, Zenon
<1>5. k[1..z] = Digest("read", g[1..n], t[z])
  <2>1. z = n + 1
    BY <1>1
  <2>2. n \in Nat /\ z \in Nat /\ \A i \in 1..n : t[i] = s[i]
    BY <1>2
  <2>3. Folds("read", s, n, g) /\ Folds("read", t, z, k)
    BY <1>3, <1>4
  <2> QED BY ONLY <2>1, <2>2, <2>3, FoldsLonger
<1> QED BY <1>1, <1>2, <1>3, <1>4, <1>5, Zenon DEF Digest

\* No events leave the empty slot.
LEMMA ReadNothing == Reading(<<>>) = Unread
<1>1. DOMAIN <<>> = 1..0 /\ 0 \in Nat
  OBVIOUS
<1>2. PICK g : Folds("read", <<>>, 0, g) /\ Reading(<<>>) = g[1..0]
  BY <1>1, ReadingTells, Zenon
<1>3. g[1..0] = Base("read")
  BY <1>1, <1>2, FoldsOne, Zenon
<1> QED BY <1>2, <1>3, Zenon DEF Base

\* Converting one message more.
LEMMA ConvertOneMore ==
    ASSUME NEW S, NEW s \in Seq(S), NEW m
    PROVE  Converting(Append(s, m)) = Convert(Converting(s), m)
<1>1. PICK t, n, z : t = Append(s, m) /\ n = Len(s) /\ z = n + 1
  OBVIOUS
<1>2. /\ n \in Nat /\ z \in Nat /\ DOMAIN s = 1..n /\ DOMAIN t = 1..z
      /\ t[z] = m /\ \A i \in 1..n : t[i] = s[i]
  BY <1>1
<1>3. PICK g : Folds("convert", s, n, g) /\ Converting(s) = g[1..n]
  BY <1>2, ConvertingTells, Zenon
<1>4. PICK k : Folds("convert", t, z, k) /\ Converting(t) = k[1..z]
  BY <1>2, ConvertingTells, Zenon
<1>5. k[1..z] = Digest("convert", g[1..n], t[z])
  <2>1. z = n + 1
    BY <1>1
  <2>2. n \in Nat /\ z \in Nat /\ \A i \in 1..n : t[i] = s[i]
    BY <1>2
  <2>3. Folds("convert", s, n, g) /\ Folds("convert", t, z, k)
    BY <1>3, <1>4
  <2> QED BY ONLY <2>1, <2>2, <2>3, FoldsLonger
<1> QED BY <1>1, <1>2, <1>3, <1>4, <1>5, Zenon DEF Digest

\* No messages leave nothing converted.
LEMMA ConvertNothing == Converting(<<>>) = Unconverted
<1>1. DOMAIN <<>> = 1..0 /\ 0 \in Nat
  OBVIOUS
<1>2. PICK g : Folds("convert", <<>>, 0, g) /\ Converting(<<>>) = g[1..0]
  BY <1>1, ConvertingTells, Zenon
<1>3. g[1..0] = Base("convert")
  BY <1>1, <1>2, FoldsOne, Zenon
<1> QED BY <1>2, <1>3, Zenon DEF Base


-----------------------------------------------------------------------------
\* The inductive invariant of a response: the state has its types

CallIds == [name : Tools \cup {NoName}, n : Nat]
Calls == [n : Nat, name : Tools, size : Nat, id : CallIds]
Pieces == [n : Nat, whole : BOOLEAN]
CallsTaken == [id : CallIds, name : Tools \cup {NoName}, args : Nat]
EventKinds ==
    {Text, Completed}
    \cup [kind : {"begin"}, id : CallIds, name : Tools]
    \cup [kind : {"args"}, id : CallIds, piece : Pieces]
    \cup [kind : {"end"}, id : CallIds]
Said == [kind : {"user", "system", "assistant", "call", "result"}, id : CallIds,
         name : Tools \cup {NoName}, text : BOOLEAN]

\* What the loop makes of the events so far.
R == Reading(events)
ReadType(r) ==
    r \in [name : Tools \cup {NoName}, args : Seq(Pieces), calls : Seq(CallsTaken),
           texts : Nat, bad : BOOLEAN]

\* A message of the wire, and what the conversion keeps.
Wired == [role : {"user", "assistant", "tool", "call", "model"}, text : BOOLEAN,
          calls : Seq(CallIds), answers : Seq(CallIds)]
ConvertType(w) ==
    w \in [list : Seq(Wired), pending : BOOLEAN, text : BOOLEAN, calls : Seq(CallIds)]

StreamType ==
    /\ provider \in {"compat", "gpt", "gemini", "echo"}
    /\ numbered \in BOOLEAN /\ (provider # "compat" => numbered)
    /\ phase \in {"request", "stream", "assemble", "execute", "idle", "failed"}
    /\ msgs \in Seq(Said) /\ msgs # <<>>
    /\ said \in Seq(Calls) /\ texts \in Nat
    /\ open \in [DOMAIN open -> [call : Calls, got : Nat]]
    /\ IsFiniteSet(DOMAIN open) /\ DOMAIN open \subseteq Nat
    /\ \A i \in DOMAIN open : open[i].got <= open[i].call.size
    /\ events \in Seq(EventKinds)
    /\ taken \in [calls : Seq(CallsTaken), texts : Nat]
    /\ interrupted \in BOOLEAN /\ overlap \in BOOLEAN /\ dropped \in BOOLEAN
    /\ withTools \in BOOLEAN

\* Who does not collect arguments has nothing open; who collects them by the index
\* never closes a call before the response ends; echo says all at once.
Streaming ==
    phase = "stream" =>
        /\ provider \in {"gemini", "echo"} => DOMAIN open = {}
        /\ provider = "compat" /\ DOMAIN open = {} => said = <<>>
        /\ provider = "echo" => events = <<>> /\ said = <<>> /\ texts = 0

\* The calls the loop has read are calls the model has made.
Matched(r, s) == \A k \in 1..Len(r.calls) : \E j \in 1..Len(s) : SameCall(r.calls[k], s[j])

\* As long as the model makes one call after the other, the slot belongs to the one
\* that is open.
OneByOne ==
    phase = "stream" /\ ~overlap =>
        /\ \A i, j \in DOMAIN open : i = j
        /\ \A i \in DOMAIN open :
              /\ \E j \in 1..Len(said) : said[j] = open[i].call
              /\ R.name = open[i].call.name

AsAsked == phase \in {"stream", "assemble"} /\ ~overlap /\ ~R.bad => Matched(R, said)

\* Every call the model has made was read, but for those that are open.
Whole == ~dropped /\ (numbered \/ ~overlap)
Found(r, s, j) == \E k \in 1..Len(r.calls) : r.calls[k].id = s[j].id
Accounted ==
    phase = "stream" /\ Whole /\ ~R.bad =>
        /\ R.texts = texts
        /\ Len(R.calls) + Cardinality(DOMAIN open) = Len(said)
        /\ \A i \in DOMAIN open : i \in 1..Len(said) /\ open[i].call = said[i]
        /\ \A j \in 1..Len(said) : j \in DOMAIN open \/ Found(R, said, j)

AllRead(r) ==
    /\ r.texts = texts
    /\ Len(r.calls) = Len(said)
    /\ \A j \in 1..Len(said) : Found(r, said, j)
Ended == phase = "assemble" /\ Whole /\ ~R.bad => AllRead(R)

\* What the loop has taken is what it has read.
Taken ==
    phase \in {"execute", "idle"} =>
        /\ ~overlap => Matched(taken, said)
        /\ Whole /\ withTools => AllRead(taken)

\* Between two callbacks the arguments of the slot are empty: they come with the end.
Emptied == R.args = <<>>

ResponseInv ==
    StreamType /\ Emptied /\ Streaming /\ OneByOne /\ AsAsked /\ Accounted /\ Ended /\ Taken

-----------------------------------------------------------------------------
\* Reading: types, and what each kind of event does

\* An event makes a response of a response.
LEMMA TakeType ==
    ASSUME NEW r, ReadType(r), NEW e \in EventKinds
    PROVE  ReadType(TakeEvent(r, e))
<1>1. CASE e = Text
  BY <1>1 DEF ReadType, TakeEvent, Text
<1>2. CASE e = Completed
  BY <1>2 DEF ReadType, TakeEvent, Completed
<1>3. CASE e \in [kind : {"begin"}, id : CallIds, name : Tools]
  <2>1. e.kind = "begin" /\ e.name \in Tools
    BY <1>3
  <2>2. TakeEvent(r, e) = [r EXCEPT !.name = e.name, !.args = <<>>]
    BY <2>1 DEF TakeEvent
  <2>3. <<>> \in Seq(Pieces)
    OBVIOUS
  <2> QED BY <2>1, <2>2, <2>3 DEF ReadType
<1>4. CASE e \in [kind : {"args"}, id : CallIds, piece : Pieces]
  <2>1. e.kind = "args" /\ e.piece \in Pieces
    BY <1>4
  <2>2. TakeEvent(r, e) = [r EXCEPT !.args = Append(@, e.piece)]
    BY <2>1 DEF TakeEvent
  <2>3. r.args \in Seq(Pieces)
    BY DEF ReadType
  <2>4. Append(r.args, e.piece) \in Seq(Pieces)
    BY <2>1, <2>3
  <2> QED BY <2>2, <2>4 DEF ReadType
<1>5. CASE e \in [kind : {"end"}, id : CallIds]
  <2>0. e.kind = "end" /\ e.id \in CallIds
    BY <1>5
  <2>1. ArgsValue(r.args) \in Nat
    <3>1. r.args \in Seq(Pieces)
      BY DEF ReadType
    <3>2. r.args # <<>> => r.args[1] \in Pieces
      BY <3>1
    <3>3. r.args # <<>> => r.args[1].n \in Nat
      BY <3>2 DEF Pieces
    <3> QED BY <3>3 DEF ArgsValue, NoArgs
  <2> DEFINE c == [id |-> e.id, name |-> r.name, args |-> ArgsValue(r.args)]
  <2>2. c \in CallsTaken
    BY <2>0, <2>1 DEF ReadType, CallsTaken
  <2> HIDE DEF c
  <2>3. TakeEvent(r, e) = IF Parses(r.args)
                          THEN [r EXCEPT !.calls = Append(@, c), !.name = NoName, !.args = <<>>]
                          ELSE [r EXCEPT !.bad = TRUE, !.args = <<>>]
    BY <2>0 DEF TakeEvent, c
  <2>4. <<>> \in Seq(Pieces)
    OBVIOUS
  <2>5. r.calls \in Seq(CallsTaken)
    BY DEF ReadType
  <2>6. Append(r.calls, c) \in Seq(CallsTaken)
    BY <2>2, <2>5
  <2> QED BY <2>3, <2>4, <2>6 DEF ReadType
<1> QED BY <1>1, <1>2, <1>3, <1>4, <1>5 DEF EventKinds

\* The empty slot is a response.
LEMMA UnreadType == ReadType(Unread)
  BY DEF ReadType, Unread, NewSlot

\* What is read of the events is a response.
LEMMA ReadingType ==
    ASSUME NEW es \in Seq(EventKinds)
    PROVE  ReadType(Reading(es))
<1> DEFINE T == {k \in 0..Len(es) : ReadType(Reading(FirstOf(es, k)))}
<1>1. 0 \in T
  BY FirstAndAll, ReadNothing, UnreadType
<1>2. ASSUME NEW k \in 0..(Len(es) - 1), k \in T PROVE k + 1 \in T
  <2>1. PICK s : s = FirstOf(es, k)
    OBVIOUS
  <2>2. s \in Seq(EventKinds) /\ es[k + 1] \in EventKinds
        /\ FirstOf(es, k + 1) = Append(s, es[k + 1])
    BY <2>1 DEF FirstOf
  <2>3. Reading(FirstOf(es, k + 1)) = TakeEvent(Reading(s), es[k + 1])
    BY <2>2, ReadOneMore
  <2>4. ReadType(Reading(FirstOf(es, k + 1)))
    BY <1>2, <2>1, <2>2, <2>3, TakeType
  <2> QED BY <2>4
<1> HIDE DEF T
<1>3. Len(es) \in Nat /\ \A k \in 0..Len(es) : k \in T
  BY <1>1, <1>2, SetInduction
<1>4. Len(es) \in T
  BY <1>3
<1> QED BY <1>4, FirstAndAll DEF T

One(b) == IF b THEN 1 ELSE 0

\* The texts of some events.
SpokenIn(es) == Cardinality({i \in DOMAIN es : es[i].kind = "text"})

\* One text more, or none.
LEMMA SpokenMore ==
    ASSUME NEW es \in Seq(EventKinds), NEW x
    PROVE  /\ SpokenIn(es) \in Nat
           /\ SpokenIn(Append(es, x)) = SpokenIn(es) + One(x.kind = "text")
<1>1. PICK t, n, z : t = Append(es, x) /\ n = Len(es) /\ z = n + 1
  OBVIOUS
<1>2. /\ n \in Nat /\ DOMAIN es = 1..n /\ DOMAIN t = 1..z /\ t[z] = x /\ z \notin 1..n
      /\ \A i \in 1..n : t[i] = es[i]
  BY <1>1
<1> DEFINE A == {i \in 1..n : es[i].kind = "text"}
           B == {i \in 1..z : t[i].kind = "text"}
<1>3. IsFiniteSet(A) /\ Cardinality(A) \in Nat
  <2>1. IsFiniteSet(1..n)
    <3>1. 1 \in Int /\ n \in Int
      BY <1>2
    <3> QED BY <3>1, FS_Interval
  <2> QED BY <2>1, FS_Subset, FS_CardinalityType
<1>4. SpokenIn(es) = Cardinality(A) /\ SpokenIn(t) = Cardinality(B)
  BY <1>2 DEF SpokenIn
<1>5. CASE x.kind = "text"
  <2>1. B = A \cup {z} /\ z \notin A
    BY <1>1, <1>2, <1>5
  <2>2. Cardinality(B) = Cardinality(A) + 1
    BY <1>3, <2>1, FS_AddElement
  <2> QED BY <1>1, <1>3, <1>4, <1>5, <2>2 DEF One
<1>6. CASE x.kind # "text"
  <2>1. B = A
    BY <1>1, <1>2, <1>6
  <2>2. SpokenIn(t) = SpokenIn(es) /\ SpokenIn(es) \in Nat
    BY <1>3, <1>4, <2>1
  <2>3. One(x.kind = "text") = 0
    BY <1>6 DEF One
  <2> QED BY <1>1, <2>2, <2>3
<1> QED BY <1>5, <1>6

\* One text more.
LEMMA SpokenText ==
    ASSUME NEW es \in Seq(EventKinds) PROVE SpokenIn(Append(es, Text)) = SpokenIn(es) + 1
<1>1. PICK x : x = Text
  OBVIOUS
<1>2. x.kind = "text"
  BY <1>1 DEF Text
<1>3. SpokenIn(Append(es, x)) = SpokenIn(es) + One(x.kind = "text")
  BY SpokenMore
<1>4. SpokenIn(Append(es, x)) = SpokenIn(es) + 1
  BY <1>2, <1>3 DEF One
<1> QED BY <1>1, <1>4

\* No events have no texts.
LEMMA SpokenNothing == SpokenIn(<<>>) = 0
<1>1. {i \in DOMAIN <<>> : <<>>[i].kind = "text"} = {}
  OBVIOUS
<1> QED BY <1>1, FS_EmptySet DEF SpokenIn

\* The events that are not texts.
Silent == EventKinds \ {Text}

\* Such an event is no text.
LEMMA SilentIs == ASSUME NEW e \in Silent PROVE e \in EventKinds /\ e.kind # "text"
<1>1. CASE e = Completed
  BY <1>1 DEF Completed, Silent
<1>2. CASE e # Completed
  BY <1>2 DEF Silent, EventKinds
<1> QED BY <1>1, <1>2

\* After events that are not texts there are no more texts.
LEMMA SpokenAfter ==
    ASSUME NEW es \in Seq(EventKinds), NEW v \in Seq(Silent)
    PROVE  SpokenIn(es \o v) = SpokenIn(es)
<1>1. PICK t, n, z : t = es \o v /\ n = Len(es) /\ z = Len(v)
  OBVIOUS
<1>2. /\ n \in Nat /\ z \in Nat /\ DOMAIN es = 1..n /\ DOMAIN t = 1..(n + z)
      /\ \A i \in 1..n : t[i] = es[i]
      /\ \A i \in (n + 1)..(n + z) : t[i] = v[i - n] /\ i - n \in 1..z
  BY <1>1
<1>3. \A k \in 1..z : v[k].kind # "text"
  BY <1>1, SilentIs
<1>4. {i \in 1..(n + z) : t[i].kind = "text"} = {i \in 1..n : es[i].kind = "text"}
  <2>1. ASSUME NEW i \in 1..(n + z), t[i].kind = "text" PROVE i \in 1..n
    <3>1. i \in 1..n \/ i \in (n + 1)..(n + z)
      BY <1>2
    <3>2. i \notin (n + 1)..(n + z)
      BY <1>2, <1>3, <2>1
    <3> QED BY <3>1, <3>2
  <2>2. 1..n \subseteq 1..(n + z)
    BY <1>2
  <2> QED BY <1>2, <2>1, <2>2
<1> QED BY <1>1, <1>2, <1>4 DEF SpokenIn

\* What is read of the events has their texts.
LEMMA SpokenIs ==
    ASSUME NEW es \in Seq(EventKinds)
    PROVE  Reading(es).texts = SpokenIn(es)
<1> DEFINE T == {k \in 0..Len(es) : Reading(FirstOf(es, k)).texts = SpokenIn(FirstOf(es, k))}
<1>1. 0 \in T
  <2>1. FirstOf(es, 0) = <<>> /\ Reading(<<>>).texts = 0
    BY FirstAndAll, ReadNothing DEF Unread, NewSlot
  <2> QED BY <2>1, SpokenNothing
<1>2. ASSUME NEW k \in 0..(Len(es) - 1), k \in T PROVE k + 1 \in T
  <2>1. PICK u, e : u = FirstOf(es, k) /\ e = es[k + 1]
    OBVIOUS
  <2>2. u \in Seq(EventKinds) /\ e \in EventKinds /\ FirstOf(es, k + 1) = Append(u, e)
    BY <2>1 DEF FirstOf
  <2>3. PICK q : q = Reading(u)
    OBVIOUS
  <2>4. ReadType(q) /\ q.texts = SpokenIn(u) /\ q.texts \in Nat
    BY <1>2, <2>1, <2>2, <2>3, ReadingType, SpokenMore
  <2>5. Reading(Append(u, e)) = TakeEvent(q, e)
    BY <2>2, <2>3, ReadOneMore
  <2>6. TakeEvent(q, e).texts = q.texts + One(e.kind = "text")
    <3>1. CASE e.kind = "text"
      BY <2>4, <3>1 DEF TakeEvent, One, ReadType
    <3>2. CASE e.kind # "text"
      <4>1. e \in EventKinds /\ e.kind \in {"begin", "args", "end", "completed"}
        BY <2>2, <3>2 DEF EventKinds, Text, Completed
      <4>2. TakeEvent(q, e).texts = q.texts
        BY <2>4, <4>1 DEF TakeEvent, ReadType
      <4> QED BY <2>4, <3>2, <4>2 DEF One
    <3> QED BY <3>1, <3>2
  <2>7. Reading(Append(u, e)).texts = SpokenIn(Append(u, e))
    BY <2>2, <2>4, <2>5, <2>6, SpokenMore
  <2>8. Reading(FirstOf(es, k + 1)).texts = SpokenIn(FirstOf(es, k + 1))
    BY ONLY <2>2, <2>7
  <2>9. k + 1 \in 0..Len(es)
    OBVIOUS
  <2> QED BY <2>8, <2>9
<1> HIDE DEF T
<1>3. Len(es) \in Nat /\ \A k \in 0..Len(es) : k \in T
  BY <1>1, <1>2, SetInduction
<1>4. Len(es) \in T
  BY <1>3
<1> QED BY <1>4, FirstAndAll DEF T

\* What the end of a call, with what has arrived of its arguments, does to the slot.
Closing(r, call, got) ==
    IF got \in {0, call.size}
    THEN [r EXCEPT !.calls = Append(@, [id |-> call.id, name |-> r.name,
                                         args |-> IF got = 0 THEN NoArgs ELSE call.n]),
                   !.name = NoName]
    ELSE [r EXCEPT !.bad = TRUE]

\* The pieces of a call are pieces of its arguments.
LEMMA ArgsType ==
    ASSUME NEW call \in Calls, NEW got \in Nat
    PROVE  Args(call, got) \in Seq(EventKinds) /\ End(call) \in EventKinds
<1>1. End(call) \in EventKinds
  BY DEF EventKinds, End, Calls
<1> DEFINE p == [n |-> call.n, whole |-> got = call.size]
           a == [kind |-> "args", id |-> call.id, piece |-> p]
<1>2. p \in Pieces
  BY DEF Calls, Pieces
<1> HIDE DEF p
<1>3. a \in EventKinds
  BY <1>2 DEF EventKinds, Calls
<1>4. Args(call, got) = IF got = 0 THEN <<>> ELSE <<a>>
  BY DEF Args, p
<1> HIDE DEF a
<1> QED BY <1>1, <1>3, <1>4

\* The ends of open calls are events.
LEMMA ClosingType ==
    ASSUME NEW call \in Calls, NEW got \in Nat
    PROVE  Append(Args(call, got), End(call)) \in Seq(EventKinds)
  BY ArgsType

\* The ends of calls change no call and no text, and leave none open.
LEMMA ReadClosing ==
    ASSUME NEW es \in Seq(EventKinds), Reading(es).args = <<>>,
           NEW call \in Calls, NEW got \in Nat
    PROVE  Reading(es \o Append(Args(call, got), End(call))) = Closing(Reading(es), call, got)
<1>0. PICK r : r = Reading(es)
  OBVIOUS
<1>1. ReadType(r) /\ r.args = <<>>
  BY <1>0, ReadingType
<1>2. CASE got = 0
  <2>1. es \o Append(Args(call, got), End(call)) = Append(es, End(call))
    BY <1>2 DEF Args
  <2>2. Reading(Append(es, End(call))) = TakeEvent(r, End(call))
    BY <1>0, ReadOneMore
  <2>3. TakeEvent(r, End(call)) = Closing(r, call, got)
    <3>1. Parses(r.args) /\ ArgsValue(r.args) = NoArgs
      BY <1>1 DEF Parses, ArgsValue
    <3>2. TakeEvent(r, End(call)) =
            [r EXCEPT !.calls = Append(@, [id |-> call.id, name |-> r.name, args |-> NoArgs]),
                      !.name = NoName, !.args = <<>>]
      BY <3>1 DEF TakeEvent, End
    <3>3. Closing(r, call, got) =
            [r EXCEPT !.calls = Append(@, [id |-> call.id, name |-> r.name, args |-> NoArgs]),
                      !.name = NoName]
      BY <1>2 DEF Closing
    <3> QED BY <1>1, <3>2, <3>3 DEF ReadType
  <2> QED BY <1>0, <2>1, <2>2, <2>3
<1>3. CASE got # 0
  <2>0. PICK a : a = [kind |-> "args", id |-> call.id,
                      piece |-> [n |-> call.n, whole |-> got = call.size]]
    OBVIOUS
  <2>1. es \o Append(Args(call, got), End(call)) = Append(Append(es, a), End(call))
    BY <1>3, <2>0 DEF Args
  <2>2. a \in EventKinds
    BY <2>0 DEF EventKinds, Calls, Pieces
  <2>3. Reading(Append(es, a)) = TakeEvent(r, a)
    BY <1>0, ReadOneMore
  <2>4. Append(es, a) \in Seq(EventKinds)
    BY <2>2
  <2>5. Reading(Append(Append(es, a), End(call))) = TakeEvent(TakeEvent(r, a), End(call))
    BY <2>3, <2>4, ReadOneMore
  <2>6. PICK q : q = TakeEvent(r, a)
    OBVIOUS
  <2>7. q = [r EXCEPT !.args = <<a.piece>>]
    <3>1. q = [r EXCEPT !.args = Append(@, a.piece)]
      BY <2>0, <2>6 DEF TakeEvent
    <3> QED BY <1>1, <3>1
  <2>8. TakeEvent(q, End(call)) = Closing(r, call, got)
    <3>0. q.args = <<a.piece>> /\ q.name = r.name
      BY <1>1, <2>7 DEF ReadType
    <3>1. (Parses(q.args) <=> got = call.size) /\ ArgsValue(q.args) = call.n
      <4>1. q.args # <<>> /\ Len(q.args) = 1 /\ q.args[1] = a.piece
        BY <3>0
      <4>2. (a.piece.whole <=> got = call.size) /\ a.piece.n = call.n
        BY <2>0
      <4> QED BY <4>1, <4>2 DEF Parses, ArgsValue
    <3>2. TakeEvent(q, End(call)) =
            IF got = call.size
            THEN [q EXCEPT !.calls = Append(@, [id |-> call.id, name |-> r.name, args |-> call.n]),
                           !.name = NoName, !.args = <<>>]
            ELSE [q EXCEPT !.bad = TRUE, !.args = <<>>]
      BY <3>0, <3>1 DEF TakeEvent, End
    <3>3. Closing(r, call, got) =
            IF got = call.size
            THEN [r EXCEPT !.calls = Append(@, [id |-> call.id, name |-> r.name, args |-> call.n]),
                           !.name = NoName]
            ELSE [r EXCEPT !.bad = TRUE]
      BY <1>3 DEF Closing
    <3>4. PICK c : c = [id |-> call.id, name |-> r.name, args |-> call.n]
      OBVIOUS
    <3>5. CASE got = call.size
      <4>1. TakeEvent(q, End(call)) =
              [q EXCEPT !.calls = Append(@, c), !.name = NoName, !.args = <<>>]
        BY <3>2, <3>4, <3>5
      <4>2. Closing(r, call, got) = [r EXCEPT !.calls = Append(@, c), !.name = NoName]
        BY <3>3, <3>4, <3>5
      <4>3. [[r EXCEPT !.args = <<a.piece>>] EXCEPT !.calls = Append(@, c), !.name = NoName,
                                                   !.args = <<>>]
              = [r EXCEPT !.calls = Append(@, c), !.name = NoName]
        BY <1>1 DEF ReadType
      <4> QED BY <2>7, <4>1, <4>2, <4>3
    <3>6. CASE got # call.size
      <4>1. TakeEvent(q, End(call)) = [q EXCEPT !.bad = TRUE, !.args = <<>>]
        BY <3>2, <3>6
      <4>2. Closing(r, call, got) = [r EXCEPT !.bad = TRUE]
        BY <3>3, <3>6
      <4>3. [[r EXCEPT !.args = <<a.piece>>] EXCEPT !.bad = TRUE, !.args = <<>>]
              = [r EXCEPT !.bad = TRUE]
        BY <1>1 DEF ReadType
      <4> QED BY <2>7, <4>1, <4>2, <4>3
    <3> QED BY <3>5, <3>6
  <2> QED BY <1>0, <2>1, <2>5, <2>6, <2>8
<1> QED BY <1>2, <1>3

\* What a piece of text, the beginning of a call and the end of a response do.
LEMMA ReadText ==
    ASSUME NEW es \in Seq(EventKinds)
    PROVE  Reading(es \o <<Text>>) = [Reading(es) EXCEPT !.texts = @ + 1]
<1>1. es \o <<Text>> = Append(es, Text)
  OBVIOUS
<1>2. Reading(Append(es, Text)) = TakeEvent(Reading(es), Text)
  BY ReadOneMore
<1> QED BY <1>1, <1>2 DEF TakeEvent, Text

\* The beginning of a call opens it.
LEMMA ReadBegin ==
    ASSUME NEW es \in Seq(EventKinds), NEW call
    PROVE  Reading(es \o <<Begin(call)>>) =
             [Reading(es) EXCEPT !.name = call.name, !.args = <<>>]
<1>1. es \o <<Begin(call)>> = Append(es, Begin(call))
  OBVIOUS
<1>2. Reading(Append(es, Begin(call))) = TakeEvent(Reading(es), Begin(call))
  BY ReadOneMore
<1> QED BY <1>1, <1>2 DEF TakeEvent, Begin

\* The end of the stream ends the response.
LEMMA ReadCompleted ==
    ASSUME NEW es \in Seq(EventKinds)
    PROVE  Reading(Append(es, Completed)) = Reading(es)
<1>1. Reading(Append(es, Completed)) = TakeEvent(Reading(es), Completed)
  BY ReadOneMore
<1> QED BY <1>1 DEF TakeEvent, Completed

\* A whole call at once.
LEMMA ReadCall ==
    ASSUME NEW es \in Seq(EventKinds), NEW call \in Calls, NEW got \in Nat
    PROVE  LET r == [Reading(es) EXCEPT !.name = call.name, !.args = <<>>]
           IN  Reading(es \o (<<Begin(call)>> \o Args(call, got) \o <<End(call)>>))
                 = Closing(r, call, got)
<1>1. Begin(call) \in EventKinds
  BY DEF Begin, EventKinds, Calls
<1>2. es \o <<Begin(call)>> \in Seq(EventKinds)
  BY <1>1
<1>3. PICK fs : fs = es \o <<Begin(call)>>
  OBVIOUS
<1>4. Args(call, got) \in Seq(EventKinds) /\ End(call) \in EventKinds
  BY ArgsType
<1>5. es \o (<<Begin(call)>> \o Args(call, got) \o <<End(call)>>)
        = fs \o Append(Args(call, got), End(call))
  <2>1. PICK b, c, d : b = Begin(call) /\ c = Args(call, got) /\ d = End(call)
    OBVIOUS
  <2>2. b \in EventKinds /\ c \in Seq(EventKinds) /\ d \in EventKinds
    BY <1>1, <1>4, <2>1
  <2>3. <<b>> \o c \o <<d>> = <<b>> \o Append(c, d) /\ Append(c, d) \in Seq(EventKinds)
    BY <2>2
  <2>4. PICK x, y : x = <<b>> /\ y = Append(c, d)
    OBVIOUS
  <2>5. es \o (x \o y) = (es \o x) \o y
    <3>1. x \in Seq(EventKinds) /\ y \in Seq(EventKinds)
      BY <2>2, <2>3, <2>4
    <3>2. es \in Seq(EventKinds)
      OBVIOUS
    <3>3. PICK p, q : p = es \o x /\ q = x \o y
      OBVIOUS
    <3>4. p \o y = es \o q
      BY ONLY <3>1, <3>2, <3>3, Regroup
    <3> QED BY ONLY <3>3, <3>4
  <2> QED BY <1>3, <2>1, <2>3, <2>4, <2>5
<1>6. ReadType(Reading(es))
  BY ReadingType
<1>7. Reading(fs) = [Reading(es) EXCEPT !.name = call.name, !.args = <<>>]
  BY <1>3, ReadBegin
<1>8. Reading(fs).args = <<>>
  BY <1>6, <1>7 DEF ReadType
<1> QED BY <1>2, <1>3, <1>5, <1>7, <1>8, ReadClosing

-----------------------------------------------------------------------------
\* Converting: types

\* Closing the calls that wait for their answers keeps a list of items.
LEMMA FlushType ==
    ASSUME NEW w, ConvertType(w)
    PROVE  ConvertType(FlushCalls(w))
<1>1. CASE w.pending
  <2> DEFINE m == [Message("assistant", w.text) EXCEPT !.calls = w.calls]
  <2>0. <<>> \in Seq(CallIds) /\ w.calls \in Seq(CallIds) /\ w.text \in BOOLEAN
        /\ w.list \in Seq(Wired)
    BY DEF ConvertType
  <2>1. m = [role |-> "assistant", text |-> w.text, calls |-> w.calls, answers |-> <<>>]
    BY DEF Message
  <2>2. m \in Wired
    BY <2>0, <2>1 DEF Wired
  <2> HIDE DEF m
  <2>3. Append(w.list, m) \in Seq(Wired)
    BY <2>0, <2>2
  <2>4. FlushCalls(w) = [list |-> Append(w.list, m), pending |-> FALSE, text |-> FALSE,
                         calls |-> <<>>]
    BY <1>1 DEF FlushCalls, m
  <2> QED BY <2>0, <2>3, <2>4 DEF ConvertType
<1>2. CASE ~w.pending
  BY <1>2 DEF FlushCalls
<1> QED BY <1>1, <1>2

\* One message converts a list of items into a list of items.
LEMMA ConvertOneType ==
    ASSUME NEW w, ConvertType(w), NEW m \in Said
    PROVE  ConvertType(Convert(w, m))
<1>0. PICK f : f = FlushCalls(w)
  OBVIOUS
<1>1. ConvertType(f)
  BY <1>0, FlushType
<1>2. /\ m.kind \in {"user", "system", "assistant", "call", "result"}
      /\ m.id \in CallIds /\ m.text \in BOOLEAN
  BY DEF Said
<1>3. f.list \in Seq(Wired) /\ w.calls \in Seq(CallIds) /\ <<>> \in Seq(CallIds)
  BY <1>1 DEF ConvertType
<1>4. CASE m.kind = "user"
  <2>1. PICK x : x = Message("user", m.text)
    OBVIOUS
  <2>2. x \in Wired
    BY <1>2, <1>3, <2>1 DEF Message, Wired
  <2>3. Convert(w, m) = [f EXCEPT !.list = Append(@, x)]
    BY <1>0, <1>4, <2>1 DEF Convert
  <2>4. Append(f.list, x) \in Seq(Wired)
    BY <1>3, <2>2
  <2> QED BY <1>1, <2>3, <2>4 DEF ConvertType
<1>5. CASE m.kind = "assistant"
  <2>1. Convert(w, m) = [f EXCEPT !.pending = TRUE, !.text = m.text]
    BY <1>0, <1>5 DEF Convert
  <2> QED BY <1>1, <1>2, <2>1 DEF ConvertType
<1>6. CASE m.kind = "call"
  <2>1. Convert(w, m) = [w EXCEPT !.pending = TRUE, !.calls = Append(@, m.id)]
    BY <1>6 DEF Convert
  <2>2. Append(w.calls, m.id) \in Seq(CallIds)
    BY <1>2, <1>3
  <2> QED BY <2>1, <2>2 DEF ConvertType
<1>7. CASE m.kind = "result"
  <2>1. PICK x : x = Answering("tool", m.id)
    OBVIOUS
  <2>0. <<m.id>> \in Seq(CallIds)
    BY <1>2
  <2>5. x = [role |-> "tool", text |-> FALSE, calls |-> <<>>, answers |-> <<m.id>>]
    BY <2>1 DEF Message, Answering
  <2>2. x \in Wired
    BY <1>3, <2>0, <2>5 DEF Wired
  <2>3. Convert(w, m) = [f EXCEPT !.list = Append(@, x)]
    BY <1>0, <1>7, <2>1 DEF Convert
  <2>4. Append(f.list, x) \in Seq(Wired)
    BY <1>3, <2>2
  <2> QED BY <1>1, <2>3, <2>4 DEF ConvertType
<1>8. CASE m.kind = "system"
  BY <1>8 DEF Convert
<1> QED BY <1>2, <1>4, <1>5, <1>6, <1>7, <1>8

\* A conversation converts into a list of items.
LEMMA ConvertingType ==
    ASSUME NEW ms \in Seq(Said)
    PROVE  ConvertType(Converting(ms))
<1> DEFINE T == {k \in 0..Len(ms) : ConvertType(Converting(FirstOf(ms, k)))}
<1>1. 0 \in T
  <2>1. ConvertType(Unconverted)
    BY DEF ConvertType, Unconverted
  <2> QED BY <2>1, FirstAndAll, ConvertNothing
<1>2. ASSUME NEW k \in 0..(Len(ms) - 1), k \in T PROVE k + 1 \in T
  <2>1. PICK s : s = FirstOf(ms, k)
    OBVIOUS
  <2>2. s \in Seq(Said) /\ ms[k + 1] \in Said /\ FirstOf(ms, k + 1) = Append(s, ms[k + 1])
    BY <2>1 DEF FirstOf
  <2>3. Converting(FirstOf(ms, k + 1)) = Convert(Converting(s), ms[k + 1])
    BY <2>2, ConvertOneMore
  <2>4. ConvertType(Converting(FirstOf(ms, k + 1)))
    BY <1>2, <2>1, <2>2, <2>3, ConvertOneType
  <2> QED BY <2>4
<1> HIDE DEF T
<1>3. Len(ms) \in Nat /\ \A k \in 0..Len(ms) : k \in T
  BY <1>1, <1>2, SetInduction
<1>4. Len(ms) \in T
  BY <1>3
<1> QED BY <1>4, FirstAndAll DEF T

\* The list of a request.
ListOf(ms) == FlushCalls(Converting(ms)).list

\* What is sent is the list of items, with the answers in their places.
LEMMA RequestIs ==
    ASSUME NEW ms \in Seq(Said), ms # <<>>
    PROVE  /\ ListOf(ms) \in Seq(Wired)
           /\ Last(ms) \in Said
           /\ Request(ms).history = IF Last(ms).kind = "user" THEN Front(ListOf(ms)) ELSE ListOf(ms)
           /\ Request(ms).query = (Last(ms).kind = "user")
           /\ Request(ms).wish = IF Last(ms).kind = "user" THEN Last(ms).name ELSE NoName
<1>1. ListOf(ms) \in Seq(Wired)
  <2>1. ConvertType(FlushCalls(Converting(ms)))
    BY ConvertingType, FlushType
  <2> QED BY <2>1 DEF ConvertType, ListOf
<1>2. Last(ms) \in Said
  BY DEF Last
<1>3. /\ Request(ms).history = IF Last(ms).kind = "user" THEN Front(ListOf(ms)) ELSE ListOf(ms)
      /\ Request(ms).query = (Last(ms).kind = "user")
      /\ Request(ms).wish = IF Last(ms).kind = "user" THEN Last(ms).name ELSE NoName
  BY DEF Request, ListOf, Converting, Unconverted
<1> QED BY <1>1, <1>2, <1>3

\* An echo counts the results of the request.
LEMMA EchoCounts ==
    ASSUME NEW ms \in Seq(Said), ms # <<>>, provider = "echo"
    PROVE  /\ Results(Payload(Request(ms))) \in Nat
           /\ Request(ms).wish \in Tools \cup {NoName}
<1>1. PICK h : h = Request(ms).history
  OBVIOUS
<1>2. Len(h) \in Nat /\ Request(ms).wish \in Tools \cup {NoName}
  <2>1. /\ ListOf(ms) \in Seq(Wired) /\ Last(ms) \in Said
        /\ h \in {Front(ListOf(ms)), ListOf(ms)}
        /\ Request(ms).wish \in {Last(ms).name, NoName}
    BY <1>1, RequestIs
  <2>2. Last(ms).name \in Tools \cup {NoName}
    BY <2>1 DEF Said
  <2>3. Front(ListOf(ms)) \in Seq(Wired)
    <3>1. PICK l : l = ListOf(ms)
      OBVIOUS
    <3>2. l \in Seq(Wired)
      BY <2>1, <3>1
    <3>3. SubSeq(l, 1, Len(l) - 1) \in Seq(Wired)
      BY <3>2
    <3> QED BY <3>1, <3>3 DEF Front
  <2> QED BY <1>1, <2>1, <2>2, <2>3
<1>3. PICK p : p = Payload(Request(ms))
  OBVIOUS
<1>4. IsFiniteSet(DOMAIN p)
  <2>1. p = Append([k \in DOMAIN h |-> Message(h[k].role, h[k].text)],
                   Message("query", Request(ms).query))
    BY <1>1, <1>3 DEF Payload, EchoPayload
  <2>2. PICK a, b : a = [k \in DOMAIN h |-> Message(h[k].role, h[k].text)]
                    /\ b = Message("query", Request(ms).query)
    OBVIOUS
  <2>3. DOMAIN h = 1..Len(h)
    <3>1. h \in Seq(Wired)
      <4>1. ListOf(ms) \in Seq(Wired) /\ (Request(ms).history \in {ListOf(ms), Front(ListOf(ms))})
        BY RequestIs
      <4>2. PICK l : l = ListOf(ms)
        OBVIOUS
      <4>3. l \in Seq(Wired) /\ h \in {l, SubSeq(l, 1, Len(l) - 1)}
        BY <1>1, <4>1, <4>2 DEF Front
      <4>4. SubSeq(l, 1, Len(l) - 1) \in Seq(Wired)
        BY <4>3
      <4> QED BY <4>3, <4>4
    <3> QED BY <3>1
  <2>4. a \in Seq({Message(h[k].role, h[k].text) : k \in DOMAIN h})
    BY <1>2, <2>2, <2>3
  <2>5. DOMAIN p = 1..(Len(h) + 1)
    BY <1>2, <2>1, <2>2, <2>3, <2>4
  <2> QED BY <1>2, <2>5, FS_Interval
<1>5. IsFiniteSet({k \in DOMAIN p : p[k].role = "tool"})
  BY <1>4, FS_Subset
<1>6. Results(p) \in Nat
  BY <1>5, FS_CardinalityType DEF Results
<1> QED BY <1>2, <1>3, <1>6

-----------------------------------------------------------------------------
\* The types

\* The type holds at first.
LEMMA StreamTypeInit == StreamAssumption /\ StreamInit => StreamType
<1> SUFFICES ASSUME StreamAssumption, StreamInit PROVE StreamType
  OBVIOUS
<1>0. PICK first : first = IF Instructed THEN <<SystemMsg(0)>> ELSE <<>>
  OBVIOUS
<1>1. PICK tool \in Wishes : msgs = Append(first, UserMsg(tool))
  BY <1>0 DEF StreamInit
<1>2. tool \in Tools \cup {NoName}
  BY DEF Wishes
<1>3. UserMsg(tool) \in Said /\ SystemMsg(0) \in Said
  BY <1>2 DEF UserMsg, SystemMsg, Said, NoId, CallIds
<1>9. first \in Seq(Said)
  BY <1>0, <1>3
<1>4. msgs \in Seq(Said) /\ msgs # <<>>
  BY <1>1, <1>3, <1>9
<1>5. DOMAIN open = {} /\ open \in [DOMAIN open -> [call : Calls, got : Nat]]
  BY DEF StreamInit
<1>6. IsFiniteSet(DOMAIN open)
  BY <1>5, FS_EmptySet
<1>7. taken \in [calls : Seq(CallsTaken), texts : Nat]
  BY DEF StreamInit, Nothing
<1>8. said \in Seq(Calls) /\ events \in Seq(EventKinds) /\ texts \in Nat
  BY DEF StreamInit
<1> QED BY <1>4, <1>5, <1>6, <1>7, <1>8 DEF StreamType, StreamInit, StreamAssumption

\* A callback, and the last one.
LEMMA CallbackType ==
    ASSUME events \in Seq(EventKinds), NEW es \in Seq(EventKinds),
           Callback(es) \/ CallbackAndEnd(es),
           phase \in {"request", "stream", "assemble", "execute", "idle", "failed"}
    PROVE  /\ events' \in Seq(EventKinds)
           /\ phase' \in {"request", "stream", "assemble", "execute", "idle", "failed"}
<1>1. events \o es \in Seq(EventKinds)
  OBVIOUS
<1> QED BY <1>1 DEF Callback, CallbackAndEnd

\* A call the model makes.
LEMMA NewCallType ==
    ASSUME said \in Seq(Calls), NEW name \in Tools, NEW size \in Nat, NEW hasId \in BOOLEAN
    PROVE  /\ NewCall(name, size, hasId) \in Calls
           /\ NewCall(name, size, hasId).size = size
           /\ NewCall(name, size, hasId).name = name
<1>1. Len(said) + 1 \in Nat
  OBVIOUS
<1> QED BY <1>1 DEF NewCall, Calls, CallIds

\* A request keeps the type.
LEMMA SendType == StreamType /\ Send => StreamType'
<1> SUFFICES ASSUME StreamType, Send PROVE StreamType'
  OBVIOUS
<1>5. DOMAIN open' = {} /\ open' \in [DOMAIN open' -> [call : Calls, got : Nat]]
  BY DEF Send
<1>6. IsFiniteSet(DOMAIN open')
  BY <1>5, FS_EmptySet
<1>7. taken' \in [calls : Seq(CallsTaken), texts : Nat]
  BY DEF Send, Nothing
<1>8. said' \in Seq(Calls) /\ events' \in Seq(EventKinds) /\ texts' \in Nat
  BY DEF Send
<1>9. phase' \in {"stream", "failed"} /\ overlap' = FALSE /\ dropped' = FALSE
      /\ UNCHANGED <<provider, numbered, msgs, withTools, interrupted>>
  BY DEF Send
<1> QED BY <1>5, <1>6, <1>7, <1>8, <1>9 DEF StreamType

\* A refusal, a broken connection and an interrupt keep the type.
LEMMA StillType ==
    StreamType /\ (RateLimited \/ Broken \/ Interrupt) => StreamType'
  BY DEF StreamType, RateLimited, Broken, Interrupt, response

\* A piece of text keeps the type.
LEMMA TextDeltaType == StreamType /\ TextDelta => StreamType'
<1> SUFFICES ASSUME StreamType, TextDelta PROVE StreamType'
  OBVIOUS
<1>1. <<Text>> \in Seq(EventKinds)
  BY DEF EventKinds
<1>2. events' \in Seq(EventKinds)
      /\ phase' \in {"request", "stream", "assemble", "execute", "idle", "failed"}
  BY <1>1, CallbackType DEF StreamType, TextDelta
<1>3. texts' \in Nat /\ UNCHANGED <<streamFrame, said, open, overlap>>
  BY DEF StreamType, TextDelta
<1> QED BY <1>2, <1>3 DEF StreamType, streamFrame

\* One call less is open.
LEMMA DropType ==
    ASSUME NEW f, NEW S, f \in [DOMAIN f -> S], IsFiniteSet(DOMAIN f), NEW i
    PROVE  /\ DOMAIN Drop(f, i) = DOMAIN f \ {i}
           /\ Drop(f, i) \in [DOMAIN f \ {i} -> S]
           /\ IsFiniteSet(DOMAIN f \ {i})
           /\ \A x \in DOMAIN f \ {i} : Drop(f, i)[x] = f[x]
<1>1. IsFiniteSet(DOMAIN f \ {i})
  BY FS_RemoveElement
<1> QED BY <1>1 DEF Drop

\* A new call in its slot.
LEMMA BeginIs ==
    ASSUME StreamType, StreamAssumption, NEW name \in Tools, NEW size \in 0..MaxPieces,
           BeginCall(name, size)
    PROVE  LET call == NewCall(name, size, TRUE)
           IN  /\ call \in Calls /\ call.size = size /\ Slot \in Nat \ {0}
               /\ DOMAIN open' = DOMAIN open \cup {Slot}
               /\ open' \in [DOMAIN open' -> [call : Calls, got : Nat]]
               /\ IsFiniteSet(DOMAIN open') /\ DOMAIN open' \subseteq Nat
               /\ \A x \in DOMAIN open' :
                     open'[x] = IF x = Slot THEN [call |-> call, got |-> 0] ELSE open[x]
<1>0. PICK call : call = NewCall(name, size, TRUE)
  OBVIOUS
<1>1. size \in Nat
  BY DEF StreamAssumption
<1>2. call \in Calls /\ call.size = size
  BY <1>0, <1>1, NewCallType DEF StreamType
<1>3. Slot \in Nat \ {0}
  BY DEF Slot, StreamType
<1>4. PICK v : v = [call |-> call, got |-> 0]
  OBVIOUS
<1>5. v \in [call : Calls, got : Nat]
  BY <1>2, <1>4
<1>6. open' = Put(open, Slot, v)
  BY <1>0, <1>4 DEF BeginCall
<1>7. PICK i : i = Slot
  OBVIOUS
<1>8. open' = Put(open, i, v) /\ i \in Nat
  BY <1>3, <1>6, <1>7
<1>9. /\ open \in [DOMAIN open -> [call : Calls, got : Nat]]
      /\ IsFiniteSet(DOMAIN open) /\ DOMAIN open \subseteq Nat
  BY DEF StreamType
<1>10. /\ DOMAIN open' = DOMAIN open \cup {i}
       /\ open' \in [DOMAIN open \cup {i} -> [call : Calls, got : Nat]]
       /\ IsFiniteSet(DOMAIN open \cup {i}) /\ DOMAIN open \cup {i} \subseteq Nat
       /\ \A x \in DOMAIN open \cup {i} : open'[x] = IF x = i THEN v ELSE open[x]
  <2>1. PICK f, S : f = open /\ S = [call : Calls, got : Nat]
    OBVIOUS
  <2>2. f \in [DOMAIN f -> S] /\ IsFiniteSet(DOMAIN f) /\ DOMAIN f \subseteq Nat /\ v \in S
    BY <1>5, <1>9, <2>1
  <2>3. /\ DOMAIN Put(f, i, v) = DOMAIN f \cup {i}
        /\ Put(f, i, v) \in [DOMAIN f \cup {i} -> S]
        /\ IsFiniteSet(DOMAIN f \cup {i}) /\ DOMAIN f \cup {i} \subseteq Nat
        /\ \A x \in DOMAIN f \cup {i} : Put(f, i, v)[x] = IF x = i THEN v ELSE f[x]
    <3>1. i \in Nat
      BY <1>8
    <3>2. IsFiniteSet(DOMAIN f \cup {i})
      BY <2>2, FS_AddElement
    <3> QED BY <2>2, <3>1, <3>2 DEF Put
  <2> QED BY <1>8, <2>1, <2>3, Zenon
<1>11. \A x \in DOMAIN open' : open'[x] = IF x = i THEN v ELSE open[x]
  BY <1>10
<1> QED BY <1>0, <1>2, <1>3, <1>4, <1>7, <1>10, <1>11

\* A call that begins keeps the type.
LEMMA BeginCallType ==
    ASSUME StreamType, StreamAssumption, NEW name \in Tools, NEW size \in 0..MaxPieces,
           BeginCall(name, size)
    PROVE  StreamType'
<1>0. PICK call : call = NewCall(name, size, TRUE)
  OBVIOUS
<1>1. /\ call \in Calls /\ call.size = size
      /\ open' \in [DOMAIN open' -> [call : Calls, got : Nat]]
      /\ IsFiniteSet(DOMAIN open') /\ DOMAIN open' \subseteq Nat
      /\ DOMAIN open' = DOMAIN open \cup {Slot}
      /\ \A x \in DOMAIN open' :
            open'[x] = IF x = Slot THEN [call |-> call, got |-> 0] ELSE open[x]
  BY <1>0, BeginIs
<1>2. \A i \in DOMAIN open' : open'[i].got <= open'[i].call.size
  <2> SUFFICES ASSUME NEW i \in DOMAIN open' PROVE open'[i].got <= open'[i].call.size
    OBVIOUS
  <2>1. CASE i = Slot
    BY <1>1, <2>1 DEF Calls
  <2>2. CASE i # Slot
    BY <1>1, <2>2 DEF StreamType
  <2> QED BY <2>1, <2>2
<1>3. Begin(call) \in EventKinds
  BY <1>1 DEF Begin, EventKinds, Calls
<1>4. <<Begin(call)>> \in Seq(EventKinds)
  BY <1>3
<1>5. events' \in Seq(EventKinds)
      /\ phase' \in {"request", "stream", "assemble", "execute", "idle", "failed"}
  <2>1. Callback(<<Begin(call)>>)
    BY <1>0 DEF BeginCall
  <2> QED BY <1>4, <2>1, CallbackType DEF StreamType
<1>6. said' \in Seq(Calls)
  <2>1. said' = Append(said, call)
    BY <1>0 DEF BeginCall
  <2>2. said \in Seq(Calls)
    BY DEF StreamType
  <2> QED BY <1>1, <2>1, <2>2
<1>7. overlap' \in BOOLEAN /\ UNCHANGED <<streamFrame, texts>>
  BY DEF BeginCall, StreamType
<1> QED BY <1>1, <1>2, <1>5, <1>6, <1>7 DEF StreamType, streamFrame

\* A piece of arguments is counted, whatever else.
LEMMA ArgsDeltaIs ==
    ASSUME StreamType, NEW i \in DOMAIN open, ArgsDelta(i)
    PROVE  /\ DOMAIN open' = DOMAIN open
           /\ open' \in [DOMAIN open' -> [call : Calls, got : Nat]]
           /\ \A x \in DOMAIN open : open'[x].call = open[x].call
           /\ \A x \in DOMAIN open' : open'[x].got <= open'[x].call.size
<1>1. open' = [open EXCEPT ![i].got = @ + 1] /\ open[i].got < open[i].call.size
  BY DEF ArgsDelta
<1>2. open[i] \in [call : Calls, got : Nat] /\ \A x \in DOMAIN open : open[x].got <= open[x].call.size
  BY DEF StreamType
<1>3. open[i].got + 1 <= open[i].call.size /\ open[i].got + 1 \in Nat
  BY <1>1, <1>2 DEF Calls
<1>4. PICK v : v = [open[i] EXCEPT !.got = @ + 1]
  OBVIOUS
<1>5. v.call = open[i].call /\ v.got = open[i].got + 1 /\ v \in [call : Calls, got : Nat]
  BY <1>2, <1>3, <1>4
<1>6. open' = [open EXCEPT ![i] = v]
  BY <1>1, <1>4
<1>7. open \in [DOMAIN open -> [call : Calls, got : Nat]]
  BY DEF StreamType
<1>8. DOMAIN open' = DOMAIN open /\ \A x \in DOMAIN open : open'[x] = IF x = i THEN v ELSE open[x]
  BY <1>6, <1>7
<1>9. open' \in [DOMAIN open' -> [call : Calls, got : Nat]]
  BY <1>5, <1>6, <1>7
<1> QED BY <1>2, <1>3, <1>5, <1>8, <1>9

\* A piece of arguments keeps the type.
LEMMA ArgsDeltaType == ASSUME StreamType, NEW i \in DOMAIN open, ArgsDelta(i) PROVE StreamType'
<1>1. /\ DOMAIN open' = DOMAIN open
      /\ open' \in [DOMAIN open' -> [call : Calls, got : Nat]]
      /\ \A x \in DOMAIN open' : open'[x].got <= open'[x].call.size
  BY ArgsDeltaIs
<1>2. UNCHANGED <<streamFrame, phase, said, texts, events, overlap>>
  BY DEF ArgsDelta
<1> QED BY <1>1, <1>2 DEF StreamType, streamFrame

\* The end of a call keeps the type.
LEMMA ArgsDoneType == ASSUME StreamType, NEW i \in DOMAIN open, ArgsDone(i) PROVE StreamType'
<1>0. PICK call : call = open[i].call
  OBVIOUS
<1>1. call \in Calls /\ call.size \in Nat
  BY <1>0 DEF StreamType, Calls
<1>2. events' \in Seq(EventKinds)
      /\ phase' \in {"request", "stream", "assemble", "execute", "idle", "failed"}
  <2>1. Callback(Append(Args(call, call.size), End(call)))
    BY <1>0 DEF ArgsDone
  <2>2. Append(Args(call, call.size), End(call)) \in Seq(EventKinds)
    BY <1>1, ClosingType
  <2> QED BY <2>1, <2>2, CallbackType DEF StreamType
<1>3. open' = Drop(open, i) /\ UNCHANGED <<streamFrame, said, texts, overlap>>
  BY DEF ArgsDone
<1>4. /\ DOMAIN open' = DOMAIN open \ {i}
      /\ open' \in [DOMAIN open' -> [call : Calls, got : Nat]]
      /\ IsFiniteSet(DOMAIN open')
      /\ \A x \in DOMAIN open' : open'[x] = open[x]
  <2>1. open \in [DOMAIN open -> [call : Calls, got : Nat]] /\ IsFiniteSet(DOMAIN open)
    BY DEF StreamType
  <2>2. PICK f, S : f = open /\ S = [call : Calls, got : Nat]
    OBVIOUS
  <2>3. f \in [DOMAIN f -> S] /\ IsFiniteSet(DOMAIN f)
    BY <2>1, <2>2
  <2>4. /\ DOMAIN Drop(f, i) = DOMAIN f \ {i}
        /\ Drop(f, i) \in [DOMAIN f \ {i} -> S]
        /\ IsFiniteSet(DOMAIN f \ {i})
        /\ \A x \in DOMAIN f \ {i} : Drop(f, i)[x] = f[x]
    BY <2>3, DropType
  <2> QED BY <1>3, <2>2, <2>4, Zenon
<1>5. DOMAIN open' \subseteq Nat /\ \A x \in DOMAIN open' : open'[x].got <= open'[x].call.size
  BY <1>4 DEF StreamType
<1> QED BY <1>2, <1>3, <1>4, <1>5 DEF StreamType, streamFrame

\* The calls that are open, one after the other.
Items(order) ==
    [k \in DOMAIN order |->
        Append(Args(open[order[k]].call, open[order[k]].got), End(open[order[k]].call))]

\* The calls that are still open are ended in some order, each once.
LEMMA OrderIs ==
    ASSUME StreamType, NEW order \in Orders
    PROVE  /\ Cardinality(DOMAIN open) \in Nat
           /\ order \in [1..Cardinality(DOMAIN open) -> DOMAIN open]
           /\ DOMAIN order = 1..Cardinality(DOMAIN open)
           /\ \A x \in DOMAIN open : \E k \in DOMAIN order : order[k] = x
           /\ Items(order) \in Seq(Seq(EventKinds))
           /\ Len(Items(order)) = Cardinality(DOMAIN open)
           /\ Rest(order) = FlattenSeq(Items(order))
           /\ Rest(order) \in Seq(EventKinds)
<1>1. PICK n, D : n = Cardinality(DOMAIN open) /\ D = DOMAIN open
  OBVIOUS
<1>2. IsFiniteSet(D) /\ n = Cardinality(D) /\ n \in Nat
  BY <1>1, FS_CardinalityType DEF StreamType
<1>3. order \in [1..n -> D] /\ \A i, j \in 1..n : i # j => order[i] # order[j]
  BY <1>1 DEF Orders, SetToSeqs
<1>4. \A x \in D : \E k \in 1..n : order[k] = x
  <2>1. order \in Injection(1..n, D)
    BY <1>3 DEF Injection, IsInjective
  <2>2. IsFiniteSet(1..n) /\ Cardinality(1..n) = n
    BY <1>2, FS_Interval
  <2>3. order \in Surjection(1..n, D)
    BY <1>2, <2>1, <2>2, FS_Injection
  <2> QED BY <2>3 DEF Surjection
<1>5. \A k \in 1..n : Items(order)[k] \in Seq(EventKinds)
  <2> SUFFICES ASSUME NEW k \in 1..n PROVE Items(order)[k] \in Seq(EventKinds)
    OBVIOUS
  <2>1. PICK o : o = open[order[k]]
    OBVIOUS
  <2>2. order[k] \in DOMAIN open
    BY <1>1, <1>3
  <2>3. o.call \in Calls /\ o.got \in Nat
    BY <2>1, <2>2 DEF StreamType
  <2>4. Items(order)[k] = Append(Args(o.call, o.got), End(o.call))
    BY <1>3, <2>1 DEF Items
  <2> QED BY <2>3, <2>4, ClosingType
<1>6. DOMAIN Items(order) = 1..n
  BY <1>3 DEF Items
<1>9. Items(order) = [k \in 1..n |-> Items(order)[k]]
  BY <1>3 DEF Items
<1>7. Items(order) \in Seq(Seq(EventKinds)) /\ Len(Items(order)) = n
  <2>1. PICK it : it = Items(order)
    OBVIOUS
  <2>2. it \in [1..n -> Seq(EventKinds)]
    BY <1>5, <1>9, <2>1
  <2> QED BY <1>2, <2>1, <2>2
<1>8. Rest(order) = FlattenSeq(Items(order))
  BY DEF Rest, Items
<1>10. Rest(order) \in Seq(EventKinds)
  BY <1>7, <1>8, FlattenType
<1> QED BY <1>1, <1>2, <1>3, <1>4, <1>7, <1>8, <1>10

\* The end of a reply keeps the type.
LEMMA EndReplyType == StreamType /\ EndReply => StreamType'
<1> SUFFICES ASSUME StreamType, EndReply PROVE StreamType'
  OBVIOUS
<1>1. /\ events' \in Seq(EventKinds)
      /\ phase' \in {"request", "stream", "assemble", "execute", "idle", "failed"}
  <2>1. CASE phase' = "failed" /\ UNCHANGED events
    BY <2>1 DEF StreamType
  <2>2. ASSUME NEW order \in Orders, CallbackAndEnd(Append(Rest(order), Completed))
        PROVE  /\ events' \in Seq(EventKinds)
               /\ phase' \in {"request", "stream", "assemble", "execute", "idle", "failed"}
    <3>1. Completed \in EventKinds
      BY DEF EventKinds
    <3>2. Rest(order) \in Seq(EventKinds)
      BY OrderIs
    <3>3. Append(Rest(order), Completed) \in Seq(EventKinds)
      BY <3>1, <3>2
    <3> QED BY <2>2, <3>3, CallbackType DEF StreamType
  <2> QED BY <2>1, <2>2 DEF EndReply
<1>2. UNCHANGED <<streamFrame, said, texts, open, overlap>>
  BY DEF EndReply
<1> QED BY <1>1, <1>2 DEF StreamType, streamFrame

\* What changes in a response of gemini or of echo.
LEMMA ChunkType ==
    ASSUME StreamType, UNCHANGED ChunkFrame, said' \in Seq(Calls), texts' \in Nat,
           events' \in Seq(EventKinds), dropped' \in BOOLEAN,
           phase' \in {"request", "stream", "assemble", "execute", "idle", "failed"}
    PROVE  StreamType'
  BY DEF StreamType, ChunkFrame

\* A chunk with text keeps the type.
LEMMA TextChunkType ==
    ASSUME StreamType, NEW surplus, TextChunk(surplus) PROVE StreamType'
<1>1. <<Text>> \in Seq(EventKinds)
  BY DEF EventKinds
<1>2. events' \in Seq(EventKinds)
      /\ phase' \in {"request", "stream", "assemble", "execute", "idle", "failed"}
  <2>1. CASE Callback(<<Text>>)
    BY <1>1, <2>1, CallbackType DEF StreamType
  <2>2. CASE UNCHANGED <<events, phase>>
    BY <2>2 DEF StreamType
  <2> QED BY <2>1, <2>2 DEF TextChunk
<1>3. texts' \in Nat /\ UNCHANGED <<ChunkFrame, said>> /\ dropped' \in BOOLEAN
  BY DEF StreamType, TextChunk
<1>4. said' \in Seq(Calls)
  BY <1>3 DEF StreamType
<1> QED BY <1>2, <1>3, <1>4, ChunkType

\* A whole call, as events.
LEMMA WholeCallType ==
    ASSUME NEW call \in Calls, NEW got \in Nat
    PROVE  /\ <<Begin(call)>> \o Args(call, got) \o <<End(call)>> \in Seq(EventKinds)
           /\ <<Begin(call)>> \o Args(call, got) \o <<End(call), Completed>> \in Seq(EventKinds)
           /\ <<Begin(call)>> \o Args(call, got) \o <<End(call), Completed>>
                = Append(<<Begin(call)>> \o Args(call, got) \o <<End(call)>>, Completed)
<1>1. PICK b, c, d, e : b = Begin(call) /\ c = Args(call, got) /\ d = End(call) /\ e = Completed
  OBVIOUS
<1>2. b \in EventKinds /\ e \in EventKinds
  BY <1>1 DEF EventKinds, Begin, Calls
<1>3. c \in Seq(EventKinds) /\ d \in EventKinds
  BY <1>1, ArgsType
<1>4. /\ <<b>> \o c \o <<d>> \in Seq(EventKinds)
      /\ <<b>> \o c \o <<d, e>> \in Seq(EventKinds)
  BY <1>2, <1>3
<1>5. <<b>> \o c \o <<d, e>> = Append(<<b>> \o c \o <<d>>, e)
  <2>1. PICK f : f = <<b>> \o c
    OBVIOUS
  <2>2. f \in Seq(EventKinds)
    BY <1>2, <1>3, <2>1
  <2>3. f \o <<d, e>> = Append(f \o <<d>>, e)
    BY <1>2, <1>3, <2>2
  <2> QED BY <2>1, <2>3
<1> QED BY <1>1, <1>4, <1>5

\* A chunk with a call keeps the type.
LEMMA CallChunkType ==
    ASSUME StreamType, StreamAssumption, NEW name \in Tools, NEW size \in 0..MaxPieces,
           NEW hasId \in BOOLEAN, NEW surplus, CallChunk(name, size, hasId, surplus)
    PROVE  StreamType'
<1>0. PICK call : call = NewCall(name, size, hasId)
  OBVIOUS
<1>1. call \in Calls /\ size \in Nat
  BY <1>0, NewCallType DEF StreamType, StreamAssumption
<1>2. events' \in Seq(EventKinds)
      /\ phase' \in {"request", "stream", "assemble", "execute", "idle", "failed"}
  <2>1. CASE Callback(<<Begin(call)>> \o Args(call, size) \o <<End(call)>>)
    BY <1>1, <2>1, CallbackType, WholeCallType DEF StreamType
  <2>2. CASE UNCHANGED <<events, phase>>
    BY <2>2 DEF StreamType
  <2> QED BY <1>0, <2>1, <2>2 DEF CallChunk
<1>3. said' = Append(said, call) /\ UNCHANGED <<ChunkFrame, texts>> /\ dropped' \in BOOLEAN
  BY <1>0 DEF StreamType, CallChunk
<1>4. said' \in Seq(Calls) /\ texts' \in Nat
  <2>1. said \in Seq(Calls) /\ texts \in Nat
    BY DEF StreamType
  <2> QED BY <1>1, <1>3, <2>1
<1> QED BY <1>2, <1>3, <1>4, ChunkType

\* The last chunk keeps the type.
LEMMA LastChunkType == StreamType /\ LastChunk => StreamType'
<1> SUFFICES ASSUME StreamType, LastChunk PROVE StreamType'
  OBVIOUS
<1>1. <<Completed>> \in Seq(EventKinds)
  BY DEF EventKinds
<1>2. events' \in Seq(EventKinds)
      /\ phase' \in {"request", "stream", "assemble", "execute", "idle", "failed"}
  BY <1>1, CallbackType DEF StreamType, LastChunk
<1>3. UNCHANGED <<ChunkFrame, said, texts, depth, dropped>>
  BY DEF LastChunk
<1> QED BY <1>2, <1>3, ChunkType DEF StreamType

\* What echo says: a call, or a text.
EchoSays ==
    \/ \E call \in Calls : call.size = 1 /\ EchoCall(call)
    \/ EchoText

\* What the echo provider says, and does not say.
LEMMA EchoReplyIs ==
    ASSUME StreamType, NEW first \in Tools, NEW limit, EchoReply(first, limit)
    PROVE  /\ EchoSays
           /\ phase = "stream" /\ provider = "echo" /\ UNCHANGED <<ChunkFrame, depth, dropped>>
<1>0. phase = "stream" /\ provider = "echo" /\ UNCHANGED <<ChunkFrame, depth, dropped>>
  BY DEF EchoReply
<1>1. PICK p, w : p = Payload(Request(msgs)) /\ w = Request(msgs).wish
  OBVIOUS
<1>2. Results(p) \in Nat /\ w \in Tools \cup {NoName}
  BY <1>0, <1>1, EchoCounts DEF StreamType
<1>3. CASE AfterResult(p) /\ Results(p) + 1 <= limit
  <2>1. PICK call : call = [n |-> 1, name |-> first, size |-> 1,
                            id |-> [name |-> NoName, n |-> Results(p) + 1]]
    OBVIOUS
  <2>2. call \in Calls /\ call.size = 1
    BY <1>2, <2>1 DEF Calls, CallIds
  <2>3. EchoCall(call)
    BY <1>1, <1>3, <2>1 DEF EchoReply
  <2> QED BY <1>0, <2>2, <2>3 DEF EchoSays
<1>4. CASE ~AfterResult(p) /\ withTools /\ w # NoName
  <2>1. PICK call : call = [n |-> 1, name |-> w, size |-> 1, id |-> [name |-> w, n |-> 0]]
    OBVIOUS
  <2>2. call \in Calls /\ call.size = 1
    BY <1>2, <1>4, <2>1 DEF Calls, CallIds
  <2>3. EchoCall(call)
    BY <1>1, <1>4, <2>1 DEF EchoReply
  <2> QED BY <1>0, <2>2, <2>3 DEF EchoSays
<1>5. CASE /\ ~(AfterResult(p) /\ Results(p) + 1 <= limit)
           /\ ~(~AfterResult(p) /\ withTools /\ w # NoName)
  <2>1. EchoText
    BY <1>1, <1>5 DEF EchoReply
  <2> QED BY <1>0, <2>1 DEF EchoSays
<1> QED BY <1>3, <1>4, <1>5

\* The reply of the echo provider keeps the type.
LEMMA EchoReplyType ==
    ASSUME StreamType, NEW first \in Tools, NEW limit, EchoReply(first, limit) PROVE StreamType'
<1>1. EchoSays /\ UNCHANGED <<ChunkFrame, depth, dropped>>
  BY EchoReplyIs
<1>2. /\ events' \in Seq(EventKinds) /\ said' \in Seq(Calls) /\ texts' \in Nat
      /\ phase' \in {"request", "stream", "assemble", "execute", "idle", "failed"}
  <2>1. CASE EchoText
    <3>1. <<Text, Completed>> \in Seq(EventKinds)
      BY DEF EventKinds
    <3> QED BY <2>1, <3>1, CallbackType DEF EchoText, StreamType
  <2>2. ASSUME NEW call \in Calls, call.size = 1, EchoCall(call)
        PROVE  /\ events' \in Seq(EventKinds) /\ said' \in Seq(Calls) /\ texts' \in Nat
               /\ phase' \in {"request", "stream", "assemble", "execute", "idle", "failed"}
    <3>1. <<Begin(call)>> \o Args(call, call.size) \o <<End(call), Completed>> \in Seq(EventKinds)
      BY <2>2, WholeCallType
    <3>2. CallbackAndEnd(<<Begin(call)>> \o Args(call, call.size) \o <<End(call), Completed>>)
      BY <2>2 DEF EchoCall
    <3>3. events' \in Seq(EventKinds)
          /\ phase' \in {"request", "stream", "assemble", "execute", "idle", "failed"}
      BY <3>1, <3>2, CallbackType DEF StreamType
    <3>4. said' = <<call>> /\ texts' = texts
      BY <2>2 DEF EchoCall
    <3> QED BY <3>3, <3>4 DEF StreamType
  <2> QED BY <1>1, <2>1, <2>2 DEF EchoSays
<1>3. dropped' \in BOOLEAN
  BY <1>1 DEF StreamType
<1> QED BY <1>1, <1>2, <1>3, ChunkType

\* With tools the response is what is read of the events, without them its texts.
LEMMA AssembledIs ==
    /\ withTools => Assembled = R
    /\ ~withTools => Assembled = [NewSlot EXCEPT !.texts = SpokenIn(events)]
  BY DEF Assembled, R, Reading, Unread, Spoken, SpokenIn

\* What is taken of the response has its type.
LEMMA AssembledType == ASSUME StreamType PROVE ReadType(Assembled)
<1>1. events \in Seq(EventKinds)
  BY DEF StreamType
<1>2. CASE withTools
  BY <1>1, <1>2, AssembledIs, ReadingType DEF R
<1>3. CASE ~withTools
  <2>1. SpokenIn(events) \in Nat
    BY <1>1, SpokenMore
  <2>2. ReadType(NewSlot)
    BY UnreadType DEF Unread
  <2> QED BY <1>3, <2>1, <2>2, AssembledIs DEF ReadType
<1> QED BY <1>2, <1>3

\* Assembling the response keeps the type.
LEMMA AssembleType == StreamType /\ Assemble => StreamType'
<1> SUFFICES ASSUME StreamType, Assemble PROVE StreamType'
  OBVIOUS
<1>0. PICK r : r = Assembled
  OBVIOUS
<1>1. ReadType(r)
  BY <1>0, AssembledType
<1>2. taken' \in [calls : Seq(CallsTaken), texts : Nat] /\ msgs' \in Seq(Said) /\ msgs' # <<>>
  <2>1. CASE UNCHANGED <<taken, msgs>>
    BY <2>1 DEF StreamType
  <2>2. CASE /\ taken' = [calls |-> r.calls, texts |-> r.texts]
             /\ msgs' = IF r.calls = <<>> /\ r.texts = 0 THEN msgs
                        ELSE Append(msgs, AssistantMsg(r.texts > 0))
    <3>1. taken' \in [calls : Seq(CallsTaken), texts : Nat]
      BY <1>1, <2>2 DEF ReadType
    <3>2. PICK m : m = AssistantMsg(r.texts > 0)
      OBVIOUS
    <3>3. m \in Said
      BY <3>2 DEF AssistantMsg, Said, NoId, CallIds
    <3>4. msgs \in Seq(Said) /\ msgs # <<>> /\ msgs' \in {msgs, Append(msgs, m)}
      BY <2>2, <3>2 DEF StreamType
    <3>5. Append(msgs, m) \in Seq(Said) /\ Append(msgs, m) # <<>>
      BY ONLY <3>3, <3>4
    <3> QED BY <3>1, <3>4, <3>5
  <2> QED BY <1>0, <2>1, <2>2 DEF Assemble
<1>3. UNCHANGED <<provider, numbered, turn, attempt, response, withTools, interrupted>>
      /\ phase' \in {"failed", "idle", "execute"}
  BY DEF Assemble
<1> QED BY <1>2, <1>3 DEF StreamType, response

\* The messages of the calls that are executed.
Executed(calls, cap) ==
    [k \in 1..cap |-> << CallMsg("call", calls[k]), CallMsg("result", calls[k]) >>]

\* The messages of the calls that are run.
LEMMA ExecutedType ==
    ASSUME NEW calls \in Seq(CallsTaken), NEW cap \in 0..Len(calls)
    PROVE  /\ Executed(calls, cap) \in Seq(Seq(Said)) /\ Len(Executed(calls, cap)) = cap
           /\ FlattenSeq(Executed(calls, cap)) \in Seq(Said)
<1>1. \A k \in 1..cap : << CallMsg("call", calls[k]), CallMsg("result", calls[k]) >> \in Seq(Said)
  <2> SUFFICES ASSUME NEW k \in 1..cap
               PROVE  << CallMsg("call", calls[k]), CallMsg("result", calls[k]) >> \in Seq(Said)
    OBVIOUS
  <2>1. PICK a, b, c : a = CallMsg("call", calls[k]) /\ b = CallMsg("result", calls[k])
                       /\ c = calls[k]
    OBVIOUS
  <2>2. c \in CallsTaken
    BY <2>1
  <2>3. a \in Said /\ b \in Said
    BY <2>1, <2>2 DEF CallMsg, Said, CallsTaken
  <2> QED BY <2>1, <2>3
<1>2. PICK it : it = Executed(calls, cap)
  OBVIOUS
<1>3. it \in [1..cap -> Seq(Said)]
  BY <1>1, <1>2 DEF Executed
<1>4. it \in Seq(Seq(Said)) /\ Len(it) = cap
  BY <1>3
<1> QED BY <1>2, <1>4, FlattenType

\* Running the calls adds messages, and spends a turn.
LEMMA ExecuteIs ==
    StreamType /\ Execute =>
        \E cap \in 0..Len(taken.calls) :
            /\ msgs' = msgs \o FlattenSeq(Executed(taken.calls, cap))
            /\ FlattenSeq(Executed(taken.calls, cap)) \in Seq(Said)
<1> SUFFICES ASSUME StreamType, Execute
             PROVE  \E cap \in 0..Len(taken.calls) :
                        /\ msgs' = msgs \o FlattenSeq(Executed(taken.calls, cap))
                        /\ FlattenSeq(Executed(taken.calls, cap)) \in Seq(Said)
  OBVIOUS
<1>1. PICK cap \in 1..Len(taken.calls) : msgs' = msgs \o FlattenSeq(Executed(taken.calls, cap))
  BY DEF Execute, Executed
<1>2. taken.calls \in Seq(CallsTaken) /\ cap \in 0..Len(taken.calls)
  BY DEF StreamType
<1> QED BY <1>1, <1>2, ExecutedType

\* Running the calls keeps the type.
LEMMA ExecuteType == StreamType /\ Execute => StreamType'
<1> SUFFICES ASSUME StreamType, Execute PROVE StreamType'
  OBVIOUS
<1>1. PICK it : it \in Seq(Said) /\ msgs' = msgs \o it
  BY ExecuteIs
<1>2. msgs \in Seq(Said) /\ msgs # <<>>
  BY DEF StreamType
<1>3. msgs' \in Seq(Said) /\ msgs' # <<>>
  BY <1>1, <1>2
<1>4. UNCHANGED <<provider, numbered, turn, attempt, response, taken, interrupted>>
      /\ phase' = "request" /\ withTools' \in BOOLEAN
  BY DEF Execute, NextOffers
<1> QED BY <1>3, <1>4 DEF StreamType, response

\* An instruction of the judge is a message.
LEMMA FollowUp ==
    ASSUME NEW n \in Nat
    PROVE  SystemMsg(n) \in Said /\ SystemMsg(n).kind = "system" /\ SystemMsg(n).text = FALSE
  BY DEF SystemMsg, Said, CallIds

\* Another loop, with or without an instruction more, keeps the type.
LEMMA AskMoreType == StreamType /\ AskMore => StreamType'
<1> SUFFICES ASSUME StreamType, AskMore PROVE StreamType'
  OBVIOUS
<1>1. msgs' = msgs \/ \E n \in {1, 2} : msgs' = Append(msgs, SystemMsg(n))
  BY DEF AskMore
<1>2. PICK n \in Nat : msgs' \in {msgs, Append(msgs, SystemMsg(n))}
  BY <1>1
<1>3. msgs \in Seq(Said) /\ msgs # <<>>
  BY DEF StreamType
<1>4. msgs' \in Seq(Said) /\ msgs' # <<>>
  <2>1. PICK m : m = SystemMsg(n)
    OBVIOUS
  <2>2. m \in Said
    BY <2>1, FollowUp
  <2>3. Append(msgs, m) \in Seq(Said) /\ Append(msgs, m) # <<>>
    BY ONLY <1>3, <2>2
  <2> QED BY <1>2, <1>3, <2>1, <2>3
<1>5. UNCHANGED <<provider, numbered, turn, attempt, response, withTools, taken, interrupted>>
      /\ phase' = "request"
  BY DEF AskMore
<1> QED BY <1>4, <1>5 DEF StreamType, response

\* Going on after a limit keeps the type.
LEMMA ContinueType == StreamType /\ Continue => StreamType'
  BY DEF StreamType, Continue, response

\* The steps of a response, by what the induction does with them.
LEMMA StreamSteps ==
    ASSUME StreamNext
    PROVE  \/ Send \/ RateLimited \/ Broken \/ Interrupt
           \/ TextDelta
           \/ \E name \in Tools, size \in 0..MaxPieces : BeginCall(name, size)
           \/ \E i \in DOMAIN open : ArgsDelta(i)
           \/ \E i \in DOMAIN open : ArgsDone(i)
           \/ EndReply
           \/ \E surplus \in Surplus : TextChunk(surplus)
           \/ \E name \in Tools, size \in 0..MaxPieces, hasId \in BOOLEAN, surplus \in Surplus :
                CallChunk(name, size, hasId, surplus)
           \/ LastChunk
           \/ \E first \in Tools, limit \in LoopTests : EchoReply(first, limit)
           \/ Assemble \/ Execute \/ AskMore \/ Continue
  BY DEF StreamNext

\* Every step keeps the type.
LEMMA StreamTypeStep == StreamAssumption /\ StreamType /\ [StreamNext]_streamVars => StreamType'
<1> SUFFICES ASSUME StreamAssumption, StreamType, [StreamNext]_streamVars PROVE StreamType'
  OBVIOUS
<1>1. CASE UNCHANGED streamVars
  BY <1>1 DEF streamVars, response, StreamType
<1>2. CASE StreamNext
  BY <1>2, StreamSteps, SendType, StillType, TextDeltaType, BeginCallType, ArgsDeltaType,
     ArgsDoneType, EndReplyType, TextChunkType, CallChunkType, LastChunkType, EchoReplyType,
     AssembleType, ExecuteType, AskMoreType, ContinueType
<1> QED BY <1>1, <1>2

-----------------------------------------------------------------------------
\* The invariant of a response, action by action

RType == R \in [name : Tools \cup {NoName}, args : Seq(Pieces), calls : Seq(CallsTaken),
                texts : Nat, bad : BOOLEAN]

\* The response that is read has its type.
LEMMA RHasType == StreamType => RType
  BY ReadingType DEF StreamType, R, ReadType, RType

\* The invariant of the response holds at first.
LEMMA ResponseInvInit == StreamAssumption /\ StreamInit => ResponseInv
<1> SUFFICES ASSUME StreamAssumption, StreamInit PROVE ResponseInv
  OBVIOUS
<1>1. StreamType
  BY StreamTypeInit
<1>2. R = NewSlot /\ phase = "request"
  BY ReadNothing DEF R, Unread, StreamInit
<1> QED BY <1>1, <1>2 DEF ResponseInv, Emptied, NewSlot, Streaming, OneByOne, AsAsked, Accounted,
     Ended, Taken

\* A response that has failed, or whose messages are on their way.
LEMMA LeftKeeps ==
    ASSUME Emptied', StreamType', phase' \in {"failed", "request"}
    PROVE  ResponseInv'
  BY DEF ResponseInv, Streaming, OneByOne, AsAsked, Accounted, Ended, Taken

\* Without a new event the response stays.
LEMMA SameEvents == UNCHANGED events => R' = R
  BY DEF R

\* Nothing of the response has changed.
LEMMA SameResponse ==
    ASSUME ResponseInv, StreamType',
           UNCHANGED <<provider, numbered, phase, response, withTools, taken>>
    PROVE  ResponseInv'
<1>1. R' = R
  BY SameEvents DEF response
<1>2. UNCHANGED <<provider, numbered, phase, said, texts, open, overlap, dropped, withTools, taken>>
  BY DEF response
<1>3. Emptied' /\ Streaming' /\ OneByOne'
  BY <1>1, <1>2 DEF ResponseInv, Emptied, Streaming, OneByOne, response
<1>4. AsAsked' /\ Accounted'
  BY <1>1, <1>2 DEF ResponseInv, AsAsked, Accounted, Matched, Whole, Found
<1>5. Ended'
  <2>1. AllRead(R)' <=> AllRead(R)
    BY <1>1, <1>2 DEF AllRead, Found
  <2> QED BY <1>1, <1>2, <2>1 DEF ResponseInv, Ended, Whole
<1>6. Taken'
  BY <1>2 DEF ResponseInv, Taken, AllRead, Matched, Whole, Found
<1> QED BY <1>3, <1>4, <1>5, <1>6 DEF ResponseInv

\* A request starts from nothing.
LEMMA SendKeeps == ResponseInv /\ Send => ResponseInv'
<1> SUFFICES ASSUME ResponseInv, Send PROVE ResponseInv'
  OBVIOUS
<1>1. StreamType'
  BY SendType DEF ResponseInv
<1>2. R' = NewSlot
  BY ReadNothing DEF R, Unread, Send
<1>3. said' = <<>> /\ texts' = 0 /\ DOMAIN open' = {} /\ phase' \in {"failed", "stream"}
      /\ events' = <<>>
  BY DEF Send
<1>4. Cardinality(DOMAIN open') = 0
  BY <1>3, FS_EmptySet
<1>5. R'.calls = <<>> /\ R'.args = <<>> /\ R'.texts = 0
  BY <1>2 DEF NewSlot
<1>6. Emptied' /\ Streaming' /\ OneByOne'
  BY <1>3, <1>5 DEF Emptied, Streaming, OneByOne
<1>7. AsAsked' /\ Accounted'
  BY <1>3, <1>4, <1>5 DEF AsAsked, Matched, Accounted
<1>8. Ended' /\ Taken'
  BY <1>3 DEF Ended, Taken
<1> QED BY <1>1, <1>6, <1>7, <1>8 DEF ResponseInv

\* A refusal, a broken connection and an interrupt leave no response to read.
LEMMA StillKeeps == ResponseInv /\ (RateLimited \/ Broken \/ Interrupt) => ResponseInv'
<1> SUFFICES ASSUME ResponseInv, RateLimited \/ Broken \/ Interrupt PROVE ResponseInv'
  OBVIOUS
<1>1. StreamType'
  BY StillType DEF ResponseInv
<1>2. CASE Broken
  <2>1. phase' = "failed" /\ UNCHANGED events
    BY <1>2 DEF Broken, response
  <2>2. Emptied'
    BY <2>1, SameEvents DEF ResponseInv, Emptied
  <2> QED BY <1>1, <2>1, <2>2, LeftKeeps
<1>3. CASE RateLimited \/ Interrupt
  <2>1. UNCHANGED <<provider, numbered, phase, response, withTools, taken>>
    BY <1>3 DEF RateLimited, Interrupt
  <2> QED BY <1>1, <2>1, SameResponse
<1> QED BY <1>2, <1>3

\* A callback after Ctrl-C ends the response.
LEMMA CallbackFails ==
    ASSUME ResponseInv, StreamType', interrupted, NEW es, Callback(es) \/ CallbackAndEnd(es)
    PROVE  ResponseInv'
<1>1. phase' = "failed" /\ UNCHANGED events
  BY DEF Callback, CallbackAndEnd
<1>2. Emptied'
  BY <1>1, SameEvents DEF ResponseInv, Emptied
<1> QED BY <1>1, <1>2, LeftKeeps

\* One text more was read and written, by a provider that may.
LEMMA OneTextMore ==
    ASSUME ResponseInv, StreamType', phase = "stream", phase' = "stream", provider # "echo",
           R' = [R EXCEPT !.texts = @ + 1], texts' = texts + 1,
           UNCHANGED <<provider, numbered, said, open, overlap, dropped>>
    PROVE  ResponseInv'
<1>1. R'.calls = R.calls /\ R'.args = R.args /\ R'.name = R.name /\ R'.bad = R.bad
      /\ R'.texts = R.texts + 1
  BY RHasType DEF ResponseInv, RType
<1>2. Emptied' /\ Streaming' /\ OneByOne'
  BY <1>1 DEF ResponseInv, Emptied, Streaming, OneByOne
<1>3. AsAsked'
  BY <1>1 DEF ResponseInv, AsAsked, Matched
<1>4. Accounted'
  BY <1>1 DEF ResponseInv, Accounted, Whole, Found
<1> QED BY <1>2, <1>3, <1>4 DEF ResponseInv, Ended, Taken

\* A piece of text is one in the reply and one in the response.
LEMMA TextDeltaKeeps == ResponseInv /\ TextDelta => ResponseInv'
<1> SUFFICES ASSUME ResponseInv, TextDelta PROVE ResponseInv'
  OBVIOUS
<1>1. StreamType' /\ events \in Seq(EventKinds)
  BY TextDeltaType DEF ResponseInv, StreamType
<1>2. CASE interrupted
  BY <1>1, <1>2, CallbackFails DEF TextDelta
<1>3. CASE ~interrupted
  <2>1. events' = events \o <<Text>> /\ phase = "stream" /\ phase' = "stream"
        /\ provider # "echo" /\ texts' = texts + 1
    BY <1>3 DEF TextDelta, Callback, Deltas
  <2>2. R' = [R EXCEPT !.texts = @ + 1]
    BY <1>1, <2>1, ReadText DEF R
  <2>3. UNCHANGED <<provider, numbered, said, open, overlap, dropped>>
    BY DEF TextDelta, streamFrame
  <2> QED BY <1>1, <2>1, <2>2, <2>3, OneTextMore
<1> QED BY <1>2, <1>3

\* A chunk with text is one in the reply and one in the response.
LEMMA TextChunkKeeps ==
    ASSUME ResponseInv, NEW surplus, TextChunk(surplus) PROVE ResponseInv'
<1>1. StreamType' /\ events \in Seq(EventKinds)
  BY TextChunkType DEF ResponseInv, StreamType
<1>0. phase = "stream" /\ provider = "gemini" /\ texts' = texts + 1
      /\ UNCHANGED <<provider, numbered, said, open, overlap>>
  BY DEF TextChunk, ChunkFrame
<1>2. CASE Framed(surplus) /\ interrupted
  BY <1>1, <1>2, CallbackFails DEF TextChunk
<1>3. CASE Framed(surplus) /\ ~interrupted
  <2>1. events' = events \o <<Text>> /\ phase' = "stream"
    BY <1>0, <1>3 DEF TextChunk, Callback
  <2>2. R' = [R EXCEPT !.texts = @ + 1]
    BY <1>1, <2>1, ReadText DEF R
  <2>3. dropped' = dropped
    BY <1>1, <1>3 DEF TextChunk, StreamType, ResponseInv
  <2> QED BY <1>0, <1>1, <2>1, <2>2, <2>3, OneTextMore
<1>4. CASE ~Framed(surplus)
  <2>1. UNCHANGED <<events, phase>> /\ dropped' = TRUE
    BY <1>4 DEF TextChunk
  <2>2. R' = R
    BY <2>1, SameEvents
  <2>3. Emptied' /\ Streaming' /\ OneByOne' /\ AsAsked'
    BY <1>0, <2>1, <2>2 DEF ResponseInv, Emptied, Streaming, OneByOne, AsAsked, Matched
  <2>4. ~Whole' /\ phase' = "stream"
    BY <1>0, <2>1 DEF Whole
  <2> QED BY <1>1, <2>3, <2>4 DEF ResponseInv, Accounted, Ended, Taken
<1> QED BY <1>2, <1>3, <1>4

\* A call that matched still does when the model has made one more.
LEMMA MatchedLonger ==
    ASSUME NEW s \in Seq(Calls), NEW call, NEW r, Len(r.calls) \in Nat, Matched(r, s)
    PROVE  Matched(r, Append(s, call))
<1>1. PICK t : t = Append(s, call)
  OBVIOUS
<1>2. \A j \in 1..Len(s) : j \in 1..Len(t) /\ t[j] = s[j]
  BY <1>1
<1> QED BY <1>1, <1>2 DEF Matched

\* A call that begins is the last of both.
LEMMA BeginCallKeeps ==
    ASSUME StreamAssumption, ResponseInv, NEW name \in Tools, NEW size \in 0..MaxPieces,
           BeginCall(name, size)
    PROVE  ResponseInv'
<1>1. StreamType /\ StreamType' /\ events \in Seq(EventKinds) /\ said \in Seq(Calls)
      /\ Len(said) \in Nat
  <2>1. StreamType
    BY DEF ResponseInv
  <2>2. StreamType'
    BY <2>1, BeginCallType
  <2> QED BY <2>1, <2>2 DEF StreamType
<1>2. PICK call : call = NewCall(name, size, TRUE)
  OBVIOUS
<1>3. /\ call \in Calls /\ Slot \in Nat /\ DOMAIN open' = DOMAIN open \cup {Slot}
      /\ \A x \in DOMAIN open' :
            open'[x] = IF x = Slot THEN [call |-> call, got |-> 0] ELSE open[x]
  BY <1>1, <1>2, BeginIs
<1>4. /\ phase = "stream" /\ Deltas /\ Callback(<<Begin(call)>>) /\ said' = Append(said, call)
      /\ overlap' = (overlap \/ DOMAIN open # {})
      /\ UNCHANGED <<provider, numbered, texts, dropped>>
  BY <1>2 DEF BeginCall, streamFrame
<1>5. CASE interrupted
  BY <1>1, <1>4, <1>5, CallbackFails
<1>6. CASE ~interrupted
  <2>1. events' = events \o <<Begin(call)>> /\ phase' = "stream"
    BY <1>4, <1>6 DEF Callback
  <2>2. R' = [R EXCEPT !.name = call.name, !.args = <<>>]
    BY <1>1, <2>1, ReadBegin DEF R
  <2>3. R'.calls = R.calls /\ R'.args = <<>> /\ R'.name = call.name /\ R'.bad = R.bad
        /\ R'.texts = R.texts
    BY <1>1, <2>2, RHasType DEF RType
  <2>4. /\ Len(said') = Len(said) + 1 /\ said'[Len(said) + 1] = call
        /\ \A j \in 1..Len(said) : said'[j] = said[j]
    BY <1>1, <1>3, <1>4
  <2>5. Emptied' /\ Streaming'
    BY <1>3, <1>4, <2>3 DEF Emptied, Streaming, Deltas
  <2>6. OneByOne'
    <3> SUFFICES ASSUME ~overlap'
                 PROVE  /\ \A i, j \in DOMAIN open' : i = j
                        /\ \A i \in DOMAIN open' :
                              /\ \E j \in 1..Len(said') : said'[j] = open'[i].call
                              /\ R'.name = open'[i].call.name
      BY DEF OneByOne
    <3>1. DOMAIN open' = {Slot}
      BY <1>3, <1>4
    <3>2. open'[Slot].call = call
      BY <1>3, <3>1
    <3>3. Len(said) + 1 \in 1..Len(said')
      BY <1>1, <2>4
    <3> QED BY <2>3, <2>4, <3>1, <3>2, <3>3
  <2>7. AsAsked'
    <3> SUFFICES ASSUME ~overlap', ~R'.bad PROVE Matched(R, said)'
      BY DEF AsAsked
    <3>1. PICK r : r = R
      OBVIOUS
    <3>2. Matched(r, said) /\ Len(r.calls) \in Nat
      <4>1. ~overlap /\ ~R.bad
        BY <1>4, <2>3
      <4>2. Matched(R, said)
        BY <1>4, <4>1 DEF ResponseInv, AsAsked
      <4>3. Len(R.calls) \in Nat
        BY <1>1, RHasType DEF RType
      <4>4. Matched(r, said)
        BY <3>1, <4>2 DEF Matched
      <4> QED BY <3>1, <4>3, <4>4
    <3>3. Matched(r, said')
      BY <1>1, <1>4, <3>2, MatchedLonger
    <3> QED BY <2>3, <3>1, <3>3 DEF Matched
  <2>8. Accounted'
    <3> SUFFICES ASSUME Whole', ~R'.bad
                 PROVE  /\ R'.texts = texts'
                        /\ Len(R'.calls) + Cardinality(DOMAIN open') = Len(said')
                        /\ \A i \in DOMAIN open' : i \in 1..Len(said') /\ open'[i].call = said'[i]
                        /\ \A j \in 1..Len(said') : j \in DOMAIN open' \/ Found(R, said, j)'
      BY DEF Accounted
    <3>1. Whole
      BY <1>4 DEF Whole
    <3>2. /\ R.texts = texts
          /\ Len(R.calls) + Cardinality(DOMAIN open) = Len(said)
          /\ \A i \in DOMAIN open : i \in 1..Len(said) /\ open[i].call = said[i]
          /\ \A j \in 1..Len(said) : j \in DOMAIN open \/ Found(R, said, j)
      BY <1>4, <2>3, <3>1 DEF ResponseInv, Accounted
    <3>3. Slot = Len(said) + 1
      <4>1. CASE numbered
        BY <4>1 DEF Slot
      <4>2. CASE ~numbered
        <5>1. DOMAIN open = {} /\ provider = "compat"
          BY <1>1, <1>4, <4>2 DEF Whole, StreamType
        <5>2. said = <<>>
          BY <1>4, <5>1 DEF ResponseInv, Streaming
        <5> QED BY <4>2, <5>2 DEF Slot
      <4> QED BY <4>1, <4>2
    <3>4. Slot \notin DOMAIN open
      BY <1>1, <3>2, <3>3
    <3>5. Cardinality(DOMAIN open') = Cardinality(DOMAIN open) + 1
      BY <1>1, <1>3, <3>4, FS_AddElement DEF StreamType
    <3>6. Cardinality(DOMAIN open) \in Nat /\ Len(R.calls) \in Nat
      <4>1. Cardinality(DOMAIN open) \in Nat
        BY <1>1, FS_CardinalityType DEF StreamType
      <4>2. Len(R.calls) \in Nat
        BY <1>1, RHasType DEF RType
      <4> QED BY <4>1, <4>2
    <3>7. \A i \in DOMAIN open' : i \in 1..Len(said') /\ open'[i].call = said'[i]
      <4> SUFFICES ASSUME NEW i \in DOMAIN open'
                   PROVE  i \in 1..Len(said') /\ open'[i].call = said'[i]
        OBVIOUS
      <4>1. CASE i = Slot
        BY <1>1, <1>3, <2>4, <3>3, <4>1
      <4>2. CASE i # Slot
        <5>1. i \in DOMAIN open /\ open'[i] = open[i]
          BY <1>3, <4>2
        <5>2. i \in 1..Len(said) /\ open[i].call = said[i]
          BY <3>2, <5>1
        <5> QED BY <1>1, <2>4, <5>1, <5>2
      <4> QED BY <4>1, <4>2
    <3>8. \A j \in 1..Len(said') : j \in DOMAIN open' \/ Found(R, said, j)'
      <4> SUFFICES ASSUME NEW j \in 1..Len(said') PROVE j \in DOMAIN open' \/ Found(R, said, j)'
        OBVIOUS
      <4>1. CASE j = Slot
        BY <1>3, <4>1
      <4>2. CASE j # Slot
        <5>1. j \in 1..Len(said) /\ said'[j] = said[j]
          BY <1>1, <2>4, <3>3, <4>2
        <5>2. j \in DOMAIN open \/ Found(R, said, j)
          BY <3>2, <5>1
        <5> QED BY <1>3, <2>3, <5>1, <5>2 DEF Found
      <4> QED BY <4>1, <4>2
    <3>9. Len(R.calls) + Cardinality(DOMAIN open') = Len(said')
      BY <1>1, <2>4, <3>2, <3>5, <3>6
    <3>10. R'.texts = texts' /\ R'.calls = R.calls
      BY <1>4, <2>3, <3>2
    <3> QED BY <3>7, <3>8, <3>9, <3>10
  <2> QED BY <1>1, <2>1, <2>5, <2>6, <2>7, <2>8 DEF ResponseInv, Ended, Taken
<1> QED BY <1>5, <1>6

\* A piece of arguments goes to the call it is a piece of.
LEMMA ArgsDeltaKeeps ==
    ASSUME ResponseInv, NEW i \in DOMAIN open, ArgsDelta(i) PROVE ResponseInv'
<1>1. StreamType /\ StreamType'
  BY ArgsDeltaType DEF ResponseInv
<1>2. DOMAIN open' = DOMAIN open /\ \A x \in DOMAIN open : open'[x].call = open[x].call
  BY <1>1, ArgsDeltaIs
<1>3. phase = "stream"
      /\ UNCHANGED <<provider, numbered, phase, said, texts, events, overlap, dropped>>
  BY DEF ArgsDelta, streamFrame
<1>4. R' = R
  BY <1>3, SameEvents
<1>5. Emptied' /\ Streaming' /\ OneByOne'
  BY <1>2, <1>3, <1>4 DEF ResponseInv, Emptied, Streaming, OneByOne
<1>6. AsAsked' /\ Accounted'
  BY <1>2, <1>3, <1>4 DEF ResponseInv, AsAsked, Accounted, Matched, Whole, Found
<1> QED BY <1>1, <1>3, <1>5, <1>6 DEF ResponseInv, Ended, Taken

\* A call that has all of its arguments, or none, is read as it is.
CallRead(r, q, call) ==
    /\ q.args = <<>> /\ q.texts = r.texts /\ q.bad = r.bad
    /\ Len(r.calls) \in Nat /\ Len(q.calls) = Len(r.calls) + 1
    /\ \A k \in 1..Len(r.calls) : q.calls[k] = r.calls[k]
    /\ q.calls[Len(r.calls) + 1].id = call.id
    /\ r.name = call.name => SameCall(q.calls[Len(r.calls) + 1], call)

\* A call whose pieces are all there may be ended.
LEMMA WholeClosing ==
    ASSUME NEW r, ReadType(r), r.args = <<>>,
           NEW call \in Calls, NEW got, got = 0 \/ got = call.size
    PROVE  CallRead(r, Closing(r, call, got), call)
<1>0. /\ r \in [name : Tools \cup {NoName}, args : Seq(Pieces), calls : Seq(CallsTaken),
               texts : Nat, bad : BOOLEAN]
      /\ r.calls \in Seq(CallsTaken) /\ Len(r.calls) \in Nat
  BY DEF ReadType
<1>1. PICK it : it = [id |-> call.id, name |-> r.name,
                      args |-> IF got = 0 THEN NoArgs ELSE call.n]
  OBVIOUS
<1>2. Closing(r, call, got) = [r EXCEPT !.calls = Append(@, it), !.name = NoName]
  BY <1>1 DEF Closing
<1>3. PICK q : q = Closing(r, call, got)
  OBVIOUS
<1>4. q.args = <<>> /\ q.texts = r.texts /\ q.bad = r.bad /\ q.calls = Append(r.calls, it)
  BY <1>0, <1>2, <1>3
<1>5. it \in CallsTaken
  <2>1. call.n \in Nat /\ call.id \in CallIds /\ r.name \in Tools \cup {NoName}
    BY <1>0 DEF Calls
  <2> QED BY <1>1, <2>1 DEF CallsTaken, NoArgs
<1>6. /\ Len(q.calls) = Len(r.calls) + 1 /\ q.calls[Len(r.calls) + 1] = it
      /\ \A k \in 1..Len(r.calls) : q.calls[k] = r.calls[k]
  BY <1>0, <1>4, <1>5
<1>7. it.id = call.id /\ (r.name = call.name => SameCall(it, call))
  BY <1>1 DEF SameCall
<1> QED BY <1>0, <1>3, <1>4, <1>6, <1>7 DEF CallRead

\* What has been read so far stays, and one call more was found.
LEMMA OneCallMore ==
    ASSUME NEW r, NEW q, NEW call, NEW s, CallRead(r, q, call)
    PROVE  /\ Matched(r, s) /\ r.name = call.name /\ (\E j \in 1..Len(s) : s[j] = call)
                => Matched(q, s)
           /\ \A j : Found(r, s, j) => Found(q, s, j)
           /\ \A j : call.id = s[j].id => Found(q, s, j)
<1>0. /\ Len(r.calls) \in Nat /\ Len(q.calls) = Len(r.calls) + 1
      /\ \A k \in 1..Len(r.calls) : q.calls[k] = r.calls[k]
      /\ q.calls[Len(r.calls) + 1].id = call.id
      /\ r.name = call.name => SameCall(q.calls[Len(r.calls) + 1], call)
  BY DEF CallRead
<1>1. /\ Len(r.calls) + 1 \in 1..Len(q.calls)
      /\ \A k \in 1..Len(q.calls) : k \in 1..Len(r.calls) \/ k = Len(r.calls) + 1
      /\ \A k \in 1..Len(r.calls) : k \in 1..Len(q.calls)
  BY <1>0
<1>2. ASSUME Matched(r, s), r.name = call.name, \E j \in 1..Len(s) : s[j] = call
      PROVE  Matched(q, s)
  <2> SUFFICES ASSUME NEW k \in 1..Len(q.calls)
               PROVE  \E j \in 1..Len(s) : SameCall(q.calls[k], s[j])
    BY DEF Matched
  <2>1. CASE k \in 1..Len(r.calls)
    BY <1>0, <1>2, <2>1 DEF Matched
  <2>2. CASE k = Len(r.calls) + 1
    BY <1>0, <1>2, <2>2
  <2> QED BY <1>1, <2>1, <2>2
<1>3. ASSUME NEW j, Found(r, s, j) PROVE Found(q, s, j)
  <2>1. PICK k \in 1..Len(r.calls) : r.calls[k].id = s[j].id
    BY <1>3 DEF Found
  <2>2. k \in 1..Len(q.calls) /\ q.calls[k].id = s[j].id
    BY <1>0, <1>1, <2>1
  <2> QED BY <2>2 DEF Found
<1>4. ASSUME NEW j, call.id = s[j].id PROVE Found(q, s, j)
  BY <1>0, <1>1, <1>4 DEF Found
<1> QED BY <1>2, <1>3, <1>4

\* The end of a call keeps its arguments.
LEMMA ArgsDoneKeeps ==
    ASSUME ResponseInv, NEW i \in DOMAIN open, ArgsDone(i) PROVE ResponseInv'
<1>1. StreamType /\ StreamType' /\ events \in Seq(EventKinds)
  BY ArgsDoneType DEF ResponseInv, StreamType
<1>2. PICK call : call = open[i].call
  OBVIOUS
<1>3. /\ phase = "stream" /\ provider = "gpt" /\ open' = Drop(open, i)
      /\ Callback(Append(Args(call, call.size), End(call)))
      /\ UNCHANGED <<provider, numbered, said, texts, overlap, dropped>>
  BY <1>2 DEF ArgsDone, streamFrame
<1>4. CASE interrupted
  BY <1>1, <1>3, <1>4, CallbackFails
<1>5. CASE ~interrupted
  <2>1. events' = events \o Append(Args(call, call.size), End(call)) /\ phase' = "stream"
    BY <1>3, <1>5 DEF Callback
  <2>2. PICK r, q : r = R /\ q = R'
    OBVIOUS
  <2>3. call \in Calls /\ call.size \in Nat
    BY <1>1, <1>2 DEF StreamType, Calls
  <2>4. q = Closing(r, call, call.size)
    BY <1>1, <2>1, <2>2, <2>3, ReadClosing DEF R, ResponseInv, Emptied
  <2>5. ReadType(r) /\ r.args = <<>>
    BY <1>1, <2>2, RHasType DEF RType, ReadType, ResponseInv, Emptied
  <2>6. CallRead(r, q, call)
    BY <2>3, <2>4, <2>5, WholeClosing
  <2>7. /\ q.args = <<>> /\ q.texts = r.texts /\ q.bad = r.bad
        /\ Len(r.calls) \in Nat /\ Len(q.calls) = Len(r.calls) + 1
    BY <2>6 DEF CallRead
  <2>9. /\ Matched(r, said) /\ r.name = call.name /\ (\E j \in 1..Len(said) : said[j] = call)
             => Matched(q, said)
        /\ \A j : Found(r, said, j) => Found(q, said, j)
        /\ \A j : call.id = said[j].id => Found(q, said, j)
    BY <2>6, OneCallMore
  <2>10. /\ DOMAIN open' = DOMAIN open \ {i}
         /\ \A x \in DOMAIN open' : open'[x] = open[x]
    BY <1>3 DEF Drop
  <2>11. Emptied' /\ Streaming'
    BY <1>3, <2>2, <2>7 DEF Emptied, Streaming
  <2>12. OneByOne'
    <3>1. ~overlap => DOMAIN open' = {}
      BY <1>3, <2>10 DEF ResponseInv, OneByOne
    <3> QED BY <1>3, <3>1 DEF OneByOne
  <2>13. AsAsked'
    <3> SUFFICES ASSUME ~overlap', ~R'.bad PROVE Matched(R, said)'
      BY DEF AsAsked
    <3>1. ~overlap /\ ~r.bad
      BY <1>3, <2>2, <2>7
    <3>2. Matched(r, said)
      BY <1>3, <2>2, <3>1 DEF ResponseInv, AsAsked, Matched
    <3>3. r.name = call.name /\ \E j \in 1..Len(said) : said[j] = call
      BY <1>2, <1>3, <2>2, <3>1 DEF ResponseInv, OneByOne
    <3>5. Matched(q, said)
      BY <2>9, <3>2, <3>3
    <3> QED BY <1>3, <2>2, <3>5 DEF Matched
  <2>14. Accounted'
    <3> SUFFICES ASSUME Whole', ~R'.bad
                 PROVE  /\ R'.texts = texts'
                        /\ Len(R'.calls) + Cardinality(DOMAIN open') = Len(said')
                        /\ \A x \in DOMAIN open' : x \in 1..Len(said') /\ open'[x].call = said'[x]
                        /\ \A j \in 1..Len(said') : j \in DOMAIN open' \/ Found(R, said, j)'
      BY DEF Accounted
    <3>1. Whole /\ ~R.bad
      BY <1>3, <2>2, <2>7 DEF Whole
    <3>2. /\ r.texts = texts
          /\ Len(r.calls) + Cardinality(DOMAIN open) = Len(said)
          /\ \A x \in DOMAIN open : x \in 1..Len(said) /\ open[x].call = said[x]
          /\ \A j \in 1..Len(said) : j \in DOMAIN open \/ Found(r, said, j)
      BY <1>3, <2>2, <3>1 DEF ResponseInv, Accounted, Found
    <3>3. Cardinality(DOMAIN open') = Cardinality(DOMAIN open) - 1
          /\ Cardinality(DOMAIN open) \in Nat
      BY <1>1, <2>10, FS_RemoveElement, FS_CardinalityType DEF StreamType
    <3>4. \A j \in 1..Len(said) : j \in DOMAIN open' \/ Found(q, said, j)
      <4>1. call.id = said[i].id
        BY <1>2, <3>2
      <4>2. Found(q, said, i)
        BY <2>9, <4>1
      <4> QED BY <2>9, <2>10, <3>2, <4>2
    <3>5. Len(q.calls) + Cardinality(DOMAIN open') = Len(said)
      BY <2>7, <3>2, <3>3
    <3>6. \A j \in 1..Len(said) : Found(q, said, j) <=> Found(R, said, j)'
      BY <1>3, <2>2 DEF Found
    <3> QED BY <1>3, <2>2, <2>7, <2>10, <3>2, <3>4, <3>5, <3>6
  <2> QED BY <1>1, <2>1, <2>11, <2>12, <2>13, <2>14 DEF ResponseInv, Ended, Taken
<1> QED BY <1>4, <1>5

-----------------------------------------------------------------------------
\* The calls that are still open when a response ends

ReadUpTo(order, k) == Reading(events \o FlattenSeq(FirstOf(Items(order), k)))

\* One of the events of the end after the other.
LEMMA ReadUpToNext ==
    ASSUME StreamType, NEW order \in Orders, NEW k \in 0..(Cardinality(DOMAIN open) - 1),
           ReadUpTo(order, k).args = <<>>
    PROVE  /\ order[k + 1] \in DOMAIN open
           /\ ReadUpTo(order, k + 1) = Closing(ReadUpTo(order, k), open[order[k + 1]].call,
                                               open[order[k + 1]].got)
<1>1. PICK n, it, o : n = Cardinality(DOMAIN open) /\ it = Items(order) /\ o = open[order[k + 1]]
  OBVIOUS
<1>2. /\ n \in Nat /\ order \in [1..n -> DOMAIN open]
      /\ it \in Seq(Seq(EventKinds)) /\ Len(it) = n /\ DOMAIN order = 1..n
  BY <1>1, OrderIs
<1>3. k + 1 \in 1..n /\ k \in 0..(Len(it) - 1)
  BY <1>1, <1>2
<1>4. order[k + 1] \in DOMAIN open
  BY <1>2, <1>3
<1>5. o.call \in Calls /\ o.got \in Nat
  BY <1>1, <1>4 DEF StreamType
<1>6. it[k + 1] = Append(Args(o.call, o.got), End(o.call))
  BY <1>1, <1>2, <1>3 DEF Items
<1>7. PICK f : f = FlattenSeq(FirstOf(it, k))
  OBVIOUS
<1>8. f \in Seq(EventKinds) /\ FlattenSeq(FirstOf(it, k + 1)) = f \o it[k + 1]
  BY <1>2, <1>3, <1>7, FlattenOneMore
<1>9. PICK x : x = it[k + 1]
  OBVIOUS
<1>10. x \in Seq(EventKinds) /\ events \in Seq(EventKinds)
  BY <1>2, <1>3, <1>9 DEF StreamType
<1>11. events \o (f \o x) = (events \o f) \o x /\ events \o f \in Seq(EventKinds)
  <2>1. events \in Seq(EventKinds) /\ f \in Seq(EventKinds) /\ x \in Seq(EventKinds)
    BY <1>8, <1>10
  <2>2. events \o (f \o x) = (events \o f) \o x
    <3>1. PICK e, S : e = events /\ S = EventKinds
      OBVIOUS
    <3>2. e \in Seq(S) /\ f \in Seq(S) /\ x \in Seq(S)
      BY <2>1, <3>1
    <3>3. e \o (f \o x) = (e \o f) \o x
      BY <3>2
    <3> QED BY <3>1, <3>3
  <2>3. events \o f \in Seq(EventKinds)
    BY <2>1
  <2> QED BY <2>2, <2>3
<1>12. PICK es : es = events \o f
  OBVIOUS
<1>13. Reading(es) = ReadUpTo(order, k)
  BY <1>1, <1>7, <1>12 DEF ReadUpTo
<1>14. Reading(es \o x) = Closing(Reading(es), o.call, o.got)
  BY <1>5, <1>6, <1>9, <1>11, <1>12, <1>13, ReadClosing
<1>15. ReadUpTo(order, k + 1) = Reading(es \o x)
  BY <1>1, <1>8, <1>9, <1>11, <1>12 DEF ReadUpTo
<1> QED BY <1>1, <1>4, <1>13, <1>14, <1>15

\* Before the first of them, and after the last.
LEMMA ReadUpToEnds ==
    ASSUME StreamType, NEW order \in Orders
    PROVE  /\ ReadUpTo(order, 0) = R
           /\ ReadUpTo(order, Cardinality(DOMAIN open)) = Reading(events \o Rest(order))
<1>1. PICK n, it : n = Cardinality(DOMAIN open) /\ it = Items(order)
  OBVIOUS
<1>2. it \in Seq(Seq(EventKinds)) /\ Len(it) = n /\ Rest(order) = FlattenSeq(it)
  BY <1>1, OrderIs
<1>3. FirstOf(it, 0) = <<>> /\ FirstOf(it, n) = it
  BY <1>2, FirstAndAll
<1>4. events \o <<>> = events
  BY DEF StreamType
<1> QED BY <1>1, <1>2, <1>3, <1>4, FlattenEmpty DEF ReadUpTo, R

\* Each time there is a response.
LEMMA ReadUpToType ==
    ASSUME StreamType, NEW order \in Orders, NEW k \in 0..Cardinality(DOMAIN open)
    PROVE  ReadType(ReadUpTo(order, k))
<1>1. PICK n, it : n = Cardinality(DOMAIN open) /\ it = Items(order)
  OBVIOUS
<1>2. it \in Seq(Seq(EventKinds)) /\ Len(it) = n /\ n \in Nat
  BY <1>1, OrderIs
<1>3. FirstOf(it, k) \in Seq(Seq(EventKinds))
  BY <1>1, <1>2 DEF FirstOf
<1>4. PICK f : f = FlattenSeq(FirstOf(it, k))
  OBVIOUS
<1>5. f \in Seq(EventKinds)
  BY <1>3, <1>4, FlattenType
<1>6. events \o f \in Seq(EventKinds)
  BY <1>5 DEF StreamType
<1> QED BY <1>1, <1>4, <1>6, ReadingType DEF ReadUpTo

\* The calls that are read are those that are open, if each is whole or has nothing.
RestRead(order, k, q) ==
    /\ q.args = <<>>
    /\ ~q.bad =>
        /\ ~R.bad /\ q.texts = R.texts
        /\ Len(q.calls) = Len(R.calls) + k
        /\ \A j \in 1..Len(R.calls) : q.calls[j] = R.calls[j]
        /\ \A j \in 1..k : q.calls[Len(R.calls) + j].id = open[order[j]].call.id

\* What the driver has still open at the end of the stream is read.
LEMMA RestIsRead ==
    ASSUME StreamType, Emptied, NEW order \in Orders, NEW k \in 0..Cardinality(DOMAIN open)
    PROVE  RestRead(order, k, ReadUpTo(order, k))
<1>1. PICK n : n = Cardinality(DOMAIN open)
  OBVIOUS
<1>2. n \in Nat /\ k \in 0..n /\ R.calls \in Seq(CallsTaken) /\ Len(R.calls) \in Nat
  BY <1>1, OrderIs, RHasType DEF RType
<1> DEFINE T == {m \in 0..n : RestRead(order, m, ReadUpTo(order, m))}
<1>3. 0 \in T
  <2>1. RestRead(order, 0, R)
    BY <1>2 DEF RestRead, Emptied
  <2> QED BY <1>2, <2>1, ReadUpToEnds
<1>4. ASSUME NEW m \in 0..(n - 1), m \in T PROVE m + 1 \in T
  <2>1. PICK r, q, o, c : /\ r = ReadUpTo(order, m) /\ q = ReadUpTo(order, m + 1)
                          /\ o = open[order[m + 1]] /\ c = o.call
    OBVIOUS
  <2>2. RestRead(order, m, r)
    BY <1>4, <2>1
  <2>3. order[m + 1] \in DOMAIN open /\ q = Closing(r, c, o.got)
    BY <1>1, <2>1, <2>2, ReadUpToNext DEF RestRead
  <2>4. c \in Calls /\ o.got \in Nat
    BY <2>1, <2>3 DEF StreamType
  <2>5. ReadType(r) /\ r.args = <<>>
    <3>1. ReadType(r)
      BY <1>1, <1>2, <2>1, ReadUpToType
    <3> QED BY <2>2, <3>1 DEF RestRead
  <2>6. CASE o.got \in {0, c.size}
    <3>0. CallRead(r, q, c)
      BY <2>3, <2>4, <2>5, <2>6, WholeClosing
    <3>1. /\ q.args = <<>> /\ q.texts = r.texts /\ q.bad = r.bad
          /\ Len(r.calls) \in Nat /\ Len(q.calls) = Len(r.calls) + 1
          /\ \A j \in 1..Len(r.calls) : q.calls[j] = r.calls[j]
          /\ q.calls[Len(r.calls) + 1].id = c.id
      BY <3>0 DEF CallRead
    <3>2. ASSUME ~q.bad
          PROVE  /\ ~R.bad /\ q.texts = R.texts
                 /\ Len(q.calls) = Len(R.calls) + (m + 1)
                 /\ \A j \in 1..Len(R.calls) : q.calls[j] = R.calls[j]
                 /\ \A j \in 1..(m + 1) : q.calls[Len(R.calls) + j].id = open[order[j]].call.id
      <4>1. /\ ~R.bad /\ r.texts = R.texts /\ Len(r.calls) = Len(R.calls) + m
            /\ \A j \in 1..Len(R.calls) : r.calls[j] = R.calls[j]
            /\ \A j \in 1..m : r.calls[Len(R.calls) + j].id = open[order[j]].call.id
        BY <2>2, <3>1, <3>2 DEF RestRead
      <4>0. Len(r.calls) = Len(R.calls) + m /\ m \in Nat /\ Len(R.calls) \in Nat
        BY <1>2, <4>1
      <4>2. \A j \in 1..(m + 1) : q.calls[Len(R.calls) + j].id = open[order[j]].call.id
        <5> SUFFICES ASSUME NEW j \in 1..(m + 1)
                     PROVE  q.calls[Len(R.calls) + j].id = open[order[j]].call.id
          OBVIOUS
        <5>1. CASE j \in 1..m
          <6>1. Len(R.calls) + j \in 1..Len(r.calls)
            BY <1>2, <4>1, <5>1
          <6> QED BY <3>1, <4>1, <5>1, <6>1
        <5>2. CASE j = m + 1
          <6>1. Len(R.calls) + j = Len(r.calls) + 1
            <7>1. PICK l, ll : l = Len(R.calls) /\ ll = Len(r.calls)
              OBVIOUS
            <7>2. l \in Nat /\ ll = l + m /\ m \in Nat
              BY <4>0, <7>1
            <7>3. l + j = ll + 1
              BY <5>2, <7>2
            <7> QED BY <7>1, <7>3
          <6> QED BY <2>1, <3>1, <5>2, <6>1
        <5> QED BY <5>1, <5>2
      <4>3. Len(q.calls) = Len(R.calls) + (m + 1)
        <5>1. PICK l, ll : l = Len(R.calls) /\ ll = Len(r.calls)
          OBVIOUS
        <5>2. l \in Nat /\ ll = l + m /\ m \in Nat
          BY <4>0, <5>1
        <5>3. ll + 1 = l + (m + 1)
          BY <5>2
        <5> QED BY <3>1, <5>1, <5>3
      <4>4. \A j \in 1..Len(R.calls) : q.calls[j] = R.calls[j]
        <5>1. \A j \in 1..Len(R.calls) : j \in 1..Len(r.calls)
          BY <1>2, <4>1
        <5> QED BY <3>1, <4>1, <5>1
      <4> QED BY <3>1, <4>1, <4>2, <4>3, <4>4
    <3>3. RestRead(order, m + 1, q)
      BY <3>1, <3>2 DEF RestRead
    <3> QED BY <1>2, <2>1, <3>3
  <2>7. CASE o.got \notin {0, c.size}
    <3>1. q = [r EXCEPT !.bad = TRUE]
      BY <2>3, <2>7 DEF Closing
    <3>2. q.args = <<>> /\ q.bad = TRUE
      BY <2>5, <3>1 DEF ReadType
    <3>3. RestRead(order, m + 1, q)
      BY <3>2 DEF RestRead
    <3> QED BY <1>2, <2>1, <3>3
  <2> QED BY <2>6, <2>7
<1> HIDE DEF T
<1>5. \A m \in 0..n : m \in T
  BY <1>2, <1>3, <1>4, SetInduction
<1> QED BY <1>2, <1>5 DEF T

\* A response that has ended: what was read is what was said.
LEMMA EndedKeeps ==
    ASSUME StreamType', Emptied', phase' = "assemble",
           ~overlap' /\ ~R'.bad => Matched(R, said)',
           Whole' /\ ~R'.bad => AllRead(R)'
    PROVE  ResponseInv'
  BY DEF ResponseInv, Streaming, OneByOne, AsAsked, Accounted, Ended, Taken

\* At the end of a reply all of it has been read.
LEMMA EndReplyKeeps == ResponseInv /\ EndReply => ResponseInv'
<1> SUFFICES ASSUME ResponseInv, EndReply PROVE ResponseInv'
  OBVIOUS
<1>1. StreamType /\ StreamType' /\ events \in Seq(EventKinds)
  BY EndReplyType DEF ResponseInv, StreamType
<1>2. phase = "stream"
      /\ UNCHANGED <<provider, numbered, said, texts, open, overlap, dropped>>
  BY DEF EndReply, streamFrame
<1>3. CASE phase' = "failed" /\ UNCHANGED events
  <2>1. Emptied'
    BY <1>3, SameEvents DEF ResponseInv, Emptied
  <2> QED BY <1>1, <1>3, <2>1, LeftKeeps
<1>4. ASSUME NEW order \in Orders, CallbackAndEnd(Append(Rest(order), Completed))
      PROVE  ResponseInv'
  <2>1. CASE interrupted
    BY <1>1, <1>4, <2>1, CallbackFails
  <2>2. CASE ~interrupted
    <3>1. events' = events \o Append(Rest(order), Completed) /\ phase' = "assemble"
      BY <1>4, <2>2 DEF CallbackAndEnd
    <3>2. PICK n, r, q : n = Cardinality(DOMAIN open) /\ r = R /\ q = R'
      OBVIOUS
    <3>3. /\ n \in Nat /\ DOMAIN order = 1..n /\ order \in [1..n -> DOMAIN open]
          /\ \A x \in DOMAIN open : \E k \in 1..n : order[k] = x
          /\ Rest(order) \in Seq(EventKinds)
      BY <1>1, <3>2, OrderIs
    <3>4. q = ReadUpTo(order, n)
      <4>1. PICK a, b, es : a = Rest(order) /\ b = Completed /\ es = events \o a
        OBVIOUS
      <4>2. a \in Seq(EventKinds) /\ b \in EventKinds /\ es \in Seq(EventKinds)
        BY <1>1, <3>3, <4>1 DEF EventKinds
      <4>3. events' = Append(es, b)
        BY <1>1, <3>1, <4>1, <4>2
      <4>4. Reading(events') = Reading(es)
        BY <4>1, <4>2, <4>3, ReadCompleted
      <4> QED BY <1>1, <3>2, <4>1, <4>4, ReadUpToEnds DEF R
    <3>5. RestRead(order, n, q) /\ ReadUpTo(order, 0) = r
      BY <1>1, <3>2, <3>3, <3>4, RestIsRead, ReadUpToEnds DEF ResponseInv
    <3>6. Emptied'
      BY <3>2, <3>5 DEF RestRead, Emptied
    <3>7. ReadType(r) /\ r.args = <<>>
      BY <1>1, <3>2, RHasType DEF RType, ReadType, ResponseInv, Emptied
    <3>8. ASSUME ~overlap', ~R'.bad PROVE Matched(R, said)'
      <4>1. ~overlap /\ ~q.bad /\ ~r.bad
        BY <1>2, <3>2, <3>5, <3>8 DEF RestRead
      <4>2. Matched(r, said)
        BY <1>2, <3>2, <4>1 DEF ResponseInv, AsAsked, Matched
      <4>3. Matched(q, said)
        <5>1. CASE DOMAIN open = {}
          <6>1. n = 0
            BY <3>2, <5>1, FS_EmptySet
          <6> QED BY <3>4, <3>5, <4>2, <6>1
        <5>2. CASE DOMAIN open # {}
          <6>1. PICK i \in DOMAIN open : DOMAIN open = {i}
            BY <1>2, <4>1, <5>2 DEF ResponseInv, OneByOne
          <6>2. n = 1
            BY <3>2, <6>1, FS_Singleton
          <6>3. order[1] = i /\ 0 \in 0..(n - 1) /\ 0 + 1 = 1
            BY <3>3, <6>1, <6>2
          <6>4. PICK c, got : c = open[i].call /\ got = open[i].got
            OBVIOUS
          <6>5. q = Closing(r, c, got)
            <7>1. ReadUpTo(order, 0).args = <<>>
              BY <3>5, <3>7
            <7>2. ReadUpTo(order, 0 + 1) = Closing(ReadUpTo(order, 0), open[order[0 + 1]].call,
                                                   open[order[0 + 1]].got)
              BY <1>1, <3>2, <6>3, <7>1, ReadUpToNext
            <7> QED BY <3>4, <3>5, <6>2, <6>3, <6>4, <7>2
          <6>6. c \in Calls /\ got \in Nat
            BY <1>1, <6>4 DEF StreamType
          <6>7. got = 0 \/ got = c.size
            <7>1. CASE got \notin {0, c.size}
              <8>1. q.bad = TRUE
                BY <3>7, <6>5, <7>1 DEF Closing, ReadType
              <8> QED BY <4>1, <8>1
            <7> QED BY <7>1
          <6>8. CallRead(r, q, c)
            BY <3>7, <6>5, <6>6, <6>7, WholeClosing
          <6>9. r.name = c.name /\ \E j \in 1..Len(said) : said[j] = c
            BY <1>2, <3>2, <4>1, <6>1, <6>4 DEF ResponseInv, OneByOne
          <6> QED BY <4>2, <6>8, <6>9, OneCallMore
        <5> QED BY <5>1, <5>2
      <4> QED BY <1>2, <3>2, <4>3 DEF Matched
    <3>9. ASSUME Whole', ~R'.bad PROVE AllRead(R)'
      <4>1. Whole /\ ~q.bad
        BY <1>2, <3>2, <3>9 DEF Whole
      <4>2. /\ ~r.bad /\ q.texts = r.texts
            /\ Len(q.calls) = Len(r.calls) + n
            /\ \A j \in 1..Len(r.calls) : q.calls[j] = r.calls[j]
            /\ \A j \in 1..n : q.calls[Len(r.calls) + j].id = open[order[j]].call.id
        BY <3>2, <3>5, <4>1 DEF RestRead
      <4>3. /\ r.texts = texts
            /\ Len(r.calls) + n = Len(said)
            /\ \A x \in DOMAIN open : x \in 1..Len(said) /\ open[x].call = said[x]
            /\ \A j \in 1..Len(said) : j \in DOMAIN open \/ Found(r, said, j)
        BY <1>2, <3>2, <4>1, <4>2 DEF ResponseInv, Accounted, Found
      <4>4. Len(r.calls) \in Nat
        BY <3>7 DEF ReadType
      <4>5. ASSUME NEW j \in 1..Len(said) PROVE Found(q, said, j)
        <5>1. CASE j \in DOMAIN open
          <6>1. PICK k \in 1..n : order[k] = j
            BY <3>3, <5>1
          <6>2. PICK l : l = Len(r.calls)
            OBVIOUS
          <6>3. l + k \in 1..Len(q.calls)
            BY <3>3, <4>2, <4>4, <6>2
          <6>4. q.calls[l + k].id = said[j].id
            BY <4>2, <4>3, <5>1, <6>1, <6>2
          <6> QED BY <6>3, <6>4 DEF Found
        <5>2. CASE Found(r, said, j)
          <6>1. PICK k \in 1..Len(r.calls) : r.calls[k].id = said[j].id
            BY <5>2 DEF Found
          <6>2. k \in 1..Len(q.calls)
            <7>1. PICK l : l = Len(r.calls)
              OBVIOUS
            <7> QED BY <3>3, <4>2, <4>4, <7>1
          <6> QED BY <4>2, <6>1, <6>2 DEF Found
        <5> QED BY <4>3, <5>1, <5>2
      <4>6. \A j \in 1..Len(said) : Found(R, said, j)'
        BY <1>2, <3>2, <4>5 DEF Found
      <4> QED BY <1>2, <3>2, <4>2, <4>3, <4>6 DEF AllRead
    <3> QED BY <1>1, <3>1, <3>6, <3>8, <3>9, EndedKeeps
  <2> QED BY <2>1, <2>2
<1> QED BY <1>3, <1>4 DEF EndReply

\* gemini and echo have nothing open: what ends their response is only read.
LEMMA LastChunkKeeps == ResponseInv /\ LastChunk => ResponseInv'
<1> SUFFICES ASSUME ResponseInv, LastChunk PROVE ResponseInv'
  OBVIOUS
<1>1. StreamType /\ StreamType' /\ events \in Seq(EventKinds)
  BY LastChunkType DEF ResponseInv, StreamType
<1>2. phase = "stream" /\ provider = "gemini" /\ CallbackAndEnd(<<Completed>>)
      /\ UNCHANGED <<provider, numbered, said, texts, open, overlap, dropped>>
  BY DEF LastChunk, ChunkFrame
<1>3. CASE interrupted
  BY <1>1, <1>2, <1>3, CallbackFails
<1>4. CASE ~interrupted
  <2>1. events' = Append(events, Completed) /\ phase' = "assemble"
    BY <1>1, <1>2, <1>4 DEF CallbackAndEnd
  <2>2. R' = R
    BY <1>1, <2>1, ReadCompleted DEF R
  <2>3. DOMAIN open = {} /\ Cardinality(DOMAIN open) = 0
    BY <1>2, FS_EmptySet DEF ResponseInv, Streaming
  <2>4. Emptied' /\ (~overlap' /\ ~R'.bad => Matched(R, said)')
    BY <1>2, <2>2 DEF ResponseInv, Emptied, AsAsked, Matched
  <2>5. ASSUME Whole', ~R'.bad PROVE AllRead(R)'
    <3>1. /\ R.texts = texts
          /\ Len(R.calls) + Cardinality(DOMAIN open) = Len(said)
          /\ \A j \in 1..Len(said) : j \in DOMAIN open \/ Found(R, said, j)
      BY <1>2, <2>2, <2>5 DEF ResponseInv, Accounted, Whole
    <3>2. Len(R.calls) \in Nat
      BY <1>1, RHasType DEF RType
    <3>3. Len(R.calls) = Len(said) /\ \A j \in 1..Len(said) : Found(R, said, j)
      BY <2>3, <3>1, <3>2
    <3> QED BY <1>2, <2>2, <3>1, <3>3 DEF AllRead, Found
  <2> QED BY <1>1, <2>1, <2>4, <2>5, EndedKeeps
<1> QED BY <1>3, <1>4

\* A whole call, begun and ended at once.
Begun(r, call) == [r EXCEPT !.name = call.name, !.args = <<>>]
AtOnce(call, got) == <<Begin(call)>> \o Args(call, got) \o <<End(call)>>

\* A call that comes whole begins, has its arguments and ends.
LEMMA WholeCallRead ==
    ASSUME NEW es \in Seq(EventKinds), NEW call \in Calls, NEW got \in Nat,
           got = 0 \/ got = call.size
    PROVE  /\ CallRead(Begun(Reading(es), call), Reading(es \o AtOnce(call, got)), call)
           /\ Begun(Reading(es), call).name = call.name
           /\ Begun(Reading(es), call).calls = Reading(es).calls
           /\ Begun(Reading(es), call).texts = Reading(es).texts
           /\ Begun(Reading(es), call).bad = Reading(es).bad
<1>1. ReadType(Reading(es))
  BY ReadingType
<1>2. <<>> \in Seq(Pieces) /\ call.name \in Tools \cup {NoName}
  BY DEF Calls
<1>0. PICK r : r = Begun(Reading(es), call)
  OBVIOUS
<1>3. /\ ReadType(r) /\ r.args = <<>> /\ r.name = call.name /\ r.calls = Reading(es).calls
      /\ r.texts = Reading(es).texts /\ r.bad = Reading(es).bad
  BY <1>0, <1>1, <1>2 DEF ReadType, Begun
<1>4. Reading(es \o AtOnce(call, got)) = Closing(r, call, got)
  BY <1>0, ReadCall DEF Begun, AtOnce
<1> QED BY <1>0, <1>3, <1>4, WholeClosing

\* A chunk with a call is one in the reply and one in the response.
LEMMA CallChunkKeeps ==
    ASSUME StreamAssumption, ResponseInv, NEW name \in Tools, NEW size \in 0..MaxPieces,
           NEW hasId \in BOOLEAN, NEW surplus, CallChunk(name, size, hasId, surplus)
    PROVE  ResponseInv'
<1>0. StreamType
  BY DEF ResponseInv
<1>1. StreamType /\ StreamType' /\ events \in Seq(EventKinds) /\ said \in Seq(Calls)
      /\ Len(said) \in Nat
  <2>1. StreamType'
    BY <1>0, CallChunkType
  <2>2. events \in Seq(EventKinds) /\ said \in Seq(Calls) /\ Len(said) \in Nat
    BY <1>0 DEF StreamType
  <2> QED BY <1>0, <2>1, <2>2
<1>2. PICK call : call = NewCall(name, size, hasId)
  OBVIOUS
<1>3. size \in Nat /\ (size = 0 \/ size = 1)
  BY DEF StreamAssumption, CallChunk
<1>4. call \in Calls /\ call.size = size
  BY <1>1, <1>2, <1>3, NewCallType
<1>5. /\ phase = "stream" /\ provider = "gemini" /\ said' = Append(said, call)
      /\ UNCHANGED <<provider, numbered, texts, open, overlap>>
  BY <1>2 DEF CallChunk, ChunkFrame
<1>6. /\ Len(said') = Len(said) + 1 /\ said'[Len(said) + 1] = call
      /\ \A j \in 1..Len(said) : said'[j] = said[j]
  BY <1>1, <1>4, <1>5
<1>7. PICK rr : rr = R
  OBVIOUS
<1>8. Len(rr.calls) \in Nat /\ (~overlap /\ ~rr.bad => Matched(rr, said'))
  <2>1. Len(rr.calls) \in Nat
    BY <1>1, <1>7, RHasType DEF RType
  <2>2. ASSUME ~overlap, ~rr.bad PROVE Matched(rr, said')
    <3>1. Matched(rr, said)
      BY <1>5, <1>7, <2>2 DEF ResponseInv, AsAsked, Matched
    <3> QED BY <1>1, <1>5, <2>1, <3>1, MatchedLonger
  <2> QED BY <2>1, <2>2
<1>9. CASE Framed(surplus) /\ interrupted
  BY <1>1, <1>9, CallbackFails DEF CallChunk
<1>10. CASE ~Framed(surplus)
  <2>1. UNCHANGED <<events, phase>> /\ dropped' = TRUE
    BY <1>10 DEF CallChunk
  <2>2. R' = R
    BY <2>1, SameEvents
  <2>3. Emptied' /\ Streaming' /\ OneByOne'
    BY <1>5, <2>2 DEF ResponseInv, Emptied, Streaming, OneByOne
  <2>4. AsAsked'
    BY <1>5, <1>7, <1>8, <2>1, <2>2 DEF AsAsked, Matched
  <2>5. ~Whole' /\ phase' = "stream"
    BY <1>5, <2>1 DEF Whole
  <2> QED BY <1>1, <2>3, <2>4, <2>5 DEF ResponseInv, Accounted, Ended, Taken
<1>11. CASE Framed(surplus) /\ ~interrupted
  <2>1. /\ events' = events \o (<<Begin(call)>> \o Args(call, size) \o <<End(call)>>)
        /\ phase' = "stream" /\ dropped' = dropped
    BY <1>1, <1>2, <1>5, <1>11 DEF CallChunk, Callback, StreamType
  <2>2. PICK r, q : /\ r = [Reading(events) EXCEPT !.name = call.name, !.args = <<>>]
                    /\ q = Reading(events')
    OBVIOUS
  <2>3. /\ CallRead(r, q, call) /\ r.name = call.name /\ r.calls = Reading(events).calls
        /\ r.texts = Reading(events).texts /\ r.bad = Reading(events).bad
    <3>1. size \in Nat /\ (size = 0 \/ size = call.size)
      BY <1>3, <1>4
    <3>2. r = Begun(Reading(events), call) /\ q = Reading(events \o AtOnce(call, size))
      BY <2>1, <2>2 DEF Begun, AtOnce
    <3> QED BY <1>1, <1>4, <3>1, <3>2, WholeCallRead
  <2>4. r.calls = rr.calls /\ r.texts = rr.texts /\ r.bad = rr.bad /\ q = R'
    BY <1>7, <2>2, <2>3 DEF R
  <2>5. /\ q.args = <<>> /\ q.texts = r.texts /\ q.bad = r.bad
        /\ Len(q.calls) = Len(r.calls) + 1
    BY <2>3 DEF CallRead
  <2>6. Emptied' /\ Streaming' /\ OneByOne'
    BY <1>5, <2>1, <2>4, <2>5 DEF ResponseInv, Emptied, Streaming, OneByOne
  <2>7. PICK ss : ss = said'
    OBVIOUS
  <2>8. /\ Matched(r, ss) /\ r.name = call.name /\ (\E j \in 1..Len(ss) : ss[j] = call)
             => Matched(q, ss)
        /\ \A j : Found(r, ss, j) => Found(q, ss, j)
        /\ \A j : call.id = ss[j].id => Found(q, ss, j)
    BY <2>3, OneCallMore
  <2>9. \E j \in 1..Len(ss) : ss[j] = call
    <3>1. Len(said) + 1 \in 1..Len(ss)
      BY <1>1, <1>6, <2>7
    <3> QED BY <1>6, <2>7, <3>1
  <2>10. AsAsked'
    <3> SUFFICES ASSUME ~overlap', ~R'.bad PROVE Matched(R, said)'
      BY DEF AsAsked
    <3>1. Matched(rr, ss)
      BY <1>5, <1>8, <2>4, <2>5, <2>7
    <3>2. Matched(r, ss)
      BY <2>4, <3>1 DEF Matched
    <3>3. Matched(q, ss)
      BY <2>3, <2>8, <2>9, <3>2
    <3> QED BY <2>4, <2>7, <3>3
  <2>11. Accounted'
    <3> SUFFICES ASSUME Whole', ~R'.bad
                 PROVE  /\ R'.texts = texts'
                        /\ Len(R'.calls) + Cardinality(DOMAIN open') = Len(said')
                        /\ \A i \in DOMAIN open' : i \in 1..Len(said') /\ open'[i].call = said'[i]
                        /\ \A j \in 1..Len(said') : j \in DOMAIN open' \/ Found(R, said, j)'
      BY DEF Accounted
    <3>1. /\ rr.texts = texts
          /\ Len(rr.calls) + Cardinality(DOMAIN open) = Len(said)
          /\ \A j \in 1..Len(said) : j \in DOMAIN open \/ Found(rr, said, j)
      <4>1. Whole /\ ~R.bad
        BY <1>5, <1>7, <2>1, <2>4, <2>5 DEF Whole
      <4> QED BY <1>5, <1>7, <4>1 DEF ResponseInv, Accounted, Found
    <3>2. DOMAIN open = {} /\ Cardinality(DOMAIN open) = 0
      BY <1>5, FS_EmptySet DEF ResponseInv, Streaming
    <3>3. Len(q.calls) = Len(said')
      BY <1>1, <1>6, <1>8, <2>4, <2>5, <3>1, <3>2
    <3>4. \A j \in 1..Len(ss) : Found(q, ss, j)
      <4> SUFFICES ASSUME NEW j \in 1..Len(ss) PROVE Found(q, ss, j)
        OBVIOUS
      <4>1. CASE j = Len(said) + 1
        BY <1>6, <2>7, <2>8, <4>1
      <4>2. CASE j # Len(said) + 1
        <5>1. j \in 1..Len(said) /\ ss[j] = said[j]
          BY <1>1, <1>6, <2>7, <4>2
        <5>2. Found(rr, said, j)
          BY <3>1, <3>2, <5>1
        <5>3. Found(r, ss, j)
          BY <2>4, <5>1, <5>2 DEF Found
        <5> QED BY <2>8, <5>3
      <4> QED BY <4>1, <4>2
    <3>5. q.texts = texts' /\ DOMAIN open' = {} /\ Cardinality(DOMAIN open') = 0
      BY <1>5, <2>4, <2>5, <3>1, <3>2
    <3>6. Len(q.calls) + Cardinality(DOMAIN open') = Len(said')
      <4>1. Len(q.calls) \in Nat
        BY <1>8, <2>4, <2>5
      <4> QED BY <3>3, <3>5, <4>1
    <3> QED BY <2>4, <2>7, <3>4, <3>5, <3>6
  <2> QED BY <1>1, <2>1, <2>6, <2>10, <2>11 DEF ResponseInv, Ended, Taken
<1> QED BY <1>9, <1>10, <1>11

\* The reply of the echo provider is read as it is said.
LEMMA EchoReplyKeeps ==
    ASSUME ResponseInv, NEW first \in Tools, NEW limit, EchoReply(first, limit)
    PROVE  ResponseInv'
<1>1. StreamType' /\ events \in Seq(EventKinds)
  BY EchoReplyType DEF ResponseInv, StreamType
<1>2. EchoSays /\ phase = "stream" /\ provider = "echo" /\ UNCHANGED <<ChunkFrame, dropped>>
  BY EchoReplyIs DEF ResponseInv
<1>3. events = <<>> /\ said = <<>> /\ texts = 0 /\ R = NewSlot
  BY <1>2, ReadNothing DEF ResponseInv, Streaming, R, Unread
<1>4. CASE interrupted
  BY <1>1, <1>2, <1>4, CallbackFails DEF EchoSays, EchoCall, EchoText
<1>5. CASE EchoText /\ ~interrupted
  <2>1. events' = events \o <<Text, Completed>> /\ phase' = "assemble" /\ texts' = 1
        /\ said' = <<>>
    BY <1>3, <1>5 DEF EchoText, CallbackAndEnd
  <2>2. events' = Append(events \o <<Text>>, Completed) /\ events \o <<Text>> \in Seq(EventKinds)
    BY <1>3, <2>1 DEF EventKinds
  <2>3. R' = [NewSlot EXCEPT !.texts = @ + 1]
    BY <1>1, <1>3, <2>2, ReadCompleted, ReadText DEF R
  <2>4. R'.calls = <<>> /\ R'.texts = 1 /\ R'.args = <<>>
    BY <2>3 DEF NewSlot
  <2>5. Emptied' /\ Matched(R, said)' /\ AllRead(R)'
    BY <2>1, <2>4 DEF Emptied, Matched, AllRead
  <2> QED BY <1>1, <2>1, <2>5, EndedKeeps
<1>6. ASSUME NEW call \in Calls, call.size = 1, EchoCall(call), ~interrupted PROVE ResponseInv'
  <2>0. PICK body : body = <<Begin(call)>> \o Args(call, 1) \o <<End(call)>>
    OBVIOUS
  <2>1. body \in Seq(EventKinds)
        /\ <<Begin(call)>> \o Args(call, 1) \o <<End(call), Completed>> = Append(body, Completed)
    BY <2>0, WholeCallType
  <2>2. events' = events \o Append(body, Completed) /\ phase' = "assemble" /\ texts' = 0
        /\ said' = <<call>>
    BY <1>3, <1>6, <2>1 DEF EchoCall, CallbackAndEnd
  <2>3. events' = Append(events \o body, Completed) /\ events \o body \in Seq(EventKinds)
    BY <1>3, <2>1, <2>2
  <2>4. PICK r, q : /\ r = [Reading(events) EXCEPT !.name = call.name, !.args = <<>>]
                    /\ q = Reading(events \o body)
    OBVIOUS
  <2>5. CallRead(r, q, call) /\ r.name = call.name /\ r.calls = <<>> /\ r.texts = 0
    <3>1. /\ CallRead(r, q, call) /\ r.name = call.name /\ r.calls = Reading(events).calls
          /\ r.texts = Reading(events).texts
      <4>1. r = Begun(Reading(events), call) /\ q = Reading(events \o AtOnce(call, 1))
        BY <2>0, <2>4 DEF Begun, AtOnce
      <4> QED BY <1>1, <1>6, <4>1, WholeCallRead
    <3> QED BY <1>3, <3>1 DEF R, NewSlot
  <2>6. R' = q
    BY <2>3, <2>4, ReadCompleted DEF R
  <2>7. PICK s : s = <<call>>
    OBVIOUS
  <2>8. Matched(r, s) /\ (\E j \in 1..Len(s) : s[j] = call) /\ call.id = s[1].id
    BY <2>5, <2>7 DEF Matched
  <2>9. Matched(q, s) /\ Found(q, s, 1)
    BY <2>5, <2>8, OneCallMore
  <2>10. q.args = <<>> /\ q.texts = 0 /\ Len(q.calls) = 1
    BY <2>5 DEF CallRead
  <2>11. Emptied' /\ Matched(R, said)' /\ AllRead(R)'
    BY <2>2, <2>6, <2>7, <2>9, <2>10 DEF Emptied, AllRead
  <2> QED BY <1>1, <2>2, <2>11, EndedKeeps
<1> QED BY <1>2, <1>4, <1>5, <1>6 DEF EchoSays

\* Assembling the response keeps the invariant.
LEMMA AssembleKeeps == ResponseInv /\ Assemble => ResponseInv'
<1> SUFFICES ASSUME ResponseInv, Assemble PROVE ResponseInv'
  OBVIOUS
<1>1. StreamType'
  BY AssembleType DEF ResponseInv
<1>2. phase = "assemble" /\ R' = R
      /\ UNCHANGED <<provider, numbered, said, texts, open, overlap, dropped, withTools>>
  BY SameEvents DEF Assemble, response
<1>3. Emptied'
  BY <1>2 DEF ResponseInv, Emptied
<1>4. CASE Assembled.bad
  <2>1. phase' = "failed"
    BY <1>4 DEF Assemble
  <2> QED BY <1>1, <1>3, <2>1, LeftKeeps
<1>5. CASE ~Assembled.bad
  <2>1. taken' = [calls |-> Assembled.calls, texts |-> Assembled.texts]
        /\ phase' \in {"idle", "execute"}
    BY <1>5 DEF Assemble
  <2>2. ~overlap' => Matched(taken, said)'
    <3>1. CASE withTools
      <4>1. ~overlap => Matched(R, said)
        BY <1>2, <1>5, <3>1, AssembledIs DEF ResponseInv, AsAsked
      <4> QED BY <1>2, <2>1, <3>1, <4>1, AssembledIs DEF Matched
    <3>2. CASE ~withTools
      <4>1. taken'.calls = <<>>
        BY <2>1, <3>2, AssembledIs DEF NewSlot
      <4> QED BY <4>1 DEF Matched
    <3> QED BY <3>1, <3>2
  <2>3. Whole' /\ withTools' => AllRead(taken)'
    <3> SUFFICES ASSUME Whole', withTools PROVE AllRead(taken)'
      BY <1>2
    <3>1. AllRead(R)
      BY <1>2, <1>5, AssembledIs DEF ResponseInv, Ended, Whole
    <3>2. Assembled = R
      BY AssembledIs
    <3> QED BY <1>2, <2>1, <3>1, <3>2 DEF AllRead, Found
  <2> QED BY <1>1, <1>3, <2>1, <2>2, <2>3 DEF ResponseInv, Streaming, OneByOne, AsAsked, Accounted,
             Ended, Taken
<1> QED BY <1>4, <1>5

\* Running the calls and asking again keep the invariant.
LEMMA MoreKeeps == ResponseInv /\ (Execute \/ AskMore \/ Continue) => ResponseInv'
<1> SUFFICES ASSUME ResponseInv, Execute \/ AskMore \/ Continue PROVE ResponseInv'
  OBVIOUS
<1>1. StreamType'
  BY ExecuteType, AskMoreType, ContinueType DEF ResponseInv
<1>2. phase' = "request" /\ UNCHANGED events
  BY DEF Execute, AskMore, Continue, response
<1>3. Emptied'
  BY <1>2, SameEvents DEF ResponseInv, Emptied
<1> QED BY <1>1, <1>2, <1>3, LeftKeeps

\* Every step keeps the invariant.
LEMMA ResponseInvStep ==
    StreamAssumption /\ ResponseInv /\ [StreamNext]_streamVars => ResponseInv'
<1> SUFFICES ASSUME StreamAssumption, ResponseInv, [StreamNext]_streamVars PROVE ResponseInv'
  OBVIOUS
<1>1. CASE UNCHANGED streamVars
  <2>1. StreamType'
    BY <1>1, StreamTypeStep DEF ResponseInv
  <2>2. UNCHANGED <<provider, numbered, phase, response, withTools, taken>>
    BY <1>1 DEF streamVars
  <2> QED BY <2>1, <2>2, SameResponse
<1>2. CASE StreamNext
  BY <1>2, StreamSteps, SendKeeps, StillKeeps, TextDeltaKeeps, BeginCallKeeps, ArgsDeltaKeeps,
     ArgsDoneKeeps, EndReplyKeeps, TextChunkKeeps, CallChunkKeeps, LastChunkKeeps, EchoReplyKeeps,
     AssembleKeeps, MoreKeeps
<1> QED BY <1>1, <1>2

\* The response that is read of the events is, at every step, what the model has said
\* so far: no call, no piece of its arguments and no text is lost or put elsewhere.
THEOREM ResponseInvariant == StreamSpec => []ResponseInv
<1>1. StreamInit => ResponseInv
  BY StreamAssumption, ResponseInvInit
<1>2. ResponseInv /\ [StreamNext]_streamVars => ResponseInv'
  BY StreamAssumption, ResponseInvStep
<1> QED BY <1>1, <1>2, PTL DEF StreamSpec

\* The types of what a run exchanges with a model, for every provider, set of tools
\* and bound (LlmStream).
THEOREM StreamIsTyped == StreamSpec => []StreamType
<1>1. ResponseInv => StreamType
  BY DEF ResponseInv
<1> QED BY <1>1, ResponseInvariant, PTL

\* Whatever the pieces in which a provider's events arrive, a call that is executed
\* is one that the model has made, with its name and its own arguments, as long as
\* the model begins no call before the one before has ended (ToolCallAccumulator).
THEOREM CallsAreAsAsked == StreamSpec => []CallsAsAsked
<1>1. ResponseInv => CallsAsAsked
  <2> SUFFICES ASSUME ResponseInv, Known, ~overlap
               PROVE  \A k \in DOMAIN taken.calls : \E j \in DOMAIN said :
                          SameCall(taken.calls[k], said[j])
    BY DEF CallsAsAsked
  <2>1. Matched(taken, said)
    BY DEF ResponseInv, Taken, Known
  <2>2. DOMAIN taken.calls = 1..Len(taken.calls) /\ DOMAIN said = 1..Len(said)
    BY DEF ResponseInv, StreamType
  <2> QED BY <2>1, <2>2 DEF Matched
<1> QED BY <1>1, ResponseInvariant, PTL

-----------------------------------------------------------------------------
\* The texts of a response

\* Until the loop reads the events they have the texts that were written; then it has
\* taken these, and no call of a response that was to have none.
TextsRead == phase \in {"stream", "assemble"} /\ ~dropped => SpokenIn(events) = texts
LastWord ==
    phase \in {"execute", "idle"} =>
        /\ ~dropped => taken.texts = texts
        /\ ~withTools => taken.calls = <<>>
TextInv == TextsRead /\ LastWord

\* The beginning and the end of a call, its arguments and the end of a response are
\* no texts.
LEMMA SilentEvents ==
    ASSUME NEW call \in Calls, NEW got \in Nat
    PROVE  /\ Begin(call) \in Silent /\ End(call) \in Silent /\ Completed \in Silent
           /\ Args(call, got) \in Seq(Silent)
           /\ Append(Args(call, got), End(call)) \in Seq(Silent)
           /\ AtOnce(call, got) \in Seq(Silent)
           /\ <<Begin(call)>> \o Args(call, got) \o <<End(call), Completed>> \in Seq(Silent)
<1>1. PICK b, c, d, e : b = Begin(call) /\ c = Args(call, got) /\ d = End(call) /\ e = Completed
  OBVIOUS
<1>2. b.kind = "begin" /\ d.kind = "end" /\ e.kind = "completed" /\ Text.kind = "text"
  BY <1>1 DEF Begin, End, Completed, Text
<1>3. b \in EventKinds /\ d \in EventKinds /\ e \in EventKinds
  BY <1>1, ArgsType DEF EventKinds, Begin, Calls
<1>4. b \in Silent /\ d \in Silent /\ e \in Silent
  BY <1>2, <1>3 DEF Silent
<1>5. c \in Seq(Silent)
  <2>1. CASE got = 0
    BY <1>1, <2>1 DEF Args
  <2>2. CASE got # 0
    <3>1. PICK a : a = [kind |-> "args", id |-> call.id,
                        piece |-> [n |-> call.n, whole |-> got = call.size]]
      OBVIOUS
    <3>2. c = <<a>> /\ a.kind = "args"
      BY <1>1, <2>2, <3>1 DEF Args
    <3>3. c \in Seq(EventKinds)
      BY <1>1, ArgsType
    <3>4. Len(c) = 1 /\ c[1] = a
      BY <3>2
    <3>5. a \in EventKinds
      BY ONLY <3>3, <3>4
    <3>6. a \in Silent
      BY <1>2, <3>2, <3>5 DEF Silent
    <3> QED BY <3>2, <3>6
  <2> QED BY <2>1, <2>2
<1>6. /\ Append(c, d) \in Seq(Silent) /\ <<b>> \o c \o <<d>> \in Seq(Silent)
      /\ <<b>> \o c \o <<d, e>> \in Seq(Silent)
  BY ONLY <1>4, <1>5
<1> QED BY <1>1, <1>4, <1>5, <1>6 DEF AtOnce

\* The ends of the calls that are open are no texts.
LEMMA SilentRest ==
    ASSUME StreamType, NEW order \in Orders
    PROVE  Append(Rest(order), Completed) \in Seq(Silent)
<1>1. PICK it, n : it = Items(order) /\ n = Cardinality(DOMAIN open)
  OBVIOUS
<1>2. /\ n \in Nat /\ order \in [1..n -> DOMAIN open] /\ DOMAIN order = 1..n
      /\ it \in Seq(Seq(EventKinds)) /\ Len(it) = n /\ Rest(order) = FlattenSeq(it)
  BY <1>1, OrderIs
<1>3. ASSUME NEW k \in 1..n PROVE it[k] \in Seq(Silent)
  <2>1. PICK o : o = open[order[k]]
    OBVIOUS
  <2>2. order[k] \in DOMAIN open
    BY <1>2
  <2>3. o.call \in Calls /\ o.got \in Nat
    BY <2>1, <2>2 DEF StreamType
  <2>4. it[k] = Append(Args(o.call, o.got), End(o.call))
    BY <1>1, <1>2, <2>1 DEF Items
  <2> QED BY <2>3, <2>4, SilentEvents
<1>4. it \in Seq(Seq(Silent))
  <2>1. it = [k \in 1..n |-> it[k]]
    BY <1>2
  <2>2. it \in [1..n -> Seq(Silent)]
    BY <1>3, <2>1
  <2> QED BY <1>2, <2>2
<1>5. Rest(order) \in Seq(Silent)
  BY <1>2, <1>4, FlattenType
<1>6. Completed \in Silent
  BY DEF Completed, Silent, EventKinds, Text
<1> QED BY <1>5, <1>6

\* A response that has failed, or whose messages are on their way, has no texts to
\* compare.
LEMMA TextsLeft == ASSUME phase' \in {"failed", "request"} PROVE TextInv'
  BY DEF TextInv, TextsRead, LastWord

\* Events that are no texts change no text.
LEMMA QuietStep ==
    ASSUME StreamType, TextInv, phase = "stream", NEW v \in Seq(Silent),
           events' \in {events, events \o v}, UNCHANGED texts, ~dropped' => ~dropped,
           phase' \in {"stream", "assemble", "failed"}
    PROVE  TextInv'
<1>1. events \in Seq(EventKinds)
  BY DEF StreamType
<1>2. SpokenIn(events') = SpokenIn(events)
  BY <1>1, SpokenAfter
<1>3. ~dropped => SpokenIn(events) = texts
  BY DEF TextInv, TextsRead
<1> QED BY <1>2, <1>3 DEF TextInv, TextsRead, LastWord

\* Such events of a callback.
LEMMA QuietCallback ==
    ASSUME StreamType, TextInv, phase = "stream", NEW v \in Seq(Silent),
           Callback(v) \/ CallbackAndEnd(v), UNCHANGED texts, ~dropped' => ~dropped
    PROVE  TextInv'
<1>1. events' \in {events, events \o v} /\ phase' \in {"stream", "assemble", "failed"}
  BY DEF Callback, CallbackAndEnd
<1> QED BY <1>1, QuietStep

\* A text is one event.
LEMMA TextSpoken ==
    ASSUME StreamType, TextInv, phase = "stream", Callback(<<Text>>),
           texts' = texts + 1, ~dropped' => ~dropped
    PROVE  TextInv'
<1>1. CASE interrupted
  <2>1. phase' = "failed"
    BY <1>1 DEF Callback
  <2> QED BY <2>1, TextsLeft
<1>2. CASE ~interrupted
  <2>1. events' = events \o <<Text>> /\ phase' = "stream"
    BY <1>2 DEF Callback
  <2>2. events \in Seq(EventKinds) /\ events \o <<Text>> = Append(events, Text)
    BY DEF StreamType
  <2>3. SpokenIn(events') = SpokenIn(events) + 1
    BY <2>1, <2>2, SpokenText
  <2> QED BY <2>1, <2>3 DEF TextInv, TextsRead, LastWord
<1> QED BY <1>1, <1>2

\* What the echo provider says.
LEMMA EchoSpoken ==
    ASSUME StreamAssumption, ResponseInv, TextInv, NEW first \in Tools, NEW limit,
           EchoReply(first, limit)
    PROVE  TextInv'
<1>1. EchoSays /\ phase = "stream" /\ provider = "echo" /\ UNCHANGED dropped /\ StreamType
  BY EchoReplyIs DEF ResponseInv
<1>2. events = <<>> /\ texts = 0
  BY <1>1 DEF ResponseInv, Streaming
<1>3. CASE interrupted
  <2>1. phase' = "failed"
    BY <1>1, <1>3 DEF EchoSays, EchoCall, EchoText, CallbackAndEnd
  <2> QED BY <2>1, TextsLeft
<1>4. CASE EchoText /\ ~interrupted
  <2>1. events' = <<Text, Completed>> /\ texts' = 1 /\ phase' = "assemble"
    BY <1>2, <1>4 DEF EchoText, CallbackAndEnd
  <2>2. PICK none, x, c, t, d : /\ none = <<>> /\ x = Text /\ c = Completed
                                /\ t = Append(none, x) /\ d = Append(t, c)
    OBVIOUS
  <2>3. x \in EventKinds /\ c.kind = "completed"
    BY <2>2 DEF Completed, EventKinds
  <2>4. none \in Seq(EventKinds) /\ t \in Seq(EventKinds)
    BY ONLY <2>2, <2>3
  <2>5. SpokenIn(none) = 0 /\ SpokenIn(t) = SpokenIn(none) + 1
    BY <2>2, <2>4, SpokenText, SpokenNothing
  <2>6. SpokenIn(d) = SpokenIn(t) + One(c.kind = "text")
    BY <2>2, <2>4, SpokenMore
  <2>7. One(c.kind = "text") = 0
    BY <2>3 DEF One
  <2>8. SpokenIn(d) = 1
    BY <2>5, <2>6, <2>7
  <2>9. d = <<x, c>>
    <3>1. <<Text, Completed>> = Append(Append(<<>>, Text), Completed)
          /\ <<>> \in Seq(EventKinds) /\ Append(<<>>, Text) \in Seq(EventKinds)
      BY DEF EventKinds
    <3> QED BY ONLY <2>2, <3>1, Zenon
  <2>10. events' = d
    BY <2>1, <2>2, <2>9
  <2> QED BY <2>1, <2>8, <2>10 DEF TextInv, TextsRead, LastWord
<1>5. ASSUME NEW call \in Calls, call.size = 1, EchoCall(call) PROVE TextInv'
  <2>1. PICK v : v = <<Begin(call)>> \o Args(call, call.size) \o <<End(call), Completed>>
    OBVIOUS
  <2>2. v \in Seq(Silent)
    BY <1>5, <2>1, SilentEvents
  <2>3. CallbackAndEnd(v) /\ UNCHANGED texts
    BY <1>5, <2>1 DEF EchoCall
  <2> QED BY <1>1, <2>2, <2>3, QuietCallback
<1> QED BY <1>1, <1>3, <1>4, <1>5 DEF EchoSays

\* Calls and what belongs to them.
LEMMA CallsSpoken ==
    ASSUME StreamAssumption, StreamType, TextInv,
           \/ \E name \in Tools, size \in 0..MaxPieces : BeginCall(name, size)
           \/ \E i \in DOMAIN open : ArgsDelta(i) \/ ArgsDone(i)
           \/ EndReply \/ LastChunk
           \/ \E name \in Tools, size \in 0..MaxPieces, hasId \in BOOLEAN, surplus \in Surplus :
                CallChunk(name, size, hasId, surplus)
    PROVE  TextInv'
<1>0. said \in Seq(Calls)
  BY DEF StreamType
<1>1. ASSUME NEW name \in Tools, NEW size \in 0..MaxPieces, BeginCall(name, size) PROVE TextInv'
  <2>1. PICK call : call = NewCall(name, size, TRUE)
    OBVIOUS
  <2>2. size \in Nat
    BY DEF StreamAssumption
  <2>3. call \in Calls
    BY <1>0, <2>1, <2>2, NewCallType
  <2>4. phase = "stream" /\ Callback(<<Begin(call)>>) /\ UNCHANGED <<texts, dropped>>
    BY <1>1, <2>1 DEF BeginCall, streamFrame
  <2>5. 0 \in Nat /\ Begin(call) \in Silent
    BY <2>3, SilentEvents
  <2>6. <<Begin(call)>> \in Seq(Silent)
    BY <2>5
  <2> QED BY <2>4, <2>6, QuietCallback
<1>2. ASSUME NEW i \in DOMAIN open, ArgsDelta(i) PROVE TextInv'
  <2>1. UNCHANGED <<phase, texts, events, dropped>> /\ phase = "stream"
    BY <1>2 DEF ArgsDelta, streamFrame
  <2> QED BY <2>1 DEF TextInv, TextsRead, LastWord
<1>3. ASSUME NEW i \in DOMAIN open, ArgsDone(i) PROVE TextInv'
  <2>1. PICK call : call = open[i].call
    OBVIOUS
  <2>2. call \in Calls /\ call.size \in Nat
    BY <2>1 DEF StreamType, Calls
  <2>3. phase = "stream" /\ Callback(Append(Args(call, call.size), End(call)))
        /\ UNCHANGED <<texts, dropped>>
    BY <1>3, <2>1 DEF ArgsDone, streamFrame
  <2>4. Append(Args(call, call.size), End(call)) \in Seq(Silent)
    BY <2>2, SilentEvents
  <2> QED BY <2>3, <2>4, QuietCallback
<1>4. CASE EndReply
  <2>1. phase = "stream" /\ UNCHANGED <<texts, dropped>>
    BY <1>4 DEF EndReply, streamFrame
  <2>2. CASE phase' = "failed"
    BY <2>2, TextsLeft
  <2>3. ASSUME NEW order \in Orders, CallbackAndEnd(Append(Rest(order), Completed))
        PROVE  TextInv'
    BY <2>1, <2>3, SilentRest, QuietCallback
  <2> QED BY <1>4, <2>2, <2>3 DEF EndReply
<1>5. CASE LastChunk
  <2>1. phase = "stream" /\ CallbackAndEnd(<<Completed>>) /\ UNCHANGED <<texts, dropped>>
    BY <1>5 DEF LastChunk
  <2>2. <<Completed>> \in Seq(Silent)
    BY DEF Completed, Silent, EventKinds, Text
  <2> QED BY <2>1, <2>2, QuietCallback
<1>6. ASSUME NEW name \in Tools, NEW size \in 0..MaxPieces, NEW hasId \in BOOLEAN,
             NEW surplus \in Surplus, CallChunk(name, size, hasId, surplus)
      PROVE  TextInv'
  <2>1. PICK call : call = NewCall(name, size, hasId)
    OBVIOUS
  <2>2. size \in Nat
    BY DEF StreamAssumption
  <2>3. call \in Calls
    BY <1>0, <2>1, <2>2, NewCallType
  <2>4. phase = "stream" /\ UNCHANGED texts /\ (~dropped' => ~dropped)
    BY <1>6 DEF CallChunk
  <2>5. Callback(AtOnce(call, size)) \/ UNCHANGED <<events, phase>>
    BY <1>6, <2>1 DEF CallChunk, AtOnce
  <2>6. AtOnce(call, size) \in Seq(Silent)
    BY <2>2, <2>3, SilentEvents
  <2> QED BY <2>4, <2>5, <2>6, QuietCallback, QuietStep
<1> QED BY <1>1, <1>2, <1>3, <1>4, <1>5, <1>6

\* The texts that the loop reads are those of the events.
LEMMA TextsTaken ==
    ASSUME ResponseInv, TextInv, Assemble PROVE TextInv'
<1>1. CASE Assembled.bad
  <2>1. phase' = "failed"
    BY <1>1 DEF Assemble
  <2> QED BY <2>1, TextsLeft
<1>2. CASE ~Assembled.bad
  <2>1. /\ phase = "assemble" /\ phase' \in {"idle", "execute"}
        /\ taken' = [calls |-> Assembled.calls, texts |-> Assembled.texts]
        /\ UNCHANGED <<texts, dropped, withTools>>
    BY <1>2 DEF Assemble, response
  <2>2. events \in Seq(EventKinds)
    BY DEF ResponseInv, StreamType
  <2>3. Assembled.texts = SpokenIn(events)
    <3>1. CASE withTools
      BY <2>2, <3>1, AssembledIs, SpokenIs DEF R
    <3>2. CASE ~withTools
      BY <3>2, AssembledIs DEF NewSlot
    <3> QED BY <3>1, <3>2
  <2>4. ~withTools => Assembled.calls = <<>>
    BY AssembledIs DEF NewSlot
  <2> QED BY <2>1, <2>3, <2>4 DEF TextInv, TextsRead, LastWord
<1> QED BY <1>1, <1>2

\* Every step keeps the texts.
LEMMA TextInvStep ==
    StreamAssumption /\ ResponseInv /\ TextInv /\ [StreamNext]_streamVars => TextInv'
<1> SUFFICES ASSUME StreamAssumption, ResponseInv, TextInv, [StreamNext]_streamVars
             PROVE  TextInv'
  OBVIOUS
<1>0. StreamType
  BY DEF ResponseInv
<1>1. CASE UNCHANGED <<phase, events, texts, dropped, taken, withTools>>
  BY <1>1 DEF TextInv, TextsRead, LastWord
<1>2. CASE UNCHANGED streamVars \/ RateLimited \/ Interrupt
  BY <1>1, <1>2 DEF streamVars, response, RateLimited, Interrupt
<1>3. CASE Broken \/ Execute \/ AskMore \/ Continue
  <2>1. phase' \in {"failed", "request"}
    BY <1>3 DEF Broken, Execute, AskMore, Continue
  <2> QED BY <2>1, TextsLeft
<1>4. CASE Send
  <2>1. events' = <<>> /\ texts' = 0 /\ phase' \in {"failed", "stream"}
    BY <1>4 DEF Send
  <2> QED BY <2>1, SpokenNothing DEF TextInv, TextsRead, LastWord
<1>5. CASE TextDelta
  <2>1. phase = "stream" /\ Callback(<<Text>>) /\ texts' = texts + 1 /\ UNCHANGED dropped
    BY <1>5 DEF TextDelta, streamFrame
  <2> QED BY <1>0, <2>1, TextSpoken
<1>6. ASSUME NEW surplus \in Surplus, TextChunk(surplus) PROVE TextInv'
  <2>1. phase = "stream" /\ texts' = texts + 1 /\ dropped' = (dropped \/ ~Framed(surplus))
    BY <1>6 DEF TextChunk
  <2>2. CASE Framed(surplus)
    <3>1. Callback(<<Text>>)
      BY <1>6, <2>2 DEF TextChunk
    <3> QED BY <1>0, <2>1, <3>1, TextSpoken
  <2>3. CASE ~Framed(surplus)
    <3>1. dropped' /\ phase' = "stream"
      BY <1>6, <2>1, <2>3 DEF TextChunk
    <3> QED BY <3>1 DEF TextInv, TextsRead, LastWord
  <2> QED BY <2>2, <2>3
<1>7. CASE StreamNext
  BY <1>0, <1>2, <1>3, <1>4, <1>5, <1>6, <1>7, StreamSteps, CallsSpoken, EchoSpoken, TextsTaken
<1> QED BY <1>2, <1>7

\* Unless the framing broke, the text of a response arrives, and each of its calls
\* exactly once however the response ended, but for a server that did not number calls
\* it makes side by side; a response that was to have no calls has none (stream_events
\* of each provider with ToolCallAccumulator, and the tools_enabled of run_once_impl).
THEOREM NothingIsLost == StreamSpec => []NothingLost
<1>1. StreamInit => TextInv
  BY DEF StreamInit, TextInv, TextsRead, LastWord
<1>2. ResponseInv /\ TextInv /\ [StreamNext]_streamVars => TextInv'
  BY StreamAssumption, TextInvStep
<1>3. ResponseInv /\ TextInv => NothingLost
  <2> SUFFICES ASSUME ResponseInv, TextInv, Known, ~dropped
               PROVE  /\ taken.texts = texts
                      /\ withTools /\ (numbered \/ ~overlap) =>
                           /\ Len(taken.calls) = Len(said)
                           /\ \A j \in DOMAIN said : \E k \in DOMAIN taken.calls :
                                 taken.calls[k].id = said[j].id
                      /\ ~withTools => taken.calls = <<>>
    BY DEF NothingLost
  <2>1. taken.texts = texts /\ (~withTools => taken.calls = <<>>)
    BY DEF TextInv, LastWord, Known
  <2>2. ASSUME withTools, numbered \/ ~overlap
        PROVE  /\ Len(taken.calls) = Len(said)
               /\ \A j \in DOMAIN said : \E k \in DOMAIN taken.calls :
                     taken.calls[k].id = said[j].id
    <3>1. AllRead(taken)
      BY <2>2 DEF ResponseInv, Taken, Known, Whole
    <3>2. DOMAIN taken.calls = 1..Len(taken.calls) /\ DOMAIN said = 1..Len(said)
      BY DEF ResponseInv, StreamType
    <3> QED BY <3>1, <3>2 DEF AllRead, Found
  <2> QED BY <2>1, <2>2
<1> QED BY <1>1, <1>2, <1>3, ResponseInvariant, PTL DEF StreamSpec

-----------------------------------------------------------------------------
\* The request: every call is answered in the item after it

\* The calls of some items, and what each of them takes from the one before.
CallsIn(s) == FlattenSeq([i \in DOMAIN s |-> s[i].calls])
Chained(s) ==
    \A i \in 1..Len(s) :
        /\ s[i].answers # <<>> => i > 1 /\ s[i - 1].calls = s[i].answers
        /\ s[i].calls # <<>> /\ i < Len(s) => s[i + 1].answers = s[i].calls
LastCalls(s) == IF s = <<>> THEN <<>> ELSE s[Len(s)].calls

\* s tells the calls cs and n texts, each call answered but for those of the last item.
Tells(s, cs, n) ==
    /\ s \in Seq(Wired) /\ Chained(s)
    /\ CallsIn(s) = cs /\ Texts(s) = n /\ n \in Nat

\* One text more, or none.
LEMMA TextsMore ==
    ASSUME NEW S, NEW s \in Seq(S), NEW x
    PROVE  /\ Texts(s) \in Nat
           /\ Texts(Append(s, x)) = Texts(s) + One(x.text)
<1>1. PICK t, n, z : t = Append(s, x) /\ n = Len(s) /\ z = n + 1
  OBVIOUS
<1>2. /\ n \in Nat /\ DOMAIN s = 1..n /\ DOMAIN t = 1..z /\ t[z] = x /\ z \notin 1..n
      /\ \A k \in 1..n : t[k] = s[k]
  BY <1>1
<1> DEFINE A == {k \in 1..n : s[k].text}
           B == {k \in 1..z : t[k].text}
<1>3. IsFiniteSet(A) /\ Cardinality(A) \in Nat
  <2>1. IsFiniteSet(1..n)
    <3>1. 1 \in Int /\ n \in Int
      BY <1>2
    <3> QED BY <3>1, FS_Interval
  <2> QED BY <2>1, FS_Subset, FS_CardinalityType
<1>4. Texts(s) = Cardinality(A) /\ Texts(t) = Cardinality(B)
  BY <1>2 DEF Texts
<1>5. CASE x.text
  <2>1. B = A \cup {z} /\ z \notin A
    BY <1>1, <1>2, <1>5
  <2>2. Cardinality(B) = Cardinality(A) + 1
    BY <1>3, <2>1, FS_AddElement
  <2> QED BY <1>1, <1>3, <1>4, <1>5, <2>2 DEF One
<1>6. CASE ~x.text
  <2>1. B = A
    BY <1>1, <1>2, <1>6
  <2>2. Texts(t) = Texts(s) /\ Texts(s) \in Nat
    BY <1>3, <1>4, <2>1
  <2>3. One(x.text) = 0
    BY <1>6 DEF One
  <2> QED BY <1>1, <2>2, <2>3
<1> QED BY <1>5, <1>6

\* The calls of one message more.
LEMMA CallsInMore ==
    ASSUME NEW s \in Seq(Wired), NEW x \in Wired
    PROVE  /\ CallsIn(s) \in Seq(CallIds)
           /\ CallsIn(Append(s, x)) = CallsIn(s) \o x.calls
<1>1. PICK f : f = [i \in DOMAIN s |-> s[i].calls]
  OBVIOUS
<1>2. f \in Seq(Seq(CallIds)) /\ x.calls \in Seq(CallIds)
  <2>0. \A y \in Wired : y.calls \in Seq(CallIds)
    BY DEF Wired
  <2>1. \A i \in DOMAIN s : s[i].calls \in Seq(CallIds)
    BY <2>0
  <2>2. DOMAIN s = 1..Len(s) /\ Len(s) \in Nat
    OBVIOUS
  <2>3. f \in [1..Len(s) -> Seq(CallIds)]
    BY <1>1, <2>1, <2>2
  <2>4. f \in Seq(Seq(CallIds))
    BY <2>2, <2>3
  <2> QED BY <2>4 DEF Wired
<1>3. [i \in DOMAIN Append(s, x) |-> Append(s, x)[i].calls] = Append(f, x.calls)
  BY <1>1
<1>4. FlattenSeq(Append(f, x.calls)) = FlattenSeq(f) \o x.calls
  BY <1>2, FlattenAppend
<1>5. FlattenSeq(f) \in Seq(CallIds)
  BY <1>2, FlattenType
<1> QED BY <1>1, <1>3, <1>4, <1>5 DEF CallsIn

\* One item more is chained to those before it.
LEMMA ChainedMore ==
    ASSUME NEW s \in Seq(Wired), Chained(s), NEW x \in Wired,
           x.answers = LastCalls(s)
    PROVE  Chained(Append(s, x)) /\ LastCalls(Append(s, x)) = x.calls
<1>1. PICK t, n, z : t = Append(s, x) /\ n = Len(s) /\ z = n + 1
  OBVIOUS
<1>2. /\ n \in Nat /\ Len(t) = z /\ t[z] = x /\ t # <<>>
      /\ \A k \in 1..n : t[k] = s[k] /\ k \in 1..z
  BY <1>1
<1>3. \A i \in 1..z :
        /\ t[i].answers # <<>> => i > 1 /\ t[i - 1].calls = t[i].answers
        /\ t[i].calls # <<>> /\ i < z => t[i + 1].answers = t[i].calls
  <2> SUFFICES ASSUME NEW i \in 1..z
               PROVE  /\ t[i].answers # <<>> => i > 1 /\ t[i - 1].calls = t[i].answers
                      /\ t[i].calls # <<>> /\ i < z => t[i + 1].answers = t[i].calls
    OBVIOUS
  <2>1. CASE i = z
    <3>1. CASE s = <<>>
      <4>1. x.answers = <<>>
        BY <3>1 DEF LastCalls
      <4> QED BY <1>1, <1>2, <2>1, <4>1
    <3>2. CASE s # <<>>
      <4>1. x.answers = s[n].calls
        BY <1>1, <3>2 DEF LastCalls
      <4>2. n > 0 /\ z - 1 = n /\ t[n] = s[n] /\ z > 1
        BY <1>1, <1>2, <3>2
      <4> QED BY <1>2, <2>1, <4>1, <4>2
    <3> QED BY <3>1, <3>2
  <2>2. CASE i # z
    <3>1. i \in 1..n /\ t[i] = s[i]
      BY <1>1, <1>2, <2>2
    <3>2. /\ s[i].answers # <<>> => i > 1 /\ s[i - 1].calls = s[i].answers
          /\ s[i].calls # <<>> /\ i < n => s[i + 1].answers = s[i].calls
      BY <1>1, <3>1 DEF Chained
    <3>3. i > 1 => t[i - 1] = s[i - 1]
      <4>1. i > 1 => i - 1 \in 1..n
        BY <1>2, <3>1
      <4> QED BY <1>2, <4>1
    <3>4. CASE i < n
      <4>1. i + 1 \in 1..n
        BY <1>2, <3>1, <3>4
      <4> QED BY <1>2, <3>1, <3>2, <3>3, <3>4, <4>1
    <3>5. CASE i = n
      <4>1. x.answers = s[n].calls
        <5>1. s # <<>>
          BY <1>1, <3>1
        <5> QED BY <1>1, <5>1 DEF LastCalls
      <4> QED BY <1>1, <1>2, <3>1, <3>2, <3>3, <3>5, <4>1
    <3> QED BY <1>2, <3>1, <3>4, <3>5
  <2> QED BY <2>1, <2>2
<1> QED BY <1>1, <1>2, <1>3 DEF Chained, LastCalls

\* One item more.
LEMMA TellsMore ==
    ASSUME NEW s, NEW cs, NEW n, Tells(s, cs, n), NEW x \in Wired, x.answers = LastCalls(s)
    PROVE  /\ Tells(Append(s, x), cs \o x.calls, n + One(x.text))
           /\ LastCalls(Append(s, x)) = x.calls
<1>1. s \in Seq(Wired) /\ Chained(s) /\ CallsIn(s) = cs /\ Texts(s) = n /\ n \in Nat
  BY DEF Tells
<1>2. Append(s, x) \in Seq(Wired)
  BY <1>1
<1>3. CallsIn(Append(s, x)) = cs \o x.calls
  BY <1>1, CallsInMore
<1>4. Texts(Append(s, x)) = n + One(x.text) /\ n + One(x.text) \in Nat
  BY <1>1, TextsMore DEF One
<1>5. Chained(Append(s, x)) /\ LastCalls(Append(s, x)) = x.calls
  BY <1>1, ChainedMore
<1> QED BY <1>2, <1>3, <1>4, <1>5 DEF Tells

\* No items tell nothing.
LEMMA TellsNothing == Tells(<<>>, <<>>, 0) /\ LastCalls(<<>>) = <<>>
<1>1. <<>> \in Seq(Wired) /\ Len(<<>>) = 0 /\ DOMAIN <<>> = {}
  OBVIOUS
<1>2. Chained(<<>>)
  BY <1>1 DEF Chained
<1>3. CallsIn(<<>>) = <<>>
  <2>1. [i \in DOMAIN <<>> |-> <<>>[i].calls] = <<>>
    BY <1>1
  <2> QED BY <2>1, FlattenEmpty DEF CallsIn
<1>4. Texts(<<>>) = 0
  <2>1. {k \in DOMAIN <<>> : <<>>[k].text} = {}
    BY <1>1
  <2> QED BY <2>1, FS_EmptySet DEF Texts
<1> QED BY <1>1, <1>2, <1>3, <1>4 DEF Tells, LastCalls

\* The parts of the messages that the query loop keeps.
LEMMA CallsOfMore ==
    ASSUME NEW ms \in Seq(Said), NEW m \in Said
    PROVE  /\ CallsOf(ms) \in Seq(CallIds)
           /\ CallsOf(Append(ms, m)) =
                CallsOf(ms) \o (IF m.kind = "call" THEN <<m.id>> ELSE <<>>)
<1> DEFINE part(y) == IF y.kind = "call" THEN <<y.id>> ELSE <<>>
<1>1. \A y \in Said : part(y) \in Seq(CallIds)
  BY DEF Said
<1>2. PICK f : f = [k \in DOMAIN ms |-> part(ms[k])]
  OBVIOUS
<1>3. f \in Seq(Seq(CallIds))
  <2>1. DOMAIN ms = 1..Len(ms) /\ Len(ms) \in Nat /\ \A k \in 1..Len(ms) : ms[k] \in Said
    OBVIOUS
  <2>2. f \in [1..Len(ms) -> Seq(CallIds)]
    BY <1>1, <1>2, <2>1
  <2> QED BY <2>1, <2>2
<1>4. [k \in DOMAIN Append(ms, m) |-> part(Append(ms, m)[k])] = Append(f, part(m))
  <2>1. PICK t : t = Append(ms, m)
    OBVIOUS
  <2>2. /\ DOMAIN t = 1..(Len(ms) + 1) /\ t[Len(ms) + 1] = m /\ Len(ms) \in Nat
        /\ \A k \in 1..Len(ms) : t[k] = ms[k]
    BY <2>1
  <2>3. DOMAIN f = 1..Len(ms) /\ Len(f) = Len(ms)
    BY <1>2, <1>3
  <2> HIDE DEF part
  <2>4. [k \in DOMAIN t |-> part(t[k])] = Append(f, part(m))
    BY <1>2, <1>3, <2>2, <2>3
  <2> QED BY <2>1, <2>4
<1>5. part(m) \in Seq(CallIds)
  BY <1>1
<1> HIDE DEF part
<1>6. FlattenSeq(Append(f, part(m))) = FlattenSeq(f) \o part(m) /\ FlattenSeq(f) \in Seq(CallIds)
  BY <1>3, <1>5, FlattenAppend, FlattenType
<1> USE DEF part
<1>7. CallsOf(ms) = FlattenSeq(f)
  BY <1>2 DEF CallsOf
<1>8. CallsOf(Append(ms, m)) = FlattenSeq([k \in DOMAIN Append(ms, m) |-> part(Append(ms, m)[k])])
  BY DEF CallsOf
<1> QED BY <1>4, <1>6, <1>7, <1>8

\* Only the assistant calls, one tool in a message; who calls does not answer.
Shaped(s) ==
    \A i \in 1..Len(s) :
        IF s[i].role = "assistant" THEN s[i].answers = <<>> /\ Len(s[i].calls) <= 1
        ELSE s[i].calls = <<>>

\* A list that tells cs and n, to its end.
Complete(s, cs, n) == Tells(s, cs, n) /\ LastCalls(s) = <<>> /\ Shaped(s)

\* The conversion has a list that tells cs and n, but for a text that it holds back.
Converted(w, cs, n) ==
    /\ ConvertType(w) /\ w.calls = <<>> /\ (~w.pending => ~w.text)
    /\ \E k \in Nat : Complete(w.list, cs, k) /\ n = k + One(w.text)

Ends(s) == s # <<>> /\ s[Len(s)] = Message("user", TRUE)

\* What the conversion makes of the messages of the loop.
Conversation(ms) ==
    /\ Converted(Converting(ms), CallsOf(ms), Texts(ms))
    /\ ms # <<>> /\ Last(ms).kind = "user" =>
           ~Converting(ms).pending /\ Ends(Converting(ms).list)

\* One item more has a shape.
LEMMA ShapedMore ==
    ASSUME NEW s \in Seq(Wired), Shaped(s), NEW x,
           IF x.role = "assistant" THEN x.answers = <<>> /\ Len(x.calls) <= 1 ELSE x.calls = <<>>
    PROVE  Shaped(Append(s, x))
<1>1. PICK t : t = Append(s, x)
  OBVIOUS
<1>2. /\ Len(t) = Len(s) + 1 /\ t[Len(s) + 1] = x /\ Len(s) \in Nat
      /\ \A k \in 1..Len(s) : t[k] = s[k]
  BY <1>1
<1>3. \A k \in 1..Len(t) : k \in 1..Len(s) \/ k = Len(s) + 1
  BY <1>2
<1> QED BY <1>1, <1>2, <1>3 DEF Shaped

\* A message after a complete list that calls at most one tool.
LEMMA CompleteMore ==
    ASSUME NEW s, NEW cs, NEW n, Complete(s, cs, n), NEW x \in Wired,
           x.answers = <<>>, x.calls = <<>>
    PROVE  Complete(Append(s, x), cs, n + One(x.text))
<1>1. Tells(s, cs, n) /\ LastCalls(s) = <<>> /\ Shaped(s) /\ s \in Seq(Wired)
  BY DEF Complete, Tells
<1>2. Tells(Append(s, x), cs \o x.calls, n + One(x.text)) /\ LastCalls(Append(s, x)) = x.calls
  BY <1>1, TellsMore
<1>3. cs \in Seq(CallIds)
  <2>1. CallsIn(s) = cs
    BY <1>1 DEF Tells
  <2>2. x \in Wired
    OBVIOUS
  <2> QED BY <1>1, <2>1, <2>2, CallsInMore
<1>4. cs \o x.calls = cs
  BY <1>3
<1>5. Len(<<>>) <= 1
  OBVIOUS
<1>6. Shaped(Append(s, x))
  BY <1>1, <1>5, ShapedMore
<1> QED BY <1>2, <1>4, <1>6 DEF Complete

\* A message is an item.
LEMMA MessageType ==
    ASSUME NEW role \in {"user", "assistant", "tool", "call", "model"}, NEW text \in BOOLEAN
    PROVE  /\ Message(role, text) \in Wired
           /\ Message(role, text).text = text /\ Message(role, text).calls = <<>>
           /\ Message(role, text).answers = <<>> /\ Message(role, text).role = role
<1>1. <<>> \in Seq(CallIds)
  OBVIOUS
<1> QED BY <1>1 DEF Message, Wired

\* What is held back when a run of calls ends.
LEMMA FlushTells ==
    ASSUME NEW w, NEW cs, NEW n, Converted(w, cs, n)
    PROVE  /\ ConvertType(FlushCalls(w)) /\ Complete(FlushCalls(w).list, cs, n)
           /\ ~FlushCalls(w).pending /\ ~FlushCalls(w).text /\ FlushCalls(w).calls = <<>>
           /\ ~w.pending => FlushCalls(w).list = w.list
<1>0. PICK k \in Nat : Complete(w.list, cs, k) /\ n = k + One(w.text)
  BY DEF Converted
<1>1. ConvertType(FlushCalls(w)) /\ w.calls = <<>> /\ ConvertType(w) /\ w.text \in BOOLEAN
  BY FlushType DEF Converted, ConvertType
<1>2. CASE w.pending
  <2>1. PICK x : x = Message("assistant", w.text)
    OBVIOUS
  <2>2. x \in Wired /\ x.text = w.text /\ x.calls = <<>> /\ x.answers = <<>>
    BY <1>1, <2>1, MessageType
  <2>3. Complete(Append(w.list, x), cs, n)
    BY <1>0, <2>2, CompleteMore
  <2>4. [Message("assistant", w.text) EXCEPT !.calls = w.calls] = x
    BY <1>1, <2>1 DEF Message
  <2>5. FlushCalls(w) = [list |-> Append(w.list, x), pending |-> FALSE, text |-> FALSE,
                         calls |-> <<>>]
    BY <1>2, <2>4 DEF FlushCalls
  <2> QED BY <1>1, <1>2, <2>3, <2>5
<1>3. CASE ~w.pending
  <2>1. FlushCalls(w) = w /\ ~w.text
    BY <1>3 DEF FlushCalls, Converted
  <2>2. n = k
    BY <1>0, <2>1 DEF One
  <2> QED BY <1>0, <1>1, <1>3, <2>1, <2>2
<1> QED BY <1>2, <1>3

\* A message of the user is added.
LEMMA AddUser ==
    ASSUME NEW ms \in Seq(Said), NEW m \in Said, m.kind = "user", m.text = TRUE,
           Converted(Converting(ms), CallsOf(ms), Texts(ms))
    PROVE  Conversation(Append(ms, m))
<1>1. PICK w, f, cs, n : /\ w = Converting(ms) /\ f = FlushCalls(w)
                         /\ cs = CallsOf(ms) /\ n = Texts(ms)
  OBVIOUS
<1>2. ConvertType(f) /\ Complete(f.list, cs, n) /\ ~f.pending /\ ~f.text /\ f.calls = <<>>
  BY <1>1, FlushTells
<1>3. PICK x : x = Message("user", TRUE)
  OBVIOUS
<1>4. x \in Wired /\ x.text = TRUE /\ x.calls = <<>> /\ x.answers = <<>>
  BY <1>3, MessageType
<1>5. PICK v : v = Converting(Append(ms, m))
  OBVIOUS
<1>6. v = [f EXCEPT !.list = Append(@, x)]
  BY <1>1, <1>3, <1>5, ConvertOneMore DEF Convert
<1>7. v.list = Append(f.list, x) /\ v.calls = <<>> /\ ~v.pending /\ ~v.text
  BY <1>2, <1>6 DEF ConvertType
<1>8. Complete(v.list, cs, n + 1)
  <2>1. Complete(Append(f.list, x), cs, n + One(x.text))
    BY <1>2, <1>4, CompleteMore
  <2> QED BY <1>4, <1>7, <2>1 DEF One
<1>9. ConvertType(v)
  <2>1. Append(ms, m) \in Seq(Said)
    OBVIOUS
  <2> QED BY <1>5, <2>1, ConvertingType
<1>10. CallsOf(Append(ms, m)) = cs /\ Texts(Append(ms, m)) = n + 1 /\ n \in Nat
  <2>1. CallsOf(Append(ms, m)) = cs \o <<>> /\ cs \in Seq(CallIds)
    BY <1>1, CallsOfMore
  <2>2. Texts(Append(ms, m)) = n + One(m.text) /\ n \in Nat
    BY <1>1, TextsMore
  <2> QED BY <2>1, <2>2 DEF One
<1>11. Converted(v, cs, n + 1)
  BY <1>7, <1>8, <1>9, <1>10 DEF Converted, One
<1>12. Ends(v.list)
  <2>1. f.list \in Seq(Wired)
    BY <1>2 DEF ConvertType
  <2>2. PICK l : l = Append(f.list, x)
    OBVIOUS
  <2>3. l # <<>> /\ l[Len(l)] = x
    BY <2>1, <2>2
  <2> QED BY <1>3, <1>7, <2>2, <2>3 DEF Ends
<1> QED BY <1>5, <1>7, <1>10, <1>11, <1>12 DEF Conversation

\* An instruction is no part of the list.
LEMMA AddSystem ==
    ASSUME NEW ms \in Seq(Said), NEW m \in Said, m.kind = "system", m.text = FALSE,
           Converted(Converting(ms), CallsOf(ms), Texts(ms))
    PROVE  Converted(Converting(Append(ms, m)), CallsOf(Append(ms, m)), Texts(Append(ms, m)))
           /\ Conversation(Append(ms, m))
<1>1. PICK w, cs, n : w = Converting(ms) /\ cs = CallsOf(ms) /\ n = Texts(ms)
  OBVIOUS
<1>2. Converting(Append(ms, m)) = w
  <2>1. Converting(Append(ms, m)) = Convert(w, m)
    BY <1>1, ConvertOneMore
  <2> QED BY <2>1 DEF Convert
<1>3. CallsOf(Append(ms, m)) = cs
  <2>1. CallsOf(Append(ms, m)) = cs \o <<>> /\ cs \in Seq(CallIds)
    BY <1>1, CallsOfMore
  <2> QED BY <2>1
<1>4. Texts(Append(ms, m)) = n
  <2>1. Texts(Append(ms, m)) = n + One(m.text) /\ n \in Nat
    BY <1>1, TextsMore
  <2> QED BY <2>1 DEF One
<1>5. Last(Append(ms, m)).kind # "user"
  BY DEF Last
<1> QED BY <1>1, <1>2, <1>3, <1>4, <1>5 DEF Conversation

\* An answer of the model is added, with its calls.
LEMMA AddAssistant ==
    ASSUME NEW ms \in Seq(Said), NEW m \in Said, m.kind = "assistant", Conversation(ms)
    PROVE  Conversation(Append(ms, m))
<1>1. PICK w, f, cs, n : /\ w = Converting(ms) /\ f = FlushCalls(w)
                         /\ cs = CallsOf(ms) /\ n = Texts(ms)
  OBVIOUS
<1>2. ConvertType(f) /\ Complete(f.list, cs, n) /\ ~f.pending /\ ~f.text /\ f.calls = <<>>
  BY <1>1, FlushTells DEF Conversation
<1>3. PICK v : v = Converting(Append(ms, m))
  OBVIOUS
<1>4. v = [f EXCEPT !.pending = TRUE, !.text = m.text]
  <2>1. v = Convert(w, m)
    BY <1>1, <1>3, ConvertOneMore
  <2> QED BY <1>1, <2>1 DEF Convert
<1>5. v.list = f.list /\ v.calls = <<>> /\ v.pending = TRUE /\ v.text = m.text
  BY <1>2, <1>4 DEF ConvertType
<1>6. ConvertType(v)
  <2>1. Append(ms, m) \in Seq(Said)
    OBVIOUS
  <2> QED BY <1>3, <2>1, ConvertingType
<1>7. CallsOf(Append(ms, m)) = cs /\ Texts(Append(ms, m)) = n + One(m.text) /\ n \in Nat
  <2>1. CallsOf(Append(ms, m)) = cs \o <<>> /\ cs \in Seq(CallIds)
    BY <1>1, CallsOfMore
  <2>2. Texts(Append(ms, m)) = n + One(m.text) /\ n \in Nat
    BY <1>1, TextsMore
  <2> QED BY <2>1, <2>2
<1>8. Converted(v, cs, n + One(m.text))
  BY <1>2, <1>5, <1>6, <1>7 DEF Converted
<1>9. Last(Append(ms, m)).kind # "user"
  BY DEF Last
<1> QED BY <1>3, <1>7, <1>8, <1>9 DEF Conversation

\* A call and its result.
LEMMA AddPair ==
    ASSUME NEW ms \in Seq(Said), NEW a \in Said, NEW b \in Said, a.kind = "call",
           b.kind = "result", a.id = b.id, ~a.text, ~b.text, Conversation(ms)
    PROVE  Conversation(Append(Append(ms, a), b))
<1>1. PICK w, cs, n : w = Converting(ms) /\ cs = CallsOf(ms) /\ n = Texts(ms)
  OBVIOUS
<1>2. PICK k \in Nat : /\ ConvertType(w) /\ w.calls = <<>> /\ Complete(w.list, cs, k)
                       /\ n = k + One(w.text)
  BY <1>1 DEF Conversation, Converted
<1>3. PICK u, v : u = Converting(Append(ms, a)) /\ v = Converting(Append(Append(ms, a), b))
  OBVIOUS
<1>4. u = [w EXCEPT !.pending = TRUE, !.calls = Append(@, a.id)]
  BY <1>1, <1>3, ConvertOneMore DEF Convert
<1>5. u.list = w.list /\ u.pending = TRUE /\ u.text = w.text /\ u.calls = <<a.id>>
      /\ w.list \in Seq(Wired) /\ w.text \in BOOLEAN
  BY <1>2, <1>4 DEF ConvertType
<1>6. PICK x, y : /\ x = [Message("assistant", w.text) EXCEPT !.calls = <<a.id>>]
                  /\ y = Answering("tool", a.id)
  OBVIOUS
<1>7. FlushCalls(u) = [list |-> Append(w.list, x), pending |-> FALSE, text |-> FALSE, calls |-> <<>>]
  BY <1>5, <1>6 DEF FlushCalls
<1>8. v = [list |-> Append(Append(w.list, x), y), pending |-> FALSE, text |-> FALSE, calls |-> <<>>]
  <2>1. Append(ms, a) \in Seq(Said)
    OBVIOUS
  <2>2. v = Convert(u, b)
    BY <1>3, <2>1, ConvertOneMore
  <2>3. v = [FlushCalls(u) EXCEPT !.list = Append(@, y)]
    BY <1>6, <2>2 DEF Convert
  <2>4. PICK l : l = Append(w.list, x)
    OBVIOUS
  <2>5. FlushCalls(u) = [list |-> l, pending |-> FALSE, text |-> FALSE, calls |-> <<>>]
    BY <1>7, <2>4
  <2>6. v = [list |-> Append(l, y), pending |-> FALSE, text |-> FALSE, calls |-> <<>>]
    <3>1. PICK f : f = FlushCalls(u)
      OBVIOUS
    <3>2. f = [list |-> l, pending |-> FALSE, text |-> FALSE, calls |-> <<>>]
      BY <2>5, <3>1
    <3>3. v = [f EXCEPT !.list = Append(f.list, y)]
      BY <2>3, <3>1
    <3> QED BY ONLY <3>2, <3>3
  <2> QED BY <2>4, <2>6
<1>9. /\ x \in Wired /\ x.role = "assistant" /\ x.text = w.text /\ x.calls = <<a.id>>
      /\ x.answers = <<>>
      /\ y \in Wired /\ y.role = "tool" /\ y.text = FALSE /\ y.calls = <<>> /\ y.answers = <<a.id>>
  <2>1. <<a.id>> \in Seq(CallIds) /\ <<>> \in Seq(CallIds)
    BY DEF Said
  <2>2. x = [role |-> "assistant", text |-> w.text, calls |-> <<a.id>>, answers |-> <<>>]
    BY <1>6 DEF Message
  <2>3. y = [role |-> "tool", text |-> FALSE, calls |-> <<>>, answers |-> <<a.id>>]
    BY <1>6 DEF Message, Answering
  <2>4. x \in Wired /\ y \in Wired
    BY <1>5, <2>1, <2>2, <2>3 DEF Wired
  <2> QED BY <2>2, <2>3, <2>4
<1>10. PICK s, t : s = Append(w.list, x) /\ t = Append(s, y)
  OBVIOUS
<1>11. Tells(w.list, cs, k) /\ LastCalls(w.list) = <<>> /\ Shaped(w.list)
  BY <1>2 DEF Complete
<1>12. Tells(s, cs \o <<a.id>>, n) /\ LastCalls(s) = <<a.id>>
  BY <1>2, <1>9, <1>10, <1>11, TellsMore
<1>13. Tells(t, (cs \o <<a.id>>) \o <<>>, n + 0) /\ LastCalls(t) = <<>>
  <2>1. Tells(t, (cs \o <<a.id>>) \o y.calls, n + One(y.text)) /\ LastCalls(t) = y.calls
    BY <1>9, <1>10, <1>12, TellsMore
  <2> QED BY <1>9, <2>1 DEF One
<1>14. cs \in Seq(CallIds) /\ n \in Nat /\ a.id \in CallIds
  BY <1>1, CallsOfMore, TextsMore DEF Said
<1>15. Complete(t, cs \o <<a.id>>, n)
  <2>1. (cs \o <<a.id>>) \o <<>> = cs \o <<a.id>> /\ n + 0 = n
    BY <1>14
  <2>2. Len(x.calls) <= 1
    BY <1>9
  <2>3. Shaped(s) /\ s \in Seq(Wired)
    <3>1. Shaped(Append(w.list, x))
      BY <1>5, <1>9, <1>11, <2>2, ShapedMore
    <3> QED BY <1>5, <1>9, <1>10, <3>1
  <2>4. Shaped(t)
    BY <1>9, <1>10, <2>3, ShapedMore
  <2> QED BY <1>13, <2>1, <2>4 DEF Complete
<1>16. CallsOf(Append(Append(ms, a), b)) = cs \o <<a.id>> /\ Texts(Append(Append(ms, a), b)) = n
  <2>1. PICK z : z = Append(ms, a)
    OBVIOUS
  <2>2. z \in Seq(Said) /\ CallsOf(z) = cs \o <<a.id>> /\ Texts(z) = n + One(a.text)
    BY <1>1, <2>1, CallsOfMore, TextsMore
  <2>3. CallsOf(Append(z, b)) = CallsOf(z) \o <<>> /\ Texts(Append(z, b)) = Texts(z) + One(b.text)
        /\ CallsOf(z) \in Seq(CallIds)
    BY <2>2, CallsOfMore, TextsMore
  <2> QED BY <1>14, <2>1, <2>2, <2>3 DEF One
<1>17. Append(Append(ms, a), b) \in Seq(Said) /\ Last(Append(Append(ms, a), b)).kind # "user"
  BY DEF Last
<1>18. ConvertType(v)
  BY <1>3, <1>17, ConvertingType
<1>19. Converted(v, cs \o <<a.id>>, n)
  <2>1. v.list = t /\ v.calls = <<>> /\ ~v.pending /\ ~v.text
    BY <1>8, <1>10
  <2>2. Complete(v.list, cs \o <<a.id>>, n) /\ n = n + One(v.text)
    BY <1>14, <1>15, <2>1 DEF One
  <2> QED BY <1>14, <1>18, <2>1, <2>2 DEF Converted
<1> QED BY <1>3, <1>16, <1>17, <1>19 DEF Conversation

\* The property, of some items: each call answered in the item after it, no answer
\* elsewhere, all the calls and texts.
Answered(wire, cs, n) ==
    /\ \A i \in DOMAIN wire : wire[i].answers # <<>> =>
         i > 1 /\ wire[i - 1].calls = wire[i].answers
    /\ \A i \in DOMAIN wire : wire[i].calls # <<>> =>
         i < Len(wire) /\ wire[i + 1].answers = wire[i].calls
    /\ FlattenSeq([i \in DOMAIN wire |-> wire[i].calls]) = cs
    /\ Texts(wire) = n

\* A list that tells the conversation has each answer behind its call.
LEMMA TellsAnswers ==
    ASSUME NEW s, NEW cs, NEW n, Tells(s, cs, n), LastCalls(s) = <<>>
    PROVE  Answered(s, cs, n)
<1>1. s \in Seq(Wired) /\ Chained(s) /\ CallsIn(s) = cs /\ Texts(s) = n
  BY DEF Tells
<1>2. DOMAIN s = 1..Len(s) /\ Len(s) \in Nat
  BY <1>1
<1>3. \A i \in DOMAIN s : s[i].calls # <<>> => i < Len(s)
  <2> SUFFICES ASSUME NEW i \in DOMAIN s, s[i].calls # <<>>, ~(i < Len(s)) PROVE FALSE
    OBVIOUS
  <2>1. i = Len(s) /\ s # <<>>
    BY <1>2
  <2> QED BY <2>1 DEF LastCalls
<1> QED BY <1>1, <1>2, <1>3 DEF Chained, CallsIn, Answered

\* Items under other roles.
LEMMA RolesAside ==
    ASSUME NEW s \in Seq(Wired), NEW t \in Seq(Wired), Len(t) = Len(s),
           \A i \in 1..Len(s) : /\ t[i].text = s[i].text /\ t[i].calls = s[i].calls
                                /\ t[i].answers = s[i].answers,
           NEW cs, NEW n, Answered(s, cs, n)
    PROVE  Answered(t, cs, n)
<1>1. DOMAIN s = 1..Len(s) /\ DOMAIN t = 1..Len(s) /\ Len(s) \in Nat
  OBVIOUS
<1>2. [i \in DOMAIN t |-> t[i].calls] = [i \in DOMAIN s |-> s[i].calls]
  BY <1>1
<1>3. {k \in DOMAIN t : t[k].text} = {k \in DOMAIN s : s[k].text}
  BY <1>1
<1>4. Texts(t) = Texts(s)
  BY <1>3 DEF Texts
<1>5. \A i \in 1..Len(s) : (i > 1 => i - 1 \in 1..Len(s)) /\ (i < Len(s) => i + 1 \in 1..Len(s))
  BY <1>1
<1> QED BY <1>1, <1>2, <1>4, <1>5 DEF Answered

\* A sequence is its front with its last element.
LEMMA FrontAndLast ==
    ASSUME NEW S, NEW l \in Seq(S), l # <<>>
    PROVE  Front(l) \in Seq(S) /\ Append(Front(l), l[Len(l)]) = l
<1>1. PICK s \in Seq(S), e \in S : l = Append(s, e)
  BY SequenceEmptyOrAppend
<1>2. PICK k, z, f : k = Len(s) /\ z = Len(l) /\ f = SubSeq(l, 1, k)
  OBVIOUS
<1>3. k \in Nat /\ z = k + 1 /\ l[z] = e /\ \A i \in 1..k : l[i] = s[i] /\ s[i] \in S
  BY <1>1, <1>2, AppendProperties
<1>4. f \in Seq(S) /\ Len(f) = k /\ \A i \in 1..k : f[i] = l[i]
  BY <1>2, <1>3
<1>5. f = s
  BY <1>2, <1>3, <1>4, SeqEqual
<1>6. Front(l) = f
  BY <1>2, <1>3 DEF Front
<1> QED BY <1>1, <1>2, <1>3, <1>5, <1>6

\* The history with the query tells the conversation.
LEMMA RequestTells ==
    ASSUME NEW ms \in Seq(Said), ms # <<>>, Conversation(ms)
    PROVE  LET r == Request(ms)
           IN  /\ r.history \in Seq(Wired) /\ r.query \in BOOLEAN
               /\ Complete(CompatPayload(r), CallsOf(ms), Texts(ms))
               /\ ~r.query => Complete(r.history, CallsOf(ms), Texts(ms))
<1>1. PICK w, l, cs, n, r : /\ w = Converting(ms) /\ l = ListOf(ms) /\ cs = CallsOf(ms)
                            /\ n = Texts(ms) /\ r = Request(ms)
  OBVIOUS
<1>2. /\ l \in Seq(Wired)
      /\ r.history = IF Last(ms).kind = "user" THEN Front(l) ELSE l
      /\ r.query = (Last(ms).kind = "user")
  BY <1>1, RequestIs
<1>3. Complete(l, cs, n) /\ (~w.pending => l = w.list)
  BY <1>1, FlushTells DEF ListOf, Conversation
<1>4. CASE Last(ms).kind = "user"
  <2>1. l # <<>> /\ l[Len(l)] = Message("user", TRUE)
    BY <1>1, <1>3, <1>4 DEF Conversation, Ends
  <2>2. PICK x : x = Message("user", TRUE)
    OBVIOUS
  <2>3. Front(l) \in Seq(Wired) /\ Append(Front(l), x) = l
    BY <1>2, <2>1, <2>2, FrontAndLast
  <2>4. r.history = Front(l) /\ r.query = TRUE
    BY <1>2, <1>4
  <2>5. CompatPayload(r) = l
    BY <2>2, <2>3, <2>4 DEF CompatPayload
  <2> QED BY <1>1, <1>3, <2>3, <2>4, <2>5
<1>5. CASE Last(ms).kind # "user"
  <2>1. r.history = l /\ r.query = FALSE
    BY <1>2, <1>5
  <2>2. PICK x : x = Message("user", FALSE)
    OBVIOUS
  <2>3. x \in Wired /\ x.answers = <<>> /\ x.calls = <<>> /\ x.text = FALSE
    BY <2>2, MessageType
  <2>4. Complete(Append(l, x), cs, n + 0)
    <3>1. Complete(Append(l, x), cs, n + One(x.text))
      BY <1>3, <2>3, CompleteMore
    <3> QED BY <2>3, <3>1 DEF One
  <2>5. n + 0 = n
    BY <1>3 DEF Complete, Tells
  <2>6. CompatPayload(r) = Append(l, x)
    BY <2>1, <2>2 DEF CompatPayload
  <2> QED BY <1>1, <1>2, <1>3, <2>1, <2>4, <2>5, <2>6
<1> QED BY <1>4, <1>5

\* So it is in the contents of Gemini.
LEMMA GeminiAnswers ==
    ASSUME NEW r, r.history \in Seq(Wired), r.query \in BOOLEAN, NEW cs, NEW n,
           Complete(CompatPayload(r), cs, n), ~r.query => Complete(r.history, cs, n)
    PROVE  Answered(GeminiPayload(r), cs, n)
<1>1. PICK h, g, x : /\ h = r.history /\ g = [k \in DOMAIN h |-> GeminiPart(h[k])]
                     /\ x = Message("user", r.query)
  OBVIOUS
<1>2. x \in Wired /\ h \in Seq(Wired)
  BY <1>1, MessageType
<1>3. ASSUME NEW m \in Wired
      PROVE  /\ GeminiPart(m) \in Wired /\ GeminiPart(m).text = m.text
             /\ GeminiPart(m).calls = m.calls /\ GeminiPart(m).answers = m.answers
  BY DEF GeminiPart, Wired
<1>4. /\ g \in Seq(Wired) /\ Len(g) = Len(h)
      /\ \A i \in 1..Len(h) : /\ g[i].text = h[i].text /\ g[i].calls = h[i].calls
                              /\ g[i].answers = h[i].answers
  <2>1. DOMAIN h = 1..Len(h) /\ Len(h) \in Nat /\ \A i \in 1..Len(h) : h[i] \in Wired
    BY <1>2
  <2>2. \A i \in 1..Len(h) : g[i] = GeminiPart(h[i])
    BY <1>1, <2>1
  <2>3. g \in [1..Len(h) -> Wired]
    BY <1>1, <1>3, <2>1
  <2>4. g \in Seq(Wired) /\ Len(g) = Len(h)
    BY <2>1, <2>3
  <2> QED BY <1>3, <2>1, <2>2, <2>4
<1>5. CASE r.query \/ h = <<>>
  <2>1. PICK s, t : s = Append(h, x) /\ t = Append(g, x)
    OBVIOUS
  <2>2. GeminiPayload(r) = t
    <3>1. GeminiPayload(r) = g \o <<x>>
      BY <1>1, <1>5 DEF GeminiPayload
    <3> QED BY <1>2, <1>4, <2>1, <3>1
  <2>3. CompatPayload(r) = s
    BY <1>1, <2>1 DEF CompatPayload
  <2>4. Answered(s, cs, n)
    BY <2>3, TellsAnswers DEF Complete
  <2>5. s \in Seq(Wired) /\ t \in Seq(Wired) /\ Len(t) = Len(s)
    BY <1>2, <1>4, <2>1
  <2>6. \A i \in 1..Len(s) : /\ t[i].text = s[i].text /\ t[i].calls = s[i].calls
                             /\ t[i].answers = s[i].answers
    <3> SUFFICES ASSUME NEW i \in 1..Len(s)
                 PROVE  /\ t[i].text = s[i].text /\ t[i].calls = s[i].calls
                        /\ t[i].answers = s[i].answers
      OBVIOUS
    <3>1. CASE i \in 1..Len(h)
      <4>1. s[i] = h[i] /\ t[i] = g[i]
        BY <1>2, <1>4, <2>1, <3>1
      <4> QED BY <1>4, <3>1, <4>1
    <3>2. CASE i \notin 1..Len(h)
      <4>1. s[i] = x /\ t[i] = x
        BY <1>2, <1>4, <2>1, <3>2
      <4> QED BY <4>1
    <3> QED BY <3>1, <3>2
  <2> QED BY <2>2, <2>4, <2>5, <2>6, RolesAside
<1>6. CASE ~r.query /\ h # <<>>
  <2>1. GeminiPayload(r) = g
    <3>1. GeminiPayload(r) = g \o <<>>
      BY <1>1, <1>6 DEF GeminiPayload
    <3> QED BY <1>4, <3>1
  <2>2. Answered(h, cs, n)
    BY <1>1, <1>6, TellsAnswers DEF Complete
  <2> QED BY <1>2, <1>4, <2>1, <2>2, RolesAside
<1> QED BY <1>5, <1>6

\* The first k items, and one more of them.
LEMMA FirstOneMore ==
    ASSUME NEW S, NEW s \in Seq(S), NEW k \in 0..(Len(s) - 1)
    PROVE  /\ FirstOf(s, k) \in Seq(S) /\ s[k + 1] \in S
           /\ FirstOf(s, k + 1) = Append(FirstOf(s, k), s[k + 1])
           /\ Len(FirstOf(s, k)) = k /\ (k # 0 => FirstOf(s, k)[k] = s[k])
  BY DEF FirstOf

\* A message takes its answers from the calls of the one before.
LEMMA ChainedFirst ==
    ASSUME NEW s \in Seq(Wired), Chained(s), NEW k \in 0..(Len(s) - 1)
    PROVE  s[k + 1].answers = LastCalls(FirstOf(s, k))
<1>1. PICK z, f : z = k + 1 /\ f = FirstOf(s, k)
  OBVIOUS
<1>2. Len(s) \in Nat /\ z \in 1..Len(s) /\ z - 1 = k /\ (k # 0 => k \in 1..Len(s) /\ k < Len(s))
  BY <1>1
<1>3. /\ s[z].answers # <<>> => z > 1 /\ s[z - 1].calls = s[z].answers
      /\ k # 0 /\ s[k].calls # <<>> => s[z].answers = s[k].calls
  BY <1>1, <1>2 DEF Chained
<1>4. f \in Seq(Wired) /\ Len(f) = k /\ (k # 0 => f[k] = s[k])
  BY <1>1, FirstOneMore
<1>5. CASE k = 0
  <2>1. f = <<>>
    BY <1>4, <1>5
  <2> QED BY <1>1, <1>3, <1>5, <2>1 DEF LastCalls
<1>6. CASE k # 0
  <2>1. f # <<>> /\ LastCalls(f) = s[k].calls
    BY <1>4, <1>6 DEF LastCalls
  <2> QED BY <1>1, <1>2, <1>3, <1>6, <2>1
<1> QED BY <1>5, <1>6

\* The items of gpt: what the model has said, and its calls.
Speech(m) == IF m.text THEN <<Message("assistant", TRUE)>> ELSE <<>>
CallItem(id) == [Message("call", FALSE) EXCEPT !.calls = <<id>>]
CallItems(m) == [k \in DOMAIN m.calls |-> CallItem(m.calls[k])]

\* A call is an item of its own for the GPT provider.
LEMMA CallItemIs ==
    ASSUME NEW id \in CallIds
    PROVE  /\ CallItem(id) \in Wired /\ CallItem(id).text = FALSE
           /\ CallItem(id).calls = <<id>> /\ CallItem(id).answers = <<>>
<1>1. <<id>> \in Seq(CallIds) /\ <<>> \in Seq(CallIds)
  OBVIOUS
<1>2. PICK x : x = CallItem(id)
  OBVIOUS
<1>3. x = [role |-> "call", text |-> FALSE, calls |-> <<id>>, answers |-> <<>>]
  <2>1. PICK m, l : m = Message("call", FALSE) /\ l = <<id>>
    OBVIOUS
  <2>2. m = [role |-> "call", text |-> FALSE, calls |-> <<>>, answers |-> <<>>]
    BY <2>1 DEF Message
  <2>3. x = [m EXCEPT !.calls = l]
    BY <1>2, <2>1 DEF CallItem
  <2>4. x = [role |-> "call", text |-> FALSE, calls |-> l, answers |-> <<>>]
    BY ONLY <2>2, <2>3
  <2> QED BY <2>1, <2>4
<1> QED BY <1>1, <1>2, <1>3 DEF Wired

\* The input of the GPT provider is a list of items.
LEMMA GptItemsType ==
    ASSUME NEW m \in Wired
    PROVE  /\ Speech(m) \in Seq(Wired) /\ CallItems(m) \in Seq(Wired)
           /\ Len(CallItems(m)) = Len(m.calls)
           /\ m.role = "assistant" => GptItems(m) = Speech(m) \o CallItems(m)
           /\ GptItems(m) \in Seq(Wired)
<1>1. PICK b, c : b = CallItems(m) /\ c = m.calls
  OBVIOUS
<1>2. Speech(m) \in Seq(Wired)
  <2>1. PICK x : x = Message("assistant", TRUE)
    OBVIOUS
  <2>2. x \in Wired
    BY <2>1, MessageType
  <2>3. <<x>> \in Seq(Wired) /\ <<>> \in Seq(Wired)
    BY <2>2
  <2> QED BY <2>1, <2>3 DEF Speech
<1>3. b \in Seq(Wired) /\ Len(b) = Len(c)
  <2>1. c \in Seq(CallIds)
    BY <1>1 DEF Wired
  <2>2. DOMAIN c = 1..Len(c) /\ Len(c) \in Nat /\ \A k \in 1..Len(c) : c[k] \in CallIds
    BY <2>1
  <2>3. b = [k \in 1..Len(c) |-> CallItem(c[k])]
    BY <1>1, <2>2 DEF CallItems
  <2>4. \A k \in 1..Len(c) : CallItem(c[k]) \in Wired
    BY <2>2, CallItemIs
  <2>5. b \in [1..Len(c) -> Wired]
    BY <2>3, <2>4
  <2> QED BY <2>2, <2>5
<1>4. m.role = "assistant" => GptItems(m) = Speech(m) \o CallItems(m)
  BY DEF GptItems, Speech, CallItems, CallItem
<1>5. CASE m.role = "assistant"
  <2>1. Speech(m) \o CallItems(m) \in Seq(Wired)
    BY <1>1, <1>2, <1>3, ConcatProperties
  <2> QED BY <1>1, <1>2, <1>3, <1>4, <1>5, <2>1
<1>6. CASE m.role # "assistant"
  BY <1>1, <1>2, <1>3, <1>6 DEF GptItems
<1> QED BY <1>5, <1>6

\* A message becomes items that tell the same.
LEMMA GptOneMore ==
    ASSUME NEW g, NEW cs, NEW n, Tells(g, cs, n), NEW m \in Wired, m.answers = LastCalls(g),
           IF m.role = "assistant" THEN m.answers = <<>> /\ Len(m.calls) <= 1 ELSE m.calls = <<>>
    PROVE  /\ Tells(g \o GptItems(m), cs \o m.calls, n + One(m.text))
           /\ LastCalls(g \o GptItems(m)) = m.calls
<1>0. g \in Seq(Wired) /\ n \in Nat /\ cs \in Seq(CallIds) /\ m.calls \in Seq(CallIds)
      /\ m.text \in BOOLEAN
  <2>1. g \in Seq(Wired) /\ n \in Nat /\ CallsIn(g) = cs
    BY DEF Tells
  <2>2. m \in Wired
    OBVIOUS
  <2>3. cs \in Seq(CallIds)
    BY <2>1, <2>2, CallsInMore
  <2> QED BY <2>1, <2>3 DEF Wired
<1>1. CASE m.role # "assistant"
  <2>1. g \o GptItems(m) = Append(g, m)
    BY <1>0, <1>1 DEF GptItems
  <2> QED BY <2>1, TellsMore
<1>2. CASE m.role = "assistant"
  <2>1. LastCalls(g) = <<>> /\ Len(m.calls) <= 1
    BY <1>2
  <2>2. PICK a, b, c, k : /\ a = Speech(m) /\ b = CallItems(m) /\ c = m.calls
                          /\ k = n + One(m.text)
    OBVIOUS
  <2>3. /\ GptItems(m) = a \o b /\ a \in Seq(Wired) /\ b \in Seq(Wired) /\ Len(b) = Len(c)
        /\ c \in Seq(CallIds) /\ k \in Nat
    <3>1. k \in Nat
      BY <1>0, <2>2 DEF One
    <3>2. m \in Wired
      OBVIOUS
    <3> QED BY <1>0, <1>2, <2>2, <3>1, <3>2, GptItemsType
  <2>4. PICK s : s = g \o a
    OBVIOUS
  <2>5. Tells(s, cs, k) /\ LastCalls(s) = <<>>
    <3>1. CASE m.text
      <4>1. PICK x : x = Message("assistant", TRUE)
        OBVIOUS
      <4>2. x \in Wired /\ x.text = TRUE /\ x.calls = <<>> /\ x.answers = <<>>
        BY <4>1, MessageType
      <4>3. s = Append(g, x)
        <5>1. a = <<x>>
          BY <2>2, <3>1, <4>1 DEF Speech
        <5>2. Append(g, x) = g \o <<x>>
          BY <1>0, <4>2, AppendIsConcat
        <5> QED BY <2>4, <5>1, <5>2
      <4>4. Tells(Append(g, x), cs \o x.calls, n + One(x.text)) /\ LastCalls(Append(g, x)) = x.calls
        BY <2>1, <4>2, TellsMore
      <4>5. cs \o x.calls = cs /\ One(x.text) = One(m.text)
        BY <1>0, <3>1, <4>2 DEF One
      <4> QED BY <2>2, <4>2, <4>3, <4>4, <4>5
    <3>2. CASE ~m.text
      <4>1. s = g
        BY <1>0, <2>2, <2>4, <3>2 DEF Speech
      <4>2. k = n
        BY <1>0, <2>2, <3>2 DEF One
      <4> QED BY <2>1, <4>1, <4>2
    <3> QED BY <3>1, <3>2
  <2>6. s \in Seq(Wired)
    BY <2>5 DEF Tells
  <2>7. PICK t : t = s \o b
    OBVIOUS
  <2>8. g \o GptItems(m) = t
    <3>1. g \in Seq(Wired) /\ a \in Seq(Wired) /\ b \in Seq(Wired)
      BY <1>0, <2>3
    <3>2. (g \o a) \o b = g \o (a \o b)
      BY ONLY <3>1, ConcatAssociative
    <3> QED BY <2>3, <2>4, <2>7, <3>2
  <2>9. Tells(t, cs \o c, k) /\ LastCalls(t) = c
    <3>1. CASE c = <<>>
      <4>1. b = <<>>
        <5>1. Len(b) = 0
          BY <2>3, <3>1
        <5> QED BY <2>3, <5>1
      <4>2. t = s /\ cs \o c = cs
        BY <1>0, <2>6, <2>7, <3>1, <4>1
      <4> QED BY <2>5, <3>1, <4>2
    <3>2. CASE c # <<>>
      <4>1. Len(c) = 1 /\ DOMAIN c = 1..1
        <5>1. Len(c) <= 1 /\ Len(c) \in Nat /\ Len(c) # 0
          BY <2>1, <2>2, <2>3, <3>2
        <5> QED BY <2>3, <5>1
      <4>2. PICK x : x = CallItem(c[1])
        OBVIOUS
      <4>3. c[1] \in CallIds /\ c = <<c[1]>>
        <5>1. c[1] \in CallIds /\ <<c[1]>> \in Seq(CallIds) /\ Len(<<c[1]>>) = 1
          <6>1. PICK e : e = c[1]
            OBVIOUS
          <6>2. e \in CallIds
            <7>1. c \in Seq(CallIds) /\ 1 \in 1..Len(c)
              BY <2>3, <4>1
            <7> QED BY ONLY <6>1, <7>1, ElementOfSeq
          <6>3. <<e>> \in Seq(CallIds) /\ Len(<<e>>) = 1
            BY <6>2
          <6> QED BY <6>1, <6>2, <6>3
        <5>2. PICK d : d = <<c[1]>>
          OBVIOUS
        <5>3. d \in Seq(CallIds) /\ Len(d) = Len(c) /\ \A i \in 1..Len(d) : d[i] = c[i]
          BY <4>1, <5>1, <5>2
        <5>4. d = c
          BY ONLY <2>3, <5>3, SeqEqual
        <5> QED BY <5>1, <5>2, <5>4
      <4>4. x \in Wired /\ x.answers = <<>> /\ x.calls = c /\ x.text = FALSE
        BY <4>2, <4>3, CallItemIs
      <4>5. b = <<x>>
        <5>1. Len(b) = 1 /\ b[1] = x
          BY <2>2, <2>3, <4>1, <4>2 DEF CallItems
        <5> QED BY <2>3, <5>1
      <4>6. t = Append(s, x)
        <5>1. Append(s, x) = s \o <<x>>
          BY <2>6, <4>4, AppendIsConcat
        <5> QED BY <2>7, <4>5, <5>1
      <4>7. x.answers = LastCalls(s)
        BY <2>5, <4>4
      <4>8. Tells(Append(s, x), cs \o x.calls, k + One(x.text)) /\ LastCalls(Append(s, x)) = x.calls
        BY <2>5, <4>4, <4>7, TellsMore
      <4>9. k + One(x.text) = k
        BY <2>3, <4>4 DEF One
      <4> QED BY <4>4, <4>6, <4>8, <4>9
    <3> QED BY <3>1, <3>2
  <2> QED BY <2>2, <2>8, <2>9
<1> QED BY <1>1, <1>2

\* So it is in the input of the GPT provider.
LEMMA GptAnswers ==
    ASSUME NEW r, r.history \in Seq(Wired), r.query \in BOOLEAN, NEW cs, NEW n,
           Complete(CompatPayload(r), cs, n)
    PROVE  Answered(GptPayload(r), cs, n)
<1>1. PICK w, its : w = CompatPayload(r) /\ its = [k \in DOMAIN w |-> GptItems(w[k])]
  OBVIOUS
<1>2. w \in Seq(Wired) /\ Chained(w) /\ Shaped(w) /\ LastCalls(w) = <<>>
      /\ CallsIn(w) = cs /\ Texts(w) = n
  BY <1>1 DEF Complete, Tells
<1>3. /\ its \in Seq(Seq(Wired)) /\ Len(its) = Len(w) /\ Len(w) \in Nat
      /\ \A k \in 1..Len(w) : its[k] = GptItems(w[k])
  <2>1. DOMAIN w = 1..Len(w) /\ Len(w) \in Nat /\ \A k \in 1..Len(w) : w[k] \in Wired
    BY <1>2
  <2>2. its \in [1..Len(w) -> Seq(Wired)]
    BY <1>1, <2>1, GptItemsType
  <2> QED BY <1>1, <2>1, <2>2
<1>4. GptPayload(r) = FlattenSeq(its)
  <2>1. PICK h, x, f : /\ h = r.history /\ x = Message("user", r.query)
                       /\ f = [k \in DOMAIN h |-> GptItems(h[k])]
    OBVIOUS
  <2>2. h \in Seq(Wired) /\ x \in Wired /\ x.role = "user" /\ w = Append(h, x)
    BY <1>1, <2>1, MessageType DEF CompatPayload
  <2>3. f \in Seq(Seq(Wired)) /\ Len(f) = Len(h) /\ \A k \in 1..Len(h) : f[k] = GptItems(h[k])
    <3>1. DOMAIN h = 1..Len(h) /\ Len(h) \in Nat /\ \A k \in 1..Len(h) : h[k] \in Wired
      BY <2>2
    <3>2. f \in [1..Len(h) -> Seq(Wired)]
      BY <2>1, <3>1, GptItemsType
    <3> QED BY <2>1, <3>1, <3>2
  <2>4. GptItems(x) = <<x>>
    BY <2>2 DEF GptItems
  <2>5. PICK t : t = Append(f, <<x>>)
    OBVIOUS
  <2>6. t \in Seq(Seq(Wired)) /\ Len(t) = Len(its) /\ \A k \in 1..Len(its) : t[k] = its[k]
    <3>1. t \in Seq(Seq(Wired)) /\ Len(t) = Len(h) + 1 /\ Len(w) = Len(h) + 1 /\ Len(h) \in Nat
      BY <2>2, <2>3, <2>5
    <3>2. \A k \in 1..Len(h) : t[k] = f[k] /\ w[k] = h[k]
      BY <2>2, <2>3, <2>5
    <3>3. t[Len(h) + 1] = <<x>> /\ w[Len(h) + 1] = x
      BY <2>2, <2>3, <2>5
    <3>4. \A k \in 1..Len(w) : k \in 1..Len(h) \/ k = Len(h) + 1
      BY <3>1
    <3> QED BY <1>3, <2>3, <2>4, <3>1, <3>2, <3>3, <3>4
  <2>7. its = t
    BY ONLY <1>3, <2>6, SeqEqual
  <2>8. FlattenSeq(t) = FlattenSeq(f) \o <<x>> /\ FlattenSeq(f) \in Seq(Wired)
    <3>1. <<x>> \in Seq(Wired)
      BY <2>2
    <3> QED BY <2>3, <2>5, <3>1, FlattenAppend, FlattenType
  <2>9. GptPayload(r) = Append(FlattenSeq(f), x)
    BY <2>1 DEF GptPayload
  <2> QED BY <2>2, <2>7, <2>8, <2>9
<1> DEFINE T == {k \in 0..Len(w) :
                    /\ Tells(FlattenSeq(FirstOf(its, k)), CallsIn(FirstOf(w, k)), Texts(FirstOf(w, k)))
                    /\ LastCalls(FlattenSeq(FirstOf(its, k))) = LastCalls(FirstOf(w, k))}
<1>5. 0 \in T
  <2>1. FirstOf(its, 0) = <<>> /\ FirstOf(w, 0) = <<>>
    BY <1>2, <1>3, FirstAndAll
  <2>2. CallsIn(<<>>) = <<>> /\ Texts(<<>>) = 0
    BY TellsNothing DEF Tells
  <2> QED BY <1>3, <2>1, <2>2, FlattenEmpty, TellsNothing
<1>6. ASSUME NEW k \in 0..(Len(w) - 1), k \in T PROVE k + 1 \in T
  <2>1. PICK g, f, m : g = FlattenSeq(FirstOf(its, k)) /\ f = FirstOf(w, k) /\ m = w[k + 1]
    OBVIOUS
  <2>2. f \in Seq(Wired) /\ m \in Wired /\ FirstOf(w, k + 1) = Append(f, m)
    BY <1>2, <2>1, FirstOneMore
  <2>3. FlattenSeq(FirstOf(its, k + 1)) = g \o GptItems(m)
    <3>1. k \in 0..(Len(its) - 1) /\ its[k + 1] = GptItems(m)
      BY <1>3, <2>1
    <3> QED BY <1>3, <2>1, <3>1, FlattenOneMore
  <2>4. Tells(g, CallsIn(f), Texts(f)) /\ LastCalls(g) = LastCalls(f)
    BY <1>6, <2>1
  <2>5. m.answers = LastCalls(g)
    BY <1>2, <2>1, <2>4, ChainedFirst
  <2>6. IF m.role = "assistant" THEN m.answers = <<>> /\ Len(m.calls) <= 1 ELSE m.calls = <<>>
    <3>1. k + 1 \in 1..Len(w)
      BY <1>3
    <3> QED BY <1>2, <2>1, <3>1 DEF Shaped
  <2>7. /\ Tells(g \o GptItems(m), CallsIn(f) \o m.calls, Texts(f) + One(m.text))
        /\ LastCalls(g \o GptItems(m)) = m.calls
    BY <2>2, <2>4, <2>5, <2>6, GptOneMore
  <2>8. CallsIn(Append(f, m)) = CallsIn(f) \o m.calls /\ Texts(Append(f, m)) = Texts(f) + One(m.text)
    BY <2>2, CallsInMore, TextsMore
  <2>9. LastCalls(Append(f, m)) = m.calls
    <3>1. PICK t : t = Append(f, m)
      OBVIOUS
    <3>2. t # <<>> /\ t[Len(t)] = m
      BY <2>2, <3>1
    <3> QED BY <3>1, <3>2 DEF LastCalls
  <2>10. k + 1 \in 0..Len(w)
    BY <1>3
  <2> QED BY <2>2, <2>3, <2>7, <2>8, <2>9, <2>10
<1> HIDE DEF T
<1>7. \A k \in 0..Len(w) : k \in T
  BY <1>3, <1>5, <1>6, SetInduction
<1>8. Len(w) \in T
  BY <1>3, <1>7
<1>9. FirstOf(its, Len(w)) = its /\ FirstOf(w, Len(w)) = w
  BY <1>2, <1>3, FirstAndAll
<1>10. Tells(FlattenSeq(its), cs, n) /\ LastCalls(FlattenSeq(its)) = <<>>
  BY <1>2, <1>8, <1>9 DEF T
<1> QED BY <1>4, <1>10, TellsAnswers

\* The conversation as the run goes on.
LEMMA SaidBefore ==
    ASSUME NEW tool \in Tools \cup {NoName}
    PROVE  /\ UserMsg(tool) \in Said /\ UserMsg(tool).kind = "user" /\ UserMsg(tool).text = TRUE
  BY DEF UserMsg, Said, NoId, CallIds

\* Nothing said converts into nothing.
LEMMA NothingSaid == Converted(Converting(<<>>), CallsOf(<<>>), Texts(<<>>))
<1>1. CallsOf(<<>>) = <<>>
  <2>1. [k \in DOMAIN <<>> |-> IF <<>>[k].kind = "call" THEN <<(<<>>[k]).id>> ELSE <<>>] = <<>>
    OBVIOUS
  <2> QED BY <2>1, FlattenEmpty DEF CallsOf
<1>2. Texts(<<>>) = 0 /\ Tells(<<>>, <<>>, 0) /\ LastCalls(<<>>) = <<>>
  BY TellsNothing DEF Tells
<1>3. Shaped(<<>>)
  BY DEF Shaped
<1>4. Complete(<<>>, <<>>, 0)
  BY <1>2, <1>3 DEF Complete
<1>5. PICK w : w = Unconverted
  OBVIOUS
<1>6. w.list = <<>> /\ w.pending = FALSE /\ w.text = FALSE /\ w.calls = <<>> /\ ConvertType(w)
  BY <1>5 DEF Unconverted, ConvertType
<1>7. Converted(w, <<>>, 0)
  <2>1. 0 \in Nat /\ 0 = 0 + One(w.text)
    BY <1>6 DEF One
  <2> QED BY <1>4, <1>6, <2>1 DEF Converted
<1> QED BY <1>1, <1>2, <1>5, <1>7, ConvertNothing

\* The conversation tells what was said, at first.
LEMMA ConversationInit == StreamAssumption /\ StreamInit => Conversation(msgs)
<1> SUFFICES ASSUME StreamAssumption, StreamInit PROVE Conversation(msgs)
  OBVIOUS
<1>0. PICK first : first = IF Instructed THEN <<SystemMsg(0)>> ELSE <<>>
  OBVIOUS
<1>1. PICK tool \in Tools \cup {NoName} : msgs = Append(first, UserMsg(tool))
  BY <1>0 DEF StreamInit, Wishes
<1>2. PICK m, u : m = UserMsg(tool) /\ u = SystemMsg(0)
  OBVIOUS
<1>3. m \in Said /\ m.kind = "user" /\ m.text = TRUE
  BY <1>2, SaidBefore
<1>4. u \in Said /\ u.kind = "system" /\ u.text = FALSE
  BY <1>2, FollowUp
<1>5. <<>> \in Seq(Said) /\ Append(<<>>, u) = <<u>> /\ <<u>> \in Seq(Said)
  BY <1>4
<1>6. Converted(Converting(<<u>>), CallsOf(<<u>>), Texts(<<u>>))
  BY <1>4, <1>5, NothingSaid, AddSystem
<1>7. first \in {<<>>, <<u>>}
  BY <1>0, <1>2
<1>8. first \in Seq(Said) /\ Converted(Converting(first), CallsOf(first), Texts(first))
  BY <1>5, <1>6, <1>7, NothingSaid
<1>9. Conversation(Append(first, m))
  BY <1>3, <1>8, AddUser
<1> QED BY <1>1, <1>2, <1>9

\* Two messages more.
LEMMA TwoMore ==
    ASSUME NEW S, NEW u \in Seq(S), NEW a \in S, NEW b \in S, NEW v, v = <<a, b>>
    PROVE  u \o v = Append(Append(u, a), b)
<1>1. PICK l, w, r, n : l = u \o v /\ w = Append(u, a) /\ r = Append(w, b) /\ n = Len(u)
  OBVIOUS
<1>2. v \in Seq(S) /\ Len(v) = 2 /\ v[1] = a /\ v[2] = b /\ n \in Nat
  BY <1>1
<1>3. /\ l \in Seq(S) /\ Len(l) = n + 2
      /\ \A i \in 1..(n + 2) : l[i] = IF i <= n THEN u[i] ELSE v[i - n]
  BY <1>1, <1>2, ConcatProperties
<1>4. w \in Seq(S) /\ Len(w) = n + 1 /\ (\A i \in 1..n : w[i] = u[i]) /\ w[n + 1] = a
  BY <1>1, AppendProperties
<1>5. r \in Seq(S) /\ Len(r) = n + 2 /\ (\A i \in 1..(n + 1) : r[i] = w[i]) /\ r[n + 2] = b
  <2>1. r \in Seq(S) /\ Len(r) = Len(w) + 1 /\ r[Len(w) + 1] = b
    BY <1>1, <1>4, AppendProperties
  <2>2. \A i \in 1..Len(w) : r[i] = w[i]
    BY <1>1, <1>4, AppendProperties
  <2>3. (n + 1) + 1 = n + 2
    BY <1>2
  <2> QED BY <1>4, <2>1, <2>2, <2>3
<1>6. ASSUME NEW i \in 1..(n + 2) PROVE l[i] = r[i]
  <2>1. CASE i \in 1..n
    <3>1. i <= n /\ i \in 1..(n + 1)
      BY <1>2, <2>1
    <3> QED BY <1>3, <1>4, <1>5, <2>1, <3>1
  <2>2. CASE i = n + 1
    <3>1. l[n + 1] = v[1] /\ n + 1 \in 1..(n + 1)
      BY <1>2, <1>3
    <3> QED BY <1>2, <1>4, <1>5, <2>2, <3>1
  <2>3. CASE i = n + 2
    <3>1. l[n + 2] = v[2]
      BY <1>2, <1>3
    <3> QED BY <1>2, <1>5, <2>3, <3>1
  <2> QED BY <1>2, <2>1, <2>2, <2>3
<1> QED BY <1>1, <1>3, <1>5, <1>6, SeqEqual

\* Each call that is executed is answered at once.
LEMMA ExecuteTells ==
    ASSUME StreamType, Conversation(msgs), Execute
    PROVE  Conversation(msgs')
<1>1. PICK calls : calls = taken.calls
  OBVIOUS
<1>2. calls \in Seq(CallsTaken) /\ msgs \in Seq(Said)
  BY <1>1 DEF StreamType
<1>3. PICK cap \in 0..Len(calls) : msgs' = msgs \o FlattenSeq(Executed(calls, cap))
  BY <1>1, ExecuteIs
<1>4. PICK it : it = Executed(calls, cap)
  OBVIOUS
<1>5. it \in Seq(Seq(Said)) /\ Len(it) = cap /\ cap \in Nat
  BY <1>2, <1>3, <1>4, ExecutedType
<1> DEFINE T == {k \in 0..cap : Conversation(msgs \o FlattenSeq(FirstOf(it, k)))}
<1>6. 0 \in T
  <2>1. FlattenSeq(FirstOf(it, 0)) = <<>>
    BY <1>5, FirstAndAll, FlattenEmpty
  <2>2. msgs \o <<>> = msgs
    BY <1>2
  <2>3. Conversation(msgs \o FlattenSeq(FirstOf(it, 0)))
    BY <2>1, <2>2
  <2> QED BY <1>5, <2>3
<1>7. ASSUME NEW k \in 0..(cap - 1), k \in T PROVE k + 1 \in T
  <2>1. PICK f, z, c, a, b : /\ f = FlattenSeq(FirstOf(it, k)) /\ z = k + 1 /\ c = calls[k + 1]
                             /\ a = CallMsg("call", c) /\ b = CallMsg("result", c)
    OBVIOUS
  <2>2. z \in 1..cap /\ c \in CallsTaken
    BY <1>2, <1>3, <2>1
  <2>3. /\ a \in Said /\ b \in Said /\ a.kind = "call" /\ b.kind = "result" /\ a.id = b.id
        /\ ~a.text /\ ~b.text
    BY <2>1, <2>2 DEF CallMsg, Said, CallsTaken
  <2>4. it[z] = <<a, b>>
    BY <1>4, <2>1, <2>2 DEF Executed
  <2>5. f \in Seq(Said) /\ FlattenSeq(FirstOf(it, z)) = f \o <<a, b>>
    <3>1. f \in Seq(Said) /\ FlattenSeq(FirstOf(it, k + 1)) = f \o it[k + 1]
      BY <1>5, <2>1, FlattenOneMore
    <3> QED BY <2>1, <2>4, <3>1
  <2>6. msgs \o (f \o <<a, b>>) = Append(Append(msgs \o f, a), b)
    <3>1. msgs \in Seq(Said) /\ f \in Seq(Said) /\ a \in Said /\ b \in Said
      BY <1>2, <2>3, <2>5
    <3>2. PICK g, h, e : g = <<a, b>> /\ h = f \o g /\ e = msgs \o f
      OBVIOUS
    <3>3. g \in Seq(Said) /\ e \in Seq(Said)
      BY ONLY <3>1, <3>2
    <3>4. e \o g = msgs \o h
      BY ONLY <3>1, <3>2, <3>3, Regroup
    <3>5. e \o g = Append(Append(e, a), b)
      BY ONLY <3>1, <3>2, <3>3, TwoMore
    <3> QED BY <3>2, <3>4, <3>5
  <2>7. Conversation(msgs \o f) /\ msgs \o f \in Seq(Said)
    BY <1>2, <1>7, <2>1, <2>5
  <2>8. Conversation(Append(Append(msgs \o f, a), b))
    BY <2>3, <2>7, AddPair
  <2>9. Conversation(msgs \o FlattenSeq(FirstOf(it, z)))
    BY <2>5, <2>6, <2>8
  <2>10. z \in 0..cap
    BY <1>5, <2>2
  <2> QED BY <2>1, <2>9, <2>10
<1> HIDE DEF T
<1>8. \A k \in 0..cap : k \in T
  BY <1>5, <1>6, <1>7, SetInduction
<1>9. cap \in T
  BY <1>5, <1>8
<1>10. FirstOf(it, cap) = it
  BY <1>5, FirstAndAll
<1> QED BY <1>3, <1>4, <1>9, <1>10 DEF T

\* Assembling the response keeps what the conversation tells.
LEMMA AssembleTells ==
    ASSUME StreamType, Conversation(msgs), Assemble
    PROVE  Conversation(msgs')
<1>1. msgs' = msgs \/ msgs' = Append(msgs, AssistantMsg(Assembled.texts > 0))
  BY DEF Assemble
<1>2. PICK m : m = AssistantMsg(Assembled.texts > 0)
  OBVIOUS
<1>3. m \in Said /\ m.kind = "assistant"
  BY <1>2 DEF AssistantMsg, Said, NoId, CallIds
<1>4. msgs \in Seq(Said)
  BY DEF StreamType
<1>5. Conversation(Append(msgs, m))
  BY <1>3, <1>4, AddAssistant
<1> QED BY <1>1, <1>2, <1>5

\* Another loop, with or without an instruction more, keeps what the conversation tells.
LEMMA AskMoreTells ==
    ASSUME StreamType, Conversation(msgs), AskMore
    PROVE  Conversation(msgs')
<1>1. msgs' = msgs \/ \E n \in {1, 2} : msgs' = Append(msgs, SystemMsg(n))
  BY DEF AskMore
<1>2. PICK n \in Nat : msgs' \in {msgs, Append(msgs, SystemMsg(n))}
  BY <1>1
<1>3. msgs \in Seq(Said) /\ Converted(Converting(msgs), CallsOf(msgs), Texts(msgs))
  BY DEF StreamType, Conversation
<1>4. PICK m : m = SystemMsg(n)
  OBVIOUS
<1>5. m \in Said /\ m.kind = "system" /\ m.text = FALSE
  BY <1>2, <1>4, FollowUp
<1>6. Conversation(Append(msgs, m))
  BY <1>3, <1>5, AddSystem
<1> QED BY <1>2, <1>4, <1>6

\* Every step keeps what the conversation tells.
LEMMA ConversationStep ==
    StreamType /\ Conversation(msgs) /\ [StreamNext]_streamVars => Conversation(msgs)'
<1> SUFFICES ASSUME StreamType, Conversation(msgs), [StreamNext]_streamVars
             PROVE  Conversation(msgs')
  OBVIOUS
<1>1. CASE UNCHANGED msgs
  BY <1>1
<1>2. UNCHANGED msgs \/ Assemble \/ Execute \/ AskMore
  BY StreamSteps DEF streamVars, Send, RateLimited, Broken, Interrupt, TextDelta, BeginCall,
     ArgsDelta, ArgsDone, EndReply, TextChunk, CallChunk, LastChunk, EchoReply, Continue,
     streamFrame, ChunkFrame
<1> QED BY <1>1, <1>2, AssembleTells, ExecuteTells, AskMoreTells

\* Each provider's request answers the calls of the conversation.
LEMMA PayloadAnswers ==
    ASSUME StreamType, Conversation(msgs), provider # "echo"
    PROVE  Answered(Payload(Request(msgs)), CallsOf(msgs), Texts(msgs))
<1>1. PICK r, cs, n : r = Request(msgs) /\ cs = CallsOf(msgs) /\ n = Texts(msgs)
  OBVIOUS
<1>2. msgs \in Seq(Said) /\ msgs # <<>> /\ provider \in {"compat", "gpt", "gemini"}
  BY DEF StreamType
<1>3. /\ r.history \in Seq(Wired) /\ r.query \in BOOLEAN
      /\ Complete(CompatPayload(r), cs, n) /\ (~r.query => Complete(r.history, cs, n))
  BY <1>1, <1>2, RequestTells
<1>4. CASE provider = "compat"
  <2>1. Payload(r) = CompatPayload(r)
    BY <1>4 DEF Payload
  <2>2. Answered(CompatPayload(r), cs, n)
    BY <1>3, TellsAnswers DEF Complete
  <2> QED BY <1>1, <2>1, <2>2
<1>5. CASE provider = "gpt"
  <2>1. Payload(r) = GptPayload(r)
    BY <1>5 DEF Payload
  <2>2. Answered(GptPayload(r), cs, n)
    BY <1>3, GptAnswers
  <2> QED BY <1>1, <2>1, <2>2
<1>6. CASE provider = "gemini"
  <2>1. Payload(r) = GeminiPayload(r)
    BY <1>6 DEF Payload
  <2>2. Answered(GeminiPayload(r), cs, n)
    BY <1>3, GeminiAnswers
  <2> QED BY <1>1, <2>1, <2>2
<1> QED BY <1>2, <1>4, <1>5, <1>6

\* However many calls the model has made and however many of them were executed, the
\* request that each provider makes answers every call in the item after it, has no
\* answer elsewhere, and tells all of the texts and calls in their order
\* (msgs_to_provider with each make_request_payload).
THEOREM AnswersAreInPlace == StreamSpec => []AnswersFollowCalls
<1>1. StreamInit => Conversation(msgs)
  BY StreamAssumption, ConversationInit
<1>2. StreamType /\ Conversation(msgs) /\ [StreamNext]_streamVars => Conversation(msgs)'
  BY ConversationStep
<1>3. StreamType /\ Conversation(msgs) => AnswersFollowCalls
  BY PayloadAnswers DEF Answered, AnswersFollowCalls
<1> QED BY <1>1, <1>2, <1>3, StreamIsTyped, PTL DEF StreamSpec

=============================================================================
