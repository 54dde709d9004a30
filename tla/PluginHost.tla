----------------------------- MODULE PluginHost -----------------------------
(***************************************************************************)
(* Tools that plugins provide.  A plugin is a child process that answers   *)
(* JSON-RPC requests, one line each, on its stdout; a reader thread passes *)
(* the lines to the client through a channel.  The repository has two      *)
(* clients.  The bridge (libs/plugins: StdioJsonRpcMcpBridgeHost over      *)
(* StdioJsonRpcClient) is the one `ai` is wired to; the external loader    *)
(* (adapter/plugin: load_external_plugins over ExternalPluginStdioClient)  *)
(* is kept with its tests.  `ai` lists the tools of every enabled plugin   *)
(* when it starts and then calls them one at a time.                       *)
(*                                                                         *)
(* What a plugin does is outside src/: it may answer late or never, refuse *)
(* a request, exit, leave a request unread, and, when it is rude, write    *)
(* lines nobody asked for.                                                 *)
(***************************************************************************)
EXTENDS Integers, Sequences, FiniteSets, Functions

CONSTANTS
    Servers,    \* plugins, numbered in the order of discovery
    Deaf,       \* the plugins that may leave a request unread for ever
    Names,      \* names of tools
    NoServer,   \* no plugin
    MaxCalls,   \* bound: tool calls after start-up
    MaxBabble   \* bound: lines nobody asked for

PluginAssumption ==
    /\ Servers \subseteq Nat \ {0}
    /\ IsFiniteSet(Servers)
    /\ Deaf \subseteq Servers
    /\ NoServer \notin Servers
    /\ {MaxCalls, MaxBabble} \subseteq Nat

ASSUME PluginAssumption

VARIABLES
    flavor,    \* the client in use: "bridge" or "external"
    rude,      \* whether plugins may write lines nobody asked for
    enabled,   \* plugins whose manifest says enabled
    offers,    \* the tools each plugin has
    kids,      \* the child processes started so far, with their channels
    client,    \* the child each plugin's client talks to, 0 when there is none
    closed,    \* plugins whose client has given up its stdin
    nextId,    \* next_id of each client
    bindings,  \* tool_bindings of the bridge: the plugin a tool is called at
    registry,  \* the tool registry: the plugin whose tool has the name
    hints,     \* the plugin whose policy hint the name has
    stage,     \* where the caller is
    toList,    \* plugins whose tools are still to be listed
    cur,       \* the exchange under way: plugin, method, id, number
    asked,     \* exchanges so far
    results,   \* outcomes of the tool calls
    babble     \* lines nobody asked for so far

config == <<flavor, rude, enabled, offers>>
tables == <<bindings, registry, hints>>
clients == <<client, closed, nextId>>
caller == <<stage, toList, cur, asked, results>>
vars == <<config, kids, clients, tables, caller, babble>>

Kid == kids[client[cur.server]]
NoExchange == [server |-> NoServer, what |-> "none", id |-> 0]

Init ==
    /\ flavor \in {"bridge", "external"}
    /\ rude \in BOOLEAN
    /\ enabled \in SUBSET Servers
    /\ offers \in [Servers -> SUBSET Names]
    /\ kids = <<>>
    /\ client = [s \in Servers |-> 0]
    /\ closed = {}
    /\ nextId = [s \in Servers |-> 1]
    /\ bindings = [n \in Names |-> NoServer]
    /\ registry = [n \in Names |-> NoServer]
    /\ hints = [n \in Names |-> NoServer]
    /\ stage = "discover"
    /\ toList = {}
    /\ cur = NoExchange
    /\ asked = 0
    /\ results = <<>>
    /\ babble = 0

-----------------------------------------------------------------------------
(* Start-up.                                                               *)

\* Slip: any response is taken for the answer.
MatchesAny(line, id) == line.kind # "junk"

\* A response is accepted only when its id is that of the request.
Matches(line, id) == line.kind # "junk" /\ line.id = id

\* discover: only enabled plugins are listed, in the order of discovery.
Discover ==
    /\ stage = "discover"
    /\ toList' = enabled
    /\ stage' = "list"
    /\ UNCHANGED <<config, kids, clients, tables, cur, asked, results, babble>>

ListNext ==
    /\ stage = "list"
    /\ \E s \in toList :
          /\ \A r \in toList : s <= r
          /\ cur' = [server |-> s, what |-> "list", id |-> 0]
          /\ toList' = toList \ {s}
    /\ stage' = "start"
    /\ asked' = asked + 1
    /\ UNCHANGED <<config, kids, clients, tables, results, babble>>

ListedAll ==
    /\ stage = "list"
    /\ toList = {}
    /\ stage' = "calls"
    /\ UNCHANGED <<config, kids, clients, tables, toList, cur, asked, results, babble>>

\* The plugin a call of the tool goes to: the bridge looks the tool up in its
\* bindings, the proxy of the external loader knows its plugin.
Callee(n) == IF flavor = "bridge" THEN bindings[n] ELSE registry[n]

Call(n) ==
    /\ stage = "calls"
    /\ Len(results) < MaxCalls
    /\ registry[n] # NoServer
    /\ cur' = [server |-> Callee(n), what |-> "call", id |-> 0]
    /\ stage' = "start"
    /\ asked' = asked + 1
    /\ UNCHANGED <<config, kids, clients, tables, toList, results, babble>>

Finish ==
    /\ stage = "calls"
    /\ stage' = "done"
    /\ UNCHANGED <<config, kids, clients, tables, toList, cur, asked, results, babble>>

\* The exchange ends: the caller gets an answer, or an error.
EndWith(ok, answer) ==
    /\ stage' = IF cur.what = "list" THEN "list" ELSE "calls"
    /\ cur' = NoExchange
    /\ results' = IF cur.what = "list" THEN results
                  ELSE Append(results, [ok |-> ok, asked |-> asked, answer |-> answer])
    /\ UNCHANGED <<toList, asked>>

EndWithError == EndWith(FALSE, 0)

Killed(k) == [kids EXCEPT ![k].alive = FALSE]

\* An error while listing makes the external loader drop its client, and the
\* destructor kills the child; the bridge keeps the client it has.
FailList ==
    /\ EndWithError
    /\ IF flavor = "external" /\ cur.what = "list"
       THEN /\ kids' = Killed(client[cur.server])
            /\ client' = [client EXCEPT ![cur.server] = 0]
       ELSE UNCHANGED <<kids, client>>

-----------------------------------------------------------------------------
(* Starting a child: spawn, initialize, wait for its answer.               *)

UseClient ==
    /\ stage = "start"
    /\ client[cur.server] # 0
    /\ stage' = "send"
    /\ UNCHANGED <<config, kids, clients, tables, toList, cur, asked, results, babble>>

Spawn ==
    /\ stage = "start"
    /\ client[cur.server] = 0
    /\ kids' = Append(kids, [server |-> cur.server, alive |-> TRUE,
                             todo |-> <<[id |-> 1, asked |-> asked]>>,
                             out |-> <<>>, last |-> <<>>])
    /\ stage' = "init"
    /\ UNCHANGED <<config, clients, tables, toList, cur, asked, results, babble>>

SpawnFails ==
    /\ stage = "start"
    /\ client[cur.server] = 0
    /\ EndWithError
    /\ UNCHANGED <<config, kids, clients, tables, babble>>

Newest == Len(kids)

\* The answer to initialize.  One that cannot be parsed, or has another id,
\* ends the start; the bridge leaves the child running then.
Initialized ==
    /\ stage = "init"
    /\ kids[Newest].out # <<>>
    /\ LET line == Head(kids[Newest].out)
           read == [kids EXCEPT ![Newest].out = Tail(@)]
       IN  IF Matches(line, 1) /\ line.kind = "ok"
           THEN /\ kids' = read
                /\ client' = [client EXCEPT ![cur.server] = Newest]
                /\ nextId' = [nextId EXCEPT ![cur.server] = 2]
                /\ closed' = closed \ {cur.server}
                /\ stage' = "send"
                /\ UNCHANGED <<toList, cur, asked, results>>
           ELSE /\ kids' = IF Matches(line, 1) \/ flavor = "external"
                           THEN [read EXCEPT ![Newest].alive = FALSE]
                           ELSE read
                /\ EndWithError
                /\ UNCHANGED clients
    /\ UNCHANGED <<config, tables, babble>>

\* No answer to initialize within startup_timeout_ms, or the child is gone.
GiveUpStart ==
    /\ stage = "init"
    /\ kids[Newest].out = <<>>
    /\ kids' = Killed(Newest)
    /\ EndWithError
    /\ UNCHANGED <<config, clients, tables, babble>>

-----------------------------------------------------------------------------
(* request: write a line, wait for a line.                                 *)

\* What comes of the write: the child has the request, or the pipe is closed.
Sends ==
    /\ nextId' = [nextId EXCEPT ![cur.server] = @ + 1]
    /\ IF cur.server \in closed \/ ~Kid.alive
       THEN FailList
       ELSE /\ kids' = [kids EXCEPT ![client[cur.server]].todo =
                            Append(@, [id |-> nextId[cur.server], asked |-> asked])]
            /\ cur' = [cur EXCEPT !.id = nextId[cur.server]]
            /\ stage' = "wait"
            /\ UNCHANGED <<client, toList, asked, results>>
    /\ UNCHANGED <<config, closed, tables, babble>>

\* A request that the pipe holds.
SendRequest == stage = "send" /\ Sends

\* The arguments of a call may be longer than the pipe: the write lasts until the
\* child has read the request, or is gone.  No timeout ends it.
WriteBlocks ==
    /\ stage = "send" /\ cur.what = "call"
    /\ cur.server \notin closed /\ Kid.alive
    /\ stage' = "write"
    /\ UNCHANGED <<config, kids, clients, tables, toList, cur, asked, results, babble>>

WriteFails == stage = "write" /\ ~Kid.alive /\ Sends

\* list_tools of the bridge binds every listed tool to the plugin.
Bind(s) ==
    bindings' = [n \in Names |-> IF n \in offers[s] THEN s ELSE bindings[n]]

\* In the bridge's wiring the last plugin gets the name and the first one its
\* policy hint; the external loader skips a name that is taken.
RegisterTools(s) ==
    LET used(n) == registry[n] # NoServer
    IN  IF flavor = "bridge"
        THEN /\ Bind(s)
             /\ registry' = [n \in Names |-> IF n \in offers[s] THEN s ELSE registry[n]]
             /\ hints' = [n \in Names |-> IF n \in offers[s] /\ hints[n] = NoServer
                                          THEN s ELSE hints[n]]
        ELSE /\ registry' = [n \in Names |-> IF n \in offers[s] /\ ~used(n)
                                             THEN s ELSE registry[n]]
             /\ UNCHANGED <<bindings, hints>>

ReceiveAnswer ==
    /\ stage = "wait"
    /\ Kid.out # <<>>
    /\ LET line == Head(Kid.out)
           read == [kids EXCEPT ![client[cur.server]].out = Tail(@)]
       IN  IF Matches(line, cur.id) /\ line.kind = "ok"
           THEN /\ kids' = read
                /\ UNCHANGED client
                /\ EndWith(TRUE, line.asked)
                /\ IF cur.what = "list" THEN RegisterTools(cur.server)
                   ELSE UNCHANGED tables
           ELSE /\ kids' = IF flavor = "external" /\ cur.what = "list"
                           THEN [read EXCEPT ![client[cur.server]].alive = FALSE]
                           ELSE read
                /\ client' = IF flavor = "external" /\ cur.what = "list"
                             THEN [client EXCEPT ![cur.server] = 0] ELSE client
                /\ EndWithError
                /\ UNCHANGED tables
    /\ UNCHANGED <<config, closed, nextId, babble>>

\* Slip: the wait has no limit; only the end of the child's output ends it.
NoAnswerAtEnd ==
    /\ stage = "wait"
    /\ Kid.out = <<>>
    /\ ~Kid.alive
    /\ FailList
    /\ UNCHANGED <<config, closed, nextId, tables, babble>>

\* No line within call_timeout_ms, or the child has closed its stdout.  The
\* bridge kills the child and closes its stdin; nothing starts it again.
NoAnswer ==
    /\ stage = "wait"
    /\ Kid.out = <<>>
    /\ IF flavor = "bridge"
       THEN /\ kids' = Killed(client[cur.server])
            /\ closed' = closed \cup {cur.server}
            /\ EndWithError
            /\ UNCHANGED client
       ELSE /\ FailList
            /\ UNCHANGED closed
    /\ UNCHANGED <<config, nextId, tables, babble>>

-----------------------------------------------------------------------------
(* The plugins.                                                            *)

\* The child reads the request that is being written to it.
ReadRequest(s) == stage = "write" /\ cur.server = s /\ Kid.alive /\ Sends

KidAnswers(k) ==
    /\ kids[k].alive
    /\ kids[k].todo # <<>>
    /\ \E kind \in {"ok", "error"} :
          LET line == [id |-> Head(kids[k].todo).id, kind |-> kind,
                       asked |-> Head(kids[k].todo).asked]
          IN  kids' = [kids EXCEPT ![k].todo = Tail(@), ![k].last = <<line>>,
                                   ![k].out = Append(@, line)]
    /\ UNCHANGED <<config, clients, tables, caller, babble>>

\* A line that is not a response, or a response written once more.
KidBabbles(k) ==
    /\ rude
    /\ babble < MaxBabble
    /\ kids[k].alive
    /\ \E line \in {[id |-> 0, kind |-> "junk", asked |-> 0]} \cup Range(kids[k].last) :
          kids' = [kids EXCEPT ![k].out = Append(@, line)]
    /\ babble' = babble + 1
    /\ UNCHANGED <<config, clients, tables, caller>>

KidExits(k) ==
    /\ kids[k].alive
    /\ kids' = Killed(k)
    /\ UNCHANGED <<config, clients, tables, caller, babble>>

-----------------------------------------------------------------------------
CallerNext ==
    \/ Discover \/ ListNext \/ ListedAll \/ Finish
    \/ UseClient \/ Spawn \/ SpawnFails \/ Initialized \/ GiveUpStart
    \/ SendRequest \/ WriteBlocks \/ WriteFails \/ ReceiveAnswer \/ NoAnswer
    \/ \E n \in Names : Call(n)

KidNext ==
    \/ \E k \in 1..Len(kids) : KidAnswers(k) \/ KidBabbles(k) \/ KidExits(k)
    \/ \E s \in Servers : ReadRequest(s)

Done == stage = "done" /\ UNCHANGED vars

Next == CallerNext \/ KidNext \/ Done

Spec ==
    /\ Init /\ [][Next]_vars
    /\ WF_vars(CallerNext)
    /\ \A s \in Servers \ Deaf : WF_vars(ReadRequest(s))

-----------------------------------------------------------------------------
(* Properties.                                                             *)

\* What a tool call returns is the plugin's answer to that very call, however
\* late answers, refused ones and lines nobody asked for mix in the channel,
\* with either client (parse_json_rpc_response_line).
OwnAnswer ==
    \A i \in DOMAIN results : results[i].ok => results[i].answer = results[i].asked

\* Listing and every call come to an end, whatever the plugins do or leave undone,
\* unless a call's request that is longer than the pipe is written to a plugin that
\* does not read it: every wait for an answer has a timeout, the write has none
\* (request).
AlwaysEnds == <>(stage = "done") \/ <>[](stage = "write" /\ cur.server \in Deaf)

\* Between two calls of the bridge nothing is under way with a plugin that
\* answers each request once: no request it may still answer and no answer
\* that the next call would take for its own.  This is what "fail-closed" is
\* for: the child that was too slow is killed (request).
ChannelDrained ==
    \A s \in Servers :
        (/\ flavor = "bridge" /\ ~rude
         /\ stage \in {"list", "calls", "done"}
         /\ client[s] # 0 /\ s \notin closed)
        => kids[client[s]].out = <<>> /\ kids[client[s]].todo = <<>>

\* No child is left running that no client can reach: a start that fails and
\* a listing that fails take the child with them.  The bridge keeps this only
\* with plugins whose first line is a response to initialize.
NoOrphans ==
    \A k \in 1..Len(kids) :
        (kids[k].alive /\ (flavor = "external" \/ ~rude))
        => client[kids[k].server] = k \/ (stage = "init" /\ k = Newest)

\* The tool the model was shown under a name is the tool a call of the name
\* reaches: the bridge's bindings and the registry, filled by different code
\* from the same listings, agree when plugins offer tools of the same name.
CallsReachShownTool ==
    flavor = "bridge" =>
        \A n \in Names : registry[n] # NoServer => bindings[n] = registry[n]

\* A caller, its clients and their children stay in step: answers go to the request they
\* are for, calls to the tool that was shown, and no child or late answer is left behind.
StaysInStep == OwnAnswer /\ ChannelDrained /\ NoOrphans /\ CallsReachShownTool

=============================================================================
