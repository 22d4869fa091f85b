----------------------------- MODULE McpRuntime -----------------------------
(***************************************************************************)
(* The servers of the Model Context Protocol that Corvus starts            *)
(* (mcp/loader.ts) and talks to over their standard streams                *)
(* (mcp/client.ts).  Each request waits in a table of its client for an    *)
(* answer, a timer, the end of the server or a disconnect.  A reload shuts *)
(* the clients in `active` down and loads the configured servers one after *)
(* the other; the routes that start one do not wait for another to end.    *)
(*                                                                         *)
(* Everything runs in one JavaScript process; an action goes from one      *)
(* await to the next.  A server offers one tool, named after the server,   *)
(* which handles one call at a time.  A write to a server that has ended   *)
(* goes nowhere.  The client for servers behind HTTP (mcp/http-client.ts)  *)
(* keeps no table and is left out.                                         *)
(***************************************************************************)
EXTENDS Naturals, Sequences, FiniteSets, SequencesExt

CONSTANTS
  Server,    \* names of servers
  Configs,   \* what config.mcpServers may hold, in order
  Client,    \* instances of McpClient; one that was closed stands for a new one
  Loader,    \* activations of reload and test
  NoClient

ASSUME McpAssumption ==
  /\ NoClient \notin Client
  /\ \A servers \in Configs : servers \in Seq(Server) /\ IsInjective(servers)
  /\ IsFiniteSet(Client) /\ IsFiniteSet(Server) /\ IsFiniteSet(Loader)
  /\ Server # {}
  /\ Cardinality(Client) >= Cardinality(Server) + Cardinality(Loader)

VARIABLES
  clients,     \* of each client: whether it is open, its server's name,
               \* whether the server still runs
  pending,     \* the requests in the tables of the clients
  unsettled,   \* the requests somebody awaits
  registry,    \* the client behind the registered tool of each server
  activeMcp,   \* active of the manager
  loaders,     \* what each reload or test is doing
  overlapped   \* history: a reload was started during another

mcpVars == <<clients, pending, unsettled, registry, activeMcp, loaders, overlapped>>

Method == {"initialize", "tools/list", "tools/call"}
McpRequest == Client \X Method
Idle == [kind |-> "idle"]

McpTypeOK ==
  /\ clients \in [Client -> [open: BOOLEAN, server: Server, runs: BOOLEAN]]
  /\ pending \subseteq McpRequest /\ unsettled \subseteq McpRequest
  /\ registry \in [Server -> Client \cup {NoClient}]
  /\ ToSet(activeMcp) \subseteq Client /\ IsInjective(activeMcp)
  /\ \A w \in Loader : loaders[w] = Idle \/
       /\ loaders[w].kind \in {"reload", "test"}
       /\ loaders[w].client \in Client
       /\ ToSet(loaders[w].todo) \subseteq Server
       /\ ToSet(loaders[w].loaded) \subseteq Client
  /\ overlapped \in BOOLEAN

Closed == [open |-> FALSE, server |-> CHOOSE s \in Server : TRUE, runs |-> FALSE]
Opened(s) == [open |-> TRUE, server |-> s, runs |-> TRUE]

McpInit ==
  /\ clients = [c \in Client |-> Closed]
  /\ pending = {} /\ unsettled = {}
  /\ registry = [s \in Server |-> NoClient]
  /\ activeMcp = <<>>
  /\ loaders = [w \in Loader |-> Idle]
  /\ overlapped = FALSE

-----------------------------------------------------------------------------
New(now) == CHOOSE c \in Client : ~now[c].open

RequestsOf(cs) == cs \X Method
Disconnected(cs) ==
  [c \in Client |-> IF c \in cs THEN Closed ELSE clients[c]]
Busy(w) == loaders[w] # Idle
IdleLoaders == {w \in Loader : ~Busy(w)}

(* Mutant: requests leave their table and are never rejected.              *)
Requests_Forgotten(old, new) ==
  pending' = (pending \ old) \cup new /\ unsettled' = unsettled \cup new

(* The old requests are settled and leave their tables; new ones are made. *)
Requests(old, new) ==
  pending' = (pending \ old) \cup new /\ unsettled' = (unsettled \ old) \cup new

(* The loader w goes on with the next server, or is done.  The clients are *)
(* `now`, the requests `old` are settled, `loaded` was loaded so far.      *)
LoadNext(w, todo, loaded, now, old) ==
  \/ /\ todo = <<>>
     /\ activeMcp' = loaded
     /\ loaders' = [loaders EXCEPT ![w] = Idle]
     /\ clients' = now
     /\ Requests(old, {})
  \/ /\ todo # <<>>
     /\ LET c == New(now) IN
          /\ clients' = [now EXCEPT ![c] = Opened(Head(todo))]
          /\ Requests(old, {<<c, "initialize">>})
          /\ loaders' = [loaders EXCEPT ![w] =
               [kind |-> "reload", client |-> c, todo |-> Tail(todo), loaded |-> loaded]]
     /\ activeMcp' = IF Busy(w) THEN activeMcp ELSE <<>>

-----------------------------------------------------------------------------
(* reload, and dispose, which loads nothing:   `active` is emptied, its    *)
(* tools and clients are gone before the first server is started.          *)
ReloadServers(servers) ==
  LET previous == ToSet(activeMcp)
      w        == CHOOSE v \in IdleLoaders : TRUE
  IN
  /\ IdleLoaders # {}
  /\ registry' = [s \in Server |-> IF registry[s] \in previous THEN NoClient ELSE registry[s]]
  /\ LoadNext(w, servers, <<>>, Disconnected(previous), RequestsOf(previous))
  /\ overlapped' = (overlapped \/ \E v \in Loader : Busy(v) /\ loaders[v].kind = "reload")

(* test: one client, without registering its tools.                        *)
Test(s) ==
  /\ IdleLoaders # {}
  /\ LET c == New(clients)
         w == CHOOSE v \in IdleLoaders : TRUE
     IN
       /\ clients' = [clients EXCEPT ![c] = Opened(s)]
       /\ Requests({}, {<<c, "initialize">>})
       /\ loaders' = [loaders EXCEPT ![w] =
            [kind |-> "test", client |-> c, todo |-> <<>>, loaded |-> <<>>]]
  /\ UNCHANGED <<registry, activeMcp, overlapped>>

(* The server answers initialize; the next request is made, even to a      *)
(* server that has ended since.                                            *)
Initialized(w) ==
  LET c == loaders[w].client IN
  /\ Busy(w) /\ <<c, "initialize">> \in pending
  /\ clients[c].runs
  /\ Requests({<<c, "initialize">>}, {<<c, "tools/list">>})
  /\ UNCHANGED <<clients, registry, activeMcp, loaders, overlapped>>

(* Mutant: loadServer throws without disconnecting its client.             *)
Abandon_Open(w, now) ==
  IF loaders[w].kind = "reload"
  THEN LoadNext(w, loaders[w].todo, loaders[w].loaded, now, RequestsOf({loaders[w].client}))
  ELSE /\ clients' = now
       /\ Requests(RequestsOf({loaders[w].client}), {})
       /\ loaders' = [loaders EXCEPT ![w] = Idle]
       /\ UNCHANGED activeMcp

(* loadServer fails, or test ends: the client is disconnected.             *)
Abandon(w, now) ==
  LET c == loaders[w].client
      gone == [now EXCEPT ![c] = Closed]
  IN
  /\ IF loaders[w].kind = "reload"
     THEN LoadNext(w, loaders[w].todo, loaders[w].loaded, gone, RequestsOf({c}))
     ELSE /\ clients' = gone
          /\ Requests(RequestsOf({c}), {})
          /\ loaders' = [loaders EXCEPT ![w] = Idle]
          /\ UNCHANGED activeMcp

(* The server lists its tools.  A name that is taken fails the load.       *)
Listed(w) ==
  LET c == loaders[w].client
      s == clients[c].server
  IN
  /\ Busy(w) /\ <<c, "tools/list">> \in pending
  /\ clients[c].runs
  /\ IF loaders[w].kind = "reload" /\ registry[s] = NoClient
     THEN /\ registry' = [registry EXCEPT ![s] = c]
          /\ LoadNext(w, loaders[w].todo, Append(loaders[w].loaded, c), clients,
                      RequestsOf({c}))
     ELSE Abandon(w, clients) /\ UNCHANGED registry
  /\ UNCHANGED overlapped

(* An error for an answer, or the timer of the request.                    *)
LoadFails(w) ==
  /\ Busy(w)
  /\ Abandon(w, clients)
  /\ UNCHANGED <<registry, overlapped>>

-----------------------------------------------------------------------------
(* A tool is called.                                                       *)
CallTool(s) ==
  LET q == <<registry[s], "tools/call">> IN
  /\ registry[s] # NoClient
  /\ q \notin unsettled
  /\ Requests({}, {q})
  /\ UNCHANGED <<clients, registry, activeMcp, loaders, overlapped>>

CallAnswered(c) ==
  /\ <<c, "tools/call">> \in pending
  /\ clients[c].runs
  /\ Requests({<<c, "tools/call">>}, {})
  /\ UNCHANGED <<clients, registry, activeMcp, loaders, overlapped>>

CallTimesOut(c) ==
  /\ <<c, "tools/call">> \in pending
  /\ Requests({<<c, "tools/call">>}, {})
  /\ UNCHANGED <<clients, registry, activeMcp, loaders, overlapped>>

(* A server ends: what is pending is rejected, and a loader that waits for *)
(* it fails.  The client stays open.                                       *)
ServerExits(c) ==
  LET now == [clients EXCEPT ![c].runs = FALSE] IN
  /\ clients[c].runs
  /\ \/ \E w \in Loader : Busy(w) /\ loaders[w].client = c /\ Abandon(w, now)
     \/ /\ \A w \in Loader : Busy(w) => loaders[w].client # c
        /\ clients' = now
        /\ Requests(RequestsOf({c}), {})
        /\ UNCHANGED <<activeMcp, loaders>>
  /\ UNCHANGED <<registry, overlapped>>

McpNext ==
  \/ \E servers \in Configs : ReloadServers(servers)
  \/ \E s \in Server : Test(s) \/ CallTool(s)
  \/ \E w \in Loader : Initialized(w) \/ Listed(w) \/ LoadFails(w)
  \/ \E c \in Client : CallAnswered(c) \/ CallTimesOut(c) \/ ServerExits(c)

McpSpec == McpInit /\ [][McpNext]_mcpVars

(* The timer of a request rings unless something settles the request first.*)
McpFairness ==
  /\ \A w \in Loader : WF_mcpVars(LoadFails(w))
  /\ \A c \in Client : WF_mcpVars(CallTimesOut(c))

-----------------------------------------------------------------------------
(* Reloads that do not overlap lose no server: every open client is in     *)
(* `active` or in the hands of a loader, and the registered tools are      *)
(* those of the clients loaded (McpRuntimeManager).                        *)
InHand(c) ==
  \/ c \in ToSet(activeMcp)
  \/ \E w \in Loader : Busy(w) /\ (c = loaders[w].client \/ c \in ToSet(loaders[w].loaded))

Loaded ==
  ToSet(activeMcp) \cup UNION {ToSet(loaders[w].loaded) : w \in {v \in Loader : Busy(v)}}

NoClientIsLost ==
  ~overlapped =>
    /\ \A c \in Client : clients[c].open => InHand(c)
    /\ \A c \in Loaded : clients[c].open /\ registry[clients[c].server] = c

(* Every call of a tool is answered or rejected and every reload and test  *)
(* ends, whatever the servers do and however the reloads overlap (request, *)
(* rejectPending).                                                         *)
RequestsSettle ==
  /\ \A c \in Client :
       <<c, "tools/call">> \in unsettled ~> <<c, "tools/call">> \notin unsettled
  /\ \A w \in Loader : Busy(w) ~> ~Busy(w)
=============================================================================
